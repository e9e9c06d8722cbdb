--------------------------- MODULE MCPooledSessions ---------------------------
(* Two calls over two sessions.  The offered commands have a batch of their   *)
(* own, a transaction, single statements, a VACUUM, queries side by side, and *)
(* three messages that may meet three sessions.                               *)
EXTENDS PooledSessions

SomeCommands == {"alter_table", "save_index_definition", "update_table_cell", "run_routine", "run_table_maintenance",
                 "schema_diff", "validate_function_definition"}
EditorTexts == {<<"begin", "write">>, <<"commit">>, <<"turn_off">>,
                <<"set_read_write", "write">>}
=============================================================================
