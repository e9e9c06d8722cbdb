---------------------------- MODULE CommandCatalog ----------------------------
(***************************************************************************)
(* What each command of the application does to the database, as far as    *)
(* the sessions of the pool can tell: which driver it asks for, which of   *)
(* its queries run at the same time, and which statements share a session. *)
(* A command is a set of branches that run side by side (tokio::join!); a  *)
(* branch is a sequence of holds, each with a session of its own from the  *)
(* pool; a hold sends statements in one session.                           *)
(***************************************************************************)
EXTENDS Naturals, Sequences

\* One statement, sent by PostgresDriver::query.
Alone(kind) == [sql |-> <<kind>>, rollback |-> FALSE, optional |-> FALSE, stops |-> TRUE, late |-> "no"]
Reads(n) == [i \in 1..n |-> Alone("read")]
Write == <<Alone("write")>>

\* The answer may be an error although the statement was done: ensure_single_row
\* counts the rows behind it, and a procedure may fail after a COMMIT of its own.
RowChange == <<[Alone("write") EXCEPT !.late = "rows"]>>
ProcedureCall == <<[Alone("write") EXCEPT !.late = "procedure"]>>
Optional(holds) == [i \in DOMAIN holds |-> [holds[i] EXCEPT !.optional = TRUE]]

\* batch_execute: everything in one message.
Batch(sql) == <<[Alone("read") EXCEPT !.sql = sql]>>

\* execute_transaction and copy_in: a Transaction that is dropped rolls back.
Transaction(sql) ==
    <<[Alone("read") EXCEPT !.sql = <<"begin">> \o sql \o <<"commit">>, !.rollback = TRUE]>>

\* catalog_snapshot.
Snapshot ==
    <<[Alone("read") EXCEPT !.sql = <<"begin_read_only", "read", "rollback">>, !.rollback = TRUE]>>

-----------------------------------------------------------------------------
\* The query functions, by the names they have in draco-core.
get_schemas         == Reads(1)
get_tables          == Reads(1)
get_functions       == Reads(1)
get_completion_data == Reads(4)
get_table_estimates == Reads(1)
get_table_ddl       == Reads(1) \o Optional(Reads(2))
get_constraints     == Reads(1) \o Optional(Reads(1))
get_indexes         == Reads(1)
get_fk_map          == Reads(2)
get_table_detail    == Reads(1) \o get_constraints \o get_indexes \o get_fk_map \o Reads(1)
get_sequences       == Reads(1)
get_triggers        == Reads(1)
get_column_stats    == Reads(1)
get_dashboard       == Reads(5)
get_db_stats        == Reads(5)
get_erd_data        == Reads(4)
global_search       == Reads(3)
get_activity        == Reads(1)
get_locks           == Reads(1)
get_jobs            == Reads(1) \o Optional(Reads(1))
get_extensions      == Reads(2)
get_query_stats     == Reads(1) \o Optional(Reads(1))
get_index_ddl       == Reads(1)
standby_status      == Reads(2)
get_replication_status ==
    Reads(1) \o Optional(Reads(1)) \o Reads(1) \o Optional(standby_status)
browse_table_data_ordered == Reads(3)
get_import_target_columns == Reads(1)
extension_owning_routine  == Reads(1)
extension_owning_trigger  == Reads(1)

cancel_activity           == Reads(1)
get_job_runs              == Reads(1)
get_roles                 == Reads(1)
get_function_ddl          == Reads(1)

create_schema          == Write
create_table           == Batch(<<"write">>)
create_sequence        == Write
create_trigger         == Write
save_object_definition == Write
save_function          == Write
call_routine           == ProcedureCall
seq_next_val           == Write
seq_set_val            == Write
update_table_row_json  == RowChange
insert_table_row_json  == RowChange
delete_table_row_json  == RowChange
create_job             == Write
update_job             == Write
toggle_job             == Write
delete_job             == Write
ext_install            == Write
ext_drop               == Write
reset_query_stats      == Write
create_role            == Write
update_role            == Write
drop_role              == Write

drop_routine == extension_owning_routine \o Write
drop_trigger == extension_owning_trigger \o Write
run_vacuum   == <<Alone("vacuum")>>

replace_index_definition == get_index_ddl \o Transaction(<<"write", "write">>)

\* Mutant: one query after the other.
alter_table_stepwise == Write \o Write

\* Mutant: the batch ends without COMMIT.
alter_table_uncommitted == Optional(Batch(<<"begin", "write", "write">>))

\* Without a difference there is nothing to apply.
alter_table == Optional(Batch(<<"begin", "write", "write", "commit">>))

\* The error of the definition is the answer, the one of ROLLBACK is dropped.
validate_function ==
    <<Alone("begin"), [Alone("write") EXCEPT !.stops = FALSE],
      [Alone("rollback") EXCEPT !.stops = FALSE]>>

-----------------------------------------------------------------------------
\* connected_driver and writable_driver.
Connected(branches) == [driver |-> "connected", branches |-> branches]
Writable(holds)     == [driver |-> "writable", branches |-> <<holds>>]

Explorer ==
    [list_schemas        |-> Connected(<<get_schemas>>),
     list_tables         |-> Connected(<<get_tables, get_table_estimates>>),
     list_schema_objects |-> Connected(<<get_functions, get_sequences, get_triggers>>)]

SequenceValues ==
    [next_sequence_value |-> Writable(seq_next_val),
     set_sequence_value  |-> Writable(seq_set_val)]

Overviews ==
    [completion_data |-> Connected(<<get_completion_data>>),
     global_search   |-> Connected(<<global_search>>),
     dashboard       |-> Connected(<<get_dashboard, get_db_stats>>),
     table_detail    |-> Connected(<<get_table_detail, get_table_ddl, get_column_stats>>)]

\* table_edit_metadata comes before every change of a row.
Rows ==
    [browse_table_data |-> Connected(<<get_table_detail \o browse_table_data_ordered>>),
     update_table_cell |-> Writable(get_table_detail \o update_table_row_json),
     insert_table_row  |-> Writable(get_table_detail \o insert_table_row_json),
     delete_table_row  |-> Writable(get_table_detail \o delete_table_row_json)]

Tables ==
    [create_schema       |-> Writable(create_schema),
     create_table        |-> Writable(create_table),
     preview_alter_table |-> Connected(<<get_table_detail>>),
     alter_table         |-> Writable(get_table_detail \o alter_table),
     create_sequence     |-> Writable(create_sequence)]

Definitions ==
    [save_view_definition     |-> Writable(save_object_definition),
     save_sequence_definition |-> Writable(save_object_definition),
     index_definition         |-> Connected(<<get_index_ddl>>),
     save_index_definition    |-> Writable(get_index_ddl \o replace_index_definition)]

Routines ==
    [create_trigger               |-> Writable(create_trigger),
     function_definitions         |-> Connected(<<get_function_ddl>>),
     validate_function_definition |-> Connected(<<validate_function>>),
     save_function_definition     |-> Writable(save_function),
     save_trigger_definition      |-> Writable(save_function),
     run_routine                  |-> Writable(call_routine),
     delete_routine               |-> Writable(drop_routine),
     delete_trigger               |-> Writable(drop_trigger)]

Monitors ==
    [erd                |-> Connected(<<get_erd_data>>),
     admin              |-> Connected(<<get_activity, get_locks>>),
     replication_status |-> Connected(<<get_replication_status>>),
     cancel_activity    |-> Connected(<<cancel_activity>>)]

Jobs ==
    [list_cron_jobs      |-> Connected(<<get_jobs>>),
     set_cron_job_active |-> Writable(toggle_job),
     create_cron_job     |-> Writable(create_job),
     update_cron_job     |-> Writable(update_job),
     cron_job_runs       |-> Connected(<<get_job_runs>>),
     delete_cron_job     |-> Writable(delete_job)]

\* Mutant: maintenance asks for any driver.
ExtensionsAndMaintenanceConnected ==
    [list_extensions       |-> Connected(<<get_extensions>>),
     install_extension     |-> Writable(ext_install),
     drop_extension        |-> Writable(ext_drop),
     query_stats           |-> Connected(<<get_query_stats>>),
     reset_query_stats     |-> Writable(reset_query_stats),
     run_table_maintenance |-> Connected(<<run_vacuum>>)]

ExtensionsAndMaintenance ==
    [list_extensions       |-> Connected(<<get_extensions>>),
     install_extension     |-> Writable(ext_install),
     drop_extension        |-> Writable(ext_drop),
     query_stats           |-> Connected(<<get_query_stats>>),
     reset_query_stats     |-> Writable(reset_query_stats),
     run_table_maintenance |-> Writable(run_vacuum)]

Roles ==
    [list_roles  |-> Connected(<<get_roles>>),
     create_role |-> Writable(create_role),
     update_role |-> Writable(update_role),
     delete_role |-> Writable(drop_role)]

\* The two snapshots of one connection; with two connections each pool sees one.
SchemaDiffs == [schema_diff |-> Connected(<<Snapshot, Snapshot>>)]

Imports == [run_table_import |-> Writable(get_import_target_columns \o Transaction(<<"write", "write">>))]

Groups ==
    {Explorer, SequenceValues, Overviews, Rows, Tables, Definitions, Routines, Monitors, Jobs,
     ExtensionsAndMaintenance, Roles, SchemaDiffs, Imports}

\* Everything but the SQL editor, by name.
OwnCommands ==
    [name \in UNION {DOMAIN group : group \in Groups} |->
        (CHOOSE group \in Groups : name \in DOMAIN group)[name]]

\* execute_query and execute_script with the statements the user wrote: one
\* message in one session.
Editor(sql) == Connected(<<Batch(sql)>>)
=============================================================================
