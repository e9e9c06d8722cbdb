------------------------ MODULE MCCancelableOperations ------------------------
(* Small instances of CancelableOperations: the ids and the kinds of their  *)
(* calls.  "copy" is given the operation id of "script", "plain" has none.   *)
EXTENDS CancelableOperations

CONSTANTS script, copy, plain, query, id1, id2

MCIdOf == [c \in Calls |-> CASE c = plain -> NoId [] c = query -> id2 [] OTHER -> id1]

MCKind == [c \in Calls |-> CASE c = script -> "script" [] c = copy -> "copy" [] OTHER -> "statement"]
===============================================================================
