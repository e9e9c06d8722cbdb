---------------------------- MODULE MCConfigStore ----------------------------
(* Small instances of ConfigStore: three calls on connections, three on    *)
(* the history and four on the snippets.                                   *)
EXTENDS ConfigStore

CONSTANTS newConn, oldConn, delOld, ins1, ins2, drop, wipe, snipA, rename, remove,
          e1, e2, e3

MCKind == [c \in Calls |->
    CASE c \in {newConn, oldConn} -> "save_connection"
      [] c = delOld -> "delete_connection"
      [] c \in {ins1, ins2}     -> "add_history"
      [] c \in {drop, remove}   -> "delete_entry"
      [] c = wipe               -> "clear"
      [] c = snipA              -> "save_snippet"
      [] c = rename             -> "rename_snippet"]

\* New entries get an id of their own, the other calls are about entry e1.
MCEntry == [c \in Calls |->
    CASE c \in {newConn, ins1, snipA} -> e2
      [] c = ins2 -> e3
      [] OTHER -> e1]

OnePerFile == {{newConn, oldConn, delOld},
               {ins1, ins2, drop},
               {snipA, rename, remove, wipe}}

MCFirst == <<[id |-> e1, by |-> "earlier"]>>
=============================================================================
