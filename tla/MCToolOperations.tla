---------------------------- MODULE MCToolOperations ----------------------------
(* Small instances of ToolOperations: two backups, a restore and an import    *)
(* with its preview, on one or two paths, the backups with one operation id.  *)
EXTENDS ToolOperations

CONSTANTS dump1, dump2, restore, import, preview, file, other

MCPurpose == [c \in Calls |->
    CASE c \in {dump1, dump2} -> "backup" [] c = restore -> "restore"
      [] c = import -> "import" [] c = preview -> "preview"]

MCPathOf == [c \in Calls |-> IF c = dump2 /\ other \in Paths THEN other ELSE file]

MCOpOf == [c \in Calls |-> IF c = dump2 THEN dump1 ELSE c]

BackupsAndImport == {{dump1, dump2, restore}, {dump1, import, preview}}
=================================================================================
