------------------------- MODULE MCConnectionLifecycle -------------------------
(* Small instances of ConnectionLifecycle; its constants are model values.  *)
EXTENDS ConnectionLifecycle
================================================================================
