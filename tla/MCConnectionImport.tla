-------------------------- MODULE MCConnectionImport --------------------------
(* Small instances of ConnectionImport: two previews and two imports of two *)
(* candidates.                                                               *)
EXTENDS ConnectionImport

MCSlots == 0..1
===============================================================================
