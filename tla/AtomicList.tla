------------------------------ MODULE AtomicList ------------------------------
(***************************************************************************)
(* What a caller of the store expects of one of its files: a list on which *)
(* every call takes effect at once and at most once, and of which an       *)
(* interrupted or failed write can cut off the end.                        *)
(***************************************************************************)
CONSTANTS Calls, Edited(_, _), CutShort(_), First

VARIABLES list, applied

vars == <<list, applied>>

Init == list = First /\ applied = {}

\* The whole effect of a call.
Apply(c) ==
    /\ c \notin applied
    /\ list' = Edited(c, list)
    /\ applied' = applied \cup {c}

\* A write that was cut short.
Lose == list' \in CutShort(list) /\ UNCHANGED applied

Next == (\E c \in Calls : Apply(c)) \/ Lose

Spec == Init /\ [][Next]_vars
=============================================================================
