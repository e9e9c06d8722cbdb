-------------------------- MODULE OperationLifecycle --------------------------
(***************************************************************************)
(* What the registry of running operations promises the frontend           *)
(* (docs/architecture/tauri-application-contract.md, "Contrato de          *)
(* operacoes longas"): an operation id names at most one running           *)
(* operation, a cancellation reaches an operation that was started and has *)
(* not returned, and an operation that started returns.  How an operation  *)
(* runs, waits or fails is left open.                                      *)
(***************************************************************************)
EXTENDS Naturals

CONSTANTS Calls, IdOf, NoId

VARIABLES
    status,     \* "new", "running" (its id is taken), "closing" or "done"
    signalled   \* calls whose cancellation was accepted

vars == <<status, signalled>>

Running(i) == {c \in Calls : IdOf[c] = i /\ status[c] = "running"}

Init ==
    /\ status = [c \in Calls |-> "new"]
    /\ signalled = {}

Start(c) ==
    /\ status[c] = "new"
    /\ IdOf[c] = NoId \/ Running(IdOf[c]) = {}
    /\ status' = [status EXCEPT ![c] = "running"]
    /\ UNCHANGED signalled

Refuse(c) ==
    /\ status[c] = "new"
    /\ status' = [status EXCEPT ![c] = "done"]
    /\ UNCHANGED signalled

\* A cancellation may still be accepted after the id was given back, by a
\* canceller that had found the operation while it ran.
Accept(c) ==
    /\ IdOf[c] # NoId
    /\ status[c] \in {"running", "closing"}
    /\ signalled' = signalled \cup {c}
    /\ UNCHANGED status

End(c) ==
    /\ \/ status[c] = "running" /\ \E s \in {"closing", "done"} : status' = [status EXCEPT ![c] = s]
       \/ status[c] = "closing" /\ status' = [status EXCEPT ![c] = "done"]
    /\ UNCHANGED signalled

Next == \E c \in Calls : Start(c) \/ Refuse(c) \/ Accept(c) \/ End(c)

Spec == Init /\ [][Next]_vars

FairSpec == Spec /\ \A c \in Calls : WF_vars(End(c))
=============================================================================
