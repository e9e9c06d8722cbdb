------------------------- MODULE CancelableOperations -------------------------
(***************************************************************************)
(* The cancelable operations of one open connection: queries, scripts and  *)
(* EXPLAINs of the editor (Application::execute, ::explain) and the table  *)
(* import (Application::run_table_import), the registry that lets a second *)
(* command cancel them, and the five-slot pool of the driver they share.   *)
(*                                                                         *)
(* Three parties interleave.  A call takes the driver, registers its       *)
(* operation id, waits for a pooled backend, asks for its PID and then     *)
(* drives its round trips while it watches for a cancellation.  A          *)
(* canceller (cancel_query / cancel_operation) looks the id up, lets the   *)
(* lock go, and only then signals the sender it found.  The server runs    *)
(* what arrives on each backend in order, and a pg_cancel_backend sent     *)
(* from another backend strikes whatever the target runs at that moment.   *)
(***************************************************************************)
EXTENDS Naturals, Sequences, FiniteSets

CONSTANTS
    Calls,       \* command invocations; each runs once
    Cancellers,  \* invocations of cancel_operation; each runs once
    Ids,         \* operation ids the frontend hands out
    Backends,    \* the pool's slots, one PostgreSQL backend each (max_size)
    IdOf,        \* the operation id a call was given, or NoId
    Kind,        \* what a call runs: "statement", "script" or "copy"
    NoId, NoCall, NoBackend

ASSUME ConstantsAssumption ==
    /\ IdOf \in [Calls -> Ids \cup {NoId}]
    /\ Kind \in [Calls -> {"statement", "script", "copy"}]
    /\ \A c \in Calls : Kind[c] = "copy" => IdOf[c] # NoId
    /\ NoId \notin Ids
    /\ NoCall \notin Calls
    /\ NoBackend \notin Backends

VARIABLES
    pc,          \* where each call stands
    operations,  \* the registry: the call whose sender is stored under an id
    signal,      \* the value of each call's watch channel
    queue,       \* calls waiting in pool.get(), first come first served
    backend,     \* the backend a call's client holds
    helper,      \* the second backend its cancel_backend query holds
    closed,      \* PostgresDriver::disconnect closed the pool
    inbox,       \* requests a backend has yet to finish, oldest first
    step,        \* the round trip a call is in; 0 is pg_backend_pid()
    reply,       \* what the call knows of that round trip
    fate,        \* what the server made of the call's statement
    verdict,     \* what the call returns
    target,      \* the sender a canceller cloned
    cpc          \* where each canceller stands

callVars   == <<pc, step, reply, verdict>>
poolVars   == <<queue, backend, helper, closed>>
cancelVars == <<target, cpc>>
vars == <<callVars, poolVars, cancelVars, operations, signal, inbox, fate>>

-----------------------------------------------------------------------------
\* text_query and Client::query are prepare and run, a script is one
\* simple_query, a copy is BEGIN, COPY (its chunks and its end) and COMMIT.
LastStep(c) == CASE Kind[c] = "statement" -> 2
                 [] Kind[c] = "script"    -> 1
                 [] Kind[c] = "copy"      -> 3

Cancelable(c) == IdOf[c] # NoId

\* The states in which the registry owes the call an entry.
Registered == {"waiting", "identifying", "selecting", "acquiring",
               "cancelling", "awaiting", "finishing"}

\* The states in which the call has a client of the pool.
Holding == {"identifying", "selecting", "acquiring", "cancelling", "awaiting"}

FreeBackends == {b \in Backends : \A c \in Calls : b \notin {backend[c], helper[c]}}

FirstInQueue(c) == queue # <<>> /\ Head(queue) = c

\* The watch receiver lives in the driver call's future; the import keeps a
\* clone of it to tell a cancellation from a failure.
ReceiverAlive(c) ==
    \/ pc[c] \in Registered \ {"finishing"}
    \/ Kind[c] = "copy" /\ pc[c] \in {"finishing", "reporting"}

Init ==
    /\ pc = [c \in Calls |-> "new"]
    /\ operations = [i \in Ids |-> NoCall]
    /\ signal = [c \in Calls |-> FALSE]
    /\ queue = <<>>
    /\ backend = [c \in Calls |-> NoBackend]
    /\ helper = [c \in Calls |-> NoBackend]
    /\ closed = FALSE
    /\ inbox = [b \in Backends |-> <<>>]
    /\ step = [c \in Calls |-> 0]
    /\ reply = [c \in Calls |-> "unsent"]
    /\ fate = [c \in Calls |-> "none"]
    /\ verdict = [c \in Calls |-> "none"]
    /\ target = [k \in Cancellers |-> NoCall]
    /\ cpc = [k \in Cancellers |-> "idle"]

-----------------------------------------------------------------------------
(* Entering: connected_driver, then register_operation, then pool.get().   *)

\* connected_driver clones the driver handle under the manager's lock.
Admit(c) ==
    /\ pc[c] = "new"
    /\ ~closed
    /\ pc' = [pc EXCEPT ![c] = "admitted"]
    /\ UNCHANGED <<step, reply, verdict, poolVars, cancelVars, operations, signal, inbox, fate>>

RefuseInactive(c) ==
    /\ pc[c] = "new"
    /\ closed
    /\ pc' = [pc EXCEPT ![c] = "done"]
    /\ verdict' = [verdict EXCEPT ![c] = "refused"]
    /\ UNCHANGED <<step, reply, poolVars, cancelVars, operations, signal, inbox, fate>>

\* Mutant: insert without contains_key.
RegisterOverwrites(c) ==
    /\ pc[c] = "admitted"
    /\ Cancelable(c)
    /\ operations' = [operations EXCEPT ![IdOf[c]] = c]
    /\ queue' = Append(queue, c)
    /\ pc' = [pc EXCEPT ![c] = "waiting"]
    /\ UNCHANGED <<step, reply, verdict, backend, helper, closed, cancelVars, signal, inbox, fate>>

\* contains_key refuses an id in use, insert stores the sender.
Register(c) ==
    /\ pc[c] = "admitted"
    /\ Cancelable(c)
    /\ operations[IdOf[c]] = NoCall
    /\ operations' = [operations EXCEPT ![IdOf[c]] = c]
    /\ queue' = Append(queue, c)
    /\ pc' = [pc EXCEPT ![c] = "waiting"]
    /\ UNCHANGED <<step, reply, verdict, backend, helper, closed, cancelVars, signal, inbox, fate>>

RefuseDuplicate(c) ==
    /\ pc[c] = "admitted"
    /\ Cancelable(c)
    /\ operations[IdOf[c]] # NoCall
    /\ pc' = [pc EXCEPT ![c] = "done"]
    /\ verdict' = [verdict EXCEPT ![c] = "refused"]
    /\ UNCHANGED <<step, reply, poolVars, cancelVars, operations, signal, inbox, fate>>

\* A call without an operation id goes straight to the pool.
EnterUnregistered(c) ==
    /\ pc[c] = "admitted"
    /\ ~Cancelable(c)
    /\ queue' = Append(queue, c)
    /\ pc' = [pc EXCEPT ![c] = "waiting"]
    /\ UNCHANGED <<step, reply, verdict, backend, helper, closed, cancelVars, operations, signal, inbox, fate>>

-----------------------------------------------------------------------------
(* Leaving: the client and the unfinished future are dropped, which frees  *)
(* the slot but takes nothing back from the server.                        *)

\* Mutant: a `?` that skips finish_operation.
ReturnEarly(c, v) ==
    /\ verdict' = [verdict EXCEPT ![c] = v]
    /\ pc' = [pc EXCEPT ![c] = "done"]
    /\ backend' = [backend EXCEPT ![c] = NoBackend]
    /\ helper' = [helper EXCEPT ![c] = NoBackend]

Return(c, v) ==
    /\ verdict' = [verdict EXCEPT ![c] = v]
    /\ pc' = [pc EXCEPT ![c] = IF Cancelable(c) THEN "finishing" ELSE "done"]
    /\ backend' = [backend EXCEPT ![c] = NoBackend]
    /\ helper' = [helper EXCEPT ![c] = NoBackend]

\* finish_operation removes by id.
Finish(c) ==
    /\ pc[c] = "finishing"
    /\ operations' = [operations EXCEPT ![IdOf[c]] = NoCall]
    /\ pc' = [pc EXCEPT ![c] = IF Kind[c] = "copy" THEN "reporting" ELSE "done"]
    /\ UNCHANGED <<step, reply, verdict, poolVars, cancelVars, signal, inbox, fate>>

\* run_table_import reads the flag after finish_operation: an error with the
\* flag up is reported as a cancellation that imported no row.
Report(c) ==
    /\ pc[c] = "reporting"
    /\ pc' = [pc EXCEPT ![c] = "done"]
    /\ verdict' = [verdict EXCEPT ![c] = IF @ = "error" /\ signal[c] THEN "cancelled" ELSE @]
    /\ UNCHANGED <<step, reply, poolVars, cancelVars, operations, signal, inbox, fate>>

-----------------------------------------------------------------------------
(* pool.get(), for the operation and for its cancel_backend.  It waits     *)
(* without a time limit for a slot, then may fail to open the connection;  *)
(* closing the pool fails every waiter.                                    *)

\* Its client's first request leaves with the same poll: the PID query of a
\* cancelable call, or at once the operation of a call that is not.
Acquire(c) ==
    /\ pc[c] = "waiting"
    /\ FirstInQueue(c) /\ ~closed
    /\ \E b \in FreeBackends :
          /\ backend' = [backend EXCEPT ![c] = b]
          /\ inbox' = [inbox EXCEPT ![b] = Append(@, c)]
    /\ queue' = Tail(queue)
    /\ reply' = [reply EXCEPT ![c] = "sent"]
    /\ IF Cancelable(c)
       THEN pc' = [pc EXCEPT ![c] = "identifying"] /\ UNCHANGED step
       ELSE pc' = [pc EXCEPT ![c] = "awaiting"] /\ step' = [step EXCEPT ![c] = 1]
    /\ UNCHANGED <<verdict, helper, closed, cancelVars, operations, signal, fate>>

AcquireHelper(c) ==
    /\ pc[c] = "acquiring"
    /\ FirstInQueue(c) /\ ~closed
    /\ \E b \in FreeBackends : helper' = [helper EXCEPT ![c] = b]
    /\ queue' = Tail(queue)
    /\ pc' = [pc EXCEPT ![c] = "cancelling"]
    /\ UNCHANGED <<step, reply, verdict, backend, closed, cancelVars, operations, signal, inbox, fate>>

AcquireFails(c) ==
    /\ pc[c] \in {"waiting", "acquiring"}
    /\ FirstInQueue(c)
    /\ closed \/ FreeBackends # {}
    /\ queue' = Tail(queue)
    /\ Return(c, "error")
    /\ UNCHANGED <<step, reply, closed, cancelVars, operations, signal, inbox, fate>>

-----------------------------------------------------------------------------
(* The round trips.  The operation's future is polled in the select and in *)
(* the final operation.await, and not while cancel_backend runs.           *)

Polled == {"identifying", "selecting", "awaiting"}

SendFrom(c) ==
    /\ reply' = [reply EXCEPT ![c] = "sent"]
    /\ inbox' = [inbox EXCEPT ![backend[c]] = Append(@, c)]

\* Mutant: the PID the client was opened with, without asking the backend.
IdentifiedFromClient(c) ==
    /\ pc[c] = "identifying"
    /\ step' = [step EXCEPT ![c] = 1]
    /\ reply' = [reply EXCEPT ![c] = "unsent"]
    /\ pc' = [pc EXCEPT ![c] = "selecting"]
    /\ UNCHANGED <<verdict, poolVars, cancelVars, operations, signal, inbox, fate>>

\* The PID is known and the select is entered; nothing of the operation has
\* been sent yet.
Identified(c) ==
    /\ pc[c] = "identifying"
    /\ reply[c] = "ok"
    /\ step' = [step EXCEPT ![c] = 1]
    /\ reply' = [reply EXCEPT ![c] = "unsent"]
    /\ pc' = [pc EXCEPT ![c] = "selecting"]
    /\ UNCHANGED <<verdict, poolVars, cancelVars, operations, signal, inbox, fate>>

\* Mutant: no operation.await after the cancellation branch.
FirstPollInSelectOnly(c) ==
    /\ pc[c] = "selecting"
    /\ reply[c] = "unsent"
    /\ SendFrom(c)
    /\ UNCHANGED <<pc, step, verdict, poolVars, cancelVars, operations, signal, fate>>

\* The first poll of the operation, by the select or, when the select polled
\* a raised flag first, by operation.await.
FirstPoll(c) ==
    /\ pc[c] \in {"selecting", "awaiting"}
    /\ reply[c] = "unsent"
    /\ SendFrom(c)
    /\ UNCHANGED <<pc, step, verdict, poolVars, cancelVars, operations, signal, fate>>

\* Mutant: another request after the last.
AdvancePastLast(c) ==
    /\ pc[c] \in {"selecting", "awaiting"}
    /\ reply[c] = "ok"
    /\ step' = [step EXCEPT ![c] = @ + 1]
    /\ SendFrom(c)
    /\ UNCHANGED <<pc, verdict, poolVars, cancelVars, operations, signal, fate>>

\* A poll that finds an answer sends the next request.
Advance(c) ==
    /\ pc[c] \in {"selecting", "awaiting"}
    /\ reply[c] = "ok"
    /\ step[c] < LastStep(c)
    /\ step' = [step EXCEPT ![c] = @ + 1]
    /\ SendFrom(c)
    /\ UNCHANGED <<pc, verdict, poolVars, cancelVars, operations, signal, fate>>

\* Mutant: the copy reports its rows before its COMMIT.
SucceedBeforeLast(c) ==
    /\ pc[c] \in {"selecting", "awaiting"}
    /\ reply[c] = "ok"
    /\ Return(c, "ok")
    /\ UNCHANGED <<step, reply, queue, closed, cancelVars, operations, signal, inbox, fate>>

Succeed(c) ==
    /\ pc[c] \in {"selecting", "awaiting"}
    /\ reply[c] = "ok"
    /\ step[c] = LastStep(c)
    /\ Return(c, "ok")
    /\ UNCHANGED <<step, reply, queue, closed, cancelVars, operations, signal, inbox, fate>>

Fail(c) ==
    /\ pc[c] \in Polled
    /\ reply[c] = "error"
    /\ Return(c, "error")
    /\ UNCHANGED <<step, reply, queue, closed, cancelVars, operations, signal, inbox, fate>>

-----------------------------------------------------------------------------
(* The cancellation branch of the select.                                  *)

CancellationWins(c) ==
    /\ pc[c] = "selecting"
    /\ signal[c]
    /\ queue' = Append(queue, c)
    /\ pc' = [pc EXCEPT ![c] = "acquiring"]
    /\ UNCHANGED <<step, reply, verdict, backend, helper, closed, cancelVars, operations, signal, inbox, fate>>

\* What the server does when it ends the oldest request of backend b with
\* the outcome o: only the holder of the client hears of it.
EndRequest(b, o) ==
    LET c == Head(inbox[b]) IN
    /\ inbox' = [inbox EXCEPT ![b] = Tail(@)]
    /\ reply' = IF backend[c] = b
                THEN [reply EXCEPT ![c] = IF o = "ok" THEN "ok" ELSE "error"]
                ELSE reply
    /\ fate' = [fate EXCEPT ![c] =
                   CASE o = "struck" -> "struck"
                     [] o = "ok" /\ step[c] = LastStep(c) -> "applied"
                     [] OTHER -> @]

\* pg_cancel_backend(backend_pid) on the helper backend, which may still have
\* to finish what an earlier client left there.  A target with nothing to run,
\* or whose request is still on its way, ignores it.
CancelBackend(c) ==
    /\ pc[c] = "cancelling"
    /\ inbox[helper[c]] = <<>>
    /\ \/ inbox[backend[c]] # <<>> /\ EndRequest(backend[c], "struck")
       \/ UNCHANGED <<inbox, reply, fate>>
    /\ helper' = [helper EXCEPT ![c] = NoBackend]
    /\ pc' = [pc EXCEPT ![c] = "awaiting"]
    /\ UNCHANGED <<step, verdict, queue, backend, closed, cancelVars, operations, signal>>

\* An error of that query leaves through `?`: the operation's future is
\* dropped where it stands.
CancelBackendFails(c) ==
    /\ pc[c] = "cancelling"
    /\ Return(c, "error")
    /\ UNCHANGED <<step, reply, queue, closed, cancelVars, operations, signal, inbox, fate>>

-----------------------------------------------------------------------------
(* The server, the other commands and the canceller.                       *)

ServerEnds(b) ==
    /\ inbox[b] # <<>>
    /\ \E o \in {"ok", "error"} : EndRequest(b, o)
    /\ UNCHANGED <<pc, step, verdict, poolVars, cancelVars, operations, signal>>

\* Mutant: only the request that was running hears of the end of the connection.
ConnectionLostForOldest(b) ==
    LET c == Head(inbox[b]) IN
    /\ inbox[b] # <<>>
    /\ inbox' = [inbox EXCEPT ![b] = <<>>]
    /\ reply' = IF backend[c] = b THEN [reply EXCEPT ![c] = "error"] ELSE reply
    /\ \/ step[c] = LastStep(c) /\ fate' = [fate EXCEPT ![c] = "applied"]
       \/ UNCHANGED fate
    /\ UNCHANGED <<pc, step, verdict, poolVars, cancelVars, operations, signal>>

\* A connection breaks while the server runs something on it: the request may
\* have been carried out, but whoever waits hears of an error.  The pool puts
\* a new connection into the slot.
ConnectionLost(b) ==
    LET c == Head(inbox[b]) IN
    /\ inbox[b] # <<>>
    /\ inbox' = [inbox EXCEPT ![b] = <<>>]
    /\ reply' = [d \in Calls |-> IF backend[d] = b /\ reply[d] = "sent" THEN "error" ELSE reply[d]]
    /\ \/ step[c] = LastStep(c) /\ fate' = [fate EXCEPT ![c] = "applied"]
       \/ UNCHANGED fate
    /\ UNCHANGED <<pc, step, verdict, poolVars, cancelVars, operations, signal>>

\* Application::disconnect: PostgresDriver::disconnect closes the pool, the
\* clients already handed out stay usable.
Disconnect ==
    /\ ~closed
    /\ closed' = TRUE
    /\ UNCHANGED <<callVars, queue, backend, helper, cancelVars, operations, signal, inbox, fate>>

\* cancel_operation clones the sender under the lock ...
Lookup(k, i) ==
    /\ cpc[k] = "idle"
    /\ target' = [target EXCEPT ![k] = operations[i]]
    /\ cpc' = [cpc EXCEPT ![k] = IF operations[i] = NoCall THEN "notFound" ELSE "sending"]
    /\ UNCHANGED <<callVars, poolVars, operations, signal, inbox, fate>>

\* ... and sends after it let the lock go; without a receiver send fails.
SendSignal(k) ==
    /\ cpc[k] = "sending"
    /\ IF ReceiverAlive(target[k])
       THEN /\ signal' = [signal EXCEPT ![target[k]] = TRUE]
            /\ cpc' = [cpc EXCEPT ![k] = "accepted"]
       ELSE /\ cpc' = [cpc EXCEPT ![k] = "tooLate"]
            /\ UNCHANGED signal
    /\ UNCHANGED <<callVars, poolVars, target, operations, inbox, fate>>

CallStep(c) ==
    \/ Admit(c) \/ RefuseInactive(c)
    \/ Register(c) \/ RefuseDuplicate(c) \/ EnterUnregistered(c)
    \/ Acquire(c) \/ AcquireHelper(c) \/ AcquireFails(c)
    \/ Identified(c) \/ FirstPoll(c) \/ Advance(c) \/ Succeed(c) \/ Fail(c)
    \/ CancellationWins(c) \/ CancelBackend(c) \/ CancelBackendFails(c)
    \/ Finish(c) \/ Report(c)

\* Every call returned and every backend is quiet.
Terminated ==
    /\ \A c \in Calls : pc[c] = "done"
    /\ \A b \in Backends : inbox[b] = <<>>
    /\ UNCHANGED vars

Next ==
    \/ \E c \in Calls : CallStep(c)
    \/ \E b \in Backends : ServerEnds(b) \/ ConnectionLost(b)
    \/ \E k \in Cancellers : SendSignal(k) \/ (\E i \in Ids : Lookup(k, i))
    \/ Disconnect
    \/ Terminated

Spec == Init /\ [][Next]_vars

\* tokio polls a woken task again, the pool serves its waiters in order, and
\* the statement_timeout every session starts with ends what the server runs.
\* Nobody has to cancel, and nobody has to disconnect.
Fairness ==
    /\ \A c \in Calls : WF_vars(CallStep(c))
    /\ \A b \in Backends : WF_vars(ServerEnds(b))
    /\ \A k \in Cancellers : WF_vars(SendSignal(k))

FairSpec == Spec /\ Fairness

-----------------------------------------------------------------------------
\* Every variable keeps to the values the code can give it.
TypeOK ==
    /\ pc \in [Calls -> Registered \cup {"new", "admitted", "reporting", "done"}]
    /\ operations \in [Ids -> Calls \cup {NoCall}]
    /\ signal \in [Calls -> BOOLEAN]
    /\ queue \in Seq(Calls)
    /\ backend \in [Calls -> Backends \cup {NoBackend}]
    /\ helper \in [Calls -> Backends \cup {NoBackend}]
    /\ closed \in BOOLEAN
    /\ inbox \in [Backends -> Seq(Calls)]
    /\ step \in [Calls -> 0..3]
    /\ reply \in [Calls -> {"unsent", "sent", "ok", "error"}]
    /\ fate \in [Calls -> {"none", "applied", "struck"}]
    /\ verdict \in [Calls -> {"none", "ok", "error", "cancelled", "refused"}]
    /\ target \in [Cancellers -> Calls \cup {NoCall}]
    /\ cpc \in [Cancellers -> {"idle", "sending", "accepted", "tooLate", "notFound"}]

\* "The backend keeps the registration only while the operation runs and
\* removes it when it ends, fails or is cancelled": an id is registered for a
\* call exactly while that call is between its registration and
\* finish_operation, so no two running calls share an id, no path leaks an
\* entry, and finish_operation, which removes by id alone, never removes the
\* entry of another call.
RegistrationMatchesRun ==
    \A i \in Ids, c \in Calls :
        operations[i] = c <=> IdOf[c] = i /\ pc[c] \in Registered

\* A slot can come back to the pool with statements on their way in it, and its
\* connection can break under whoever holds it next.  Still a client that waits for
\* an answer has its request on the connection of its slot, and nobody's behind it,
\* and one that does not wait finds the connection quiet: nobody waits for an
\* answer that cannot come or would go to somebody else.
AnswersComeBack ==
    \A c \in Calls : pc[c] \in Holding =>
        LET requests == inbox[backend[c]] IN
        IF reply[c] = "sent" THEN requests # <<>> /\ requests[Len(requests)] = c
        ELSE requests = <<>>

\* pg_cancel_backend is aimed at a PID, not at a statement: when it goes out,
\* the target must not be running what another call left there, even though
\* a slot can come back to the pool with its last statement still running.
CancelHitsOwnStatement ==
    /\ \A c \in Calls : pc[c] = "cancelling" => \A n \in 1..Len(inbox[backend[c]]) : inbox[backend[c]][n] = c
    /\ \A c \in Calls : fate[c] = "struck" => signal[c]

\* What the user is told: a success is durable, a call that was refused never
\* reached the server, and a call that came to an error before its last round
\* trip left nothing behind, not even by what its dropped future had sent.
TruthfulVerdict ==
    \A c \in Calls :
        /\ verdict[c] = "ok" => fate[c] = "applied"
        /\ verdict[c] = "refused" => fate[c] = "none"
        /\ verdict[c] = "error" /\ step[c] < LastStep(c) => fate[c] # "applied"

\* Every call that got its driver returns, so the button that started it
\* comes back and its operation id is free again.
EveryCallReturns == \A c \in Calls : pc[c] = "admitted" ~> pc[c] = "done"

\* What the frontend can see of a call.
StatusOf(state) ==
    CASE state \in {"new", "admitted"} -> "new"
      [] state \in Registered           -> "running"
      [] state = "reporting"            -> "closing"
      [] state = "done"                 -> "done"

statusOfCalls  == [c \in Calls |-> StatusOf(pc[c])]
signalledCalls == {c \in Calls : signal[c]}

\* The registry's promise: every call is, seen from the frontend, an operation
\* of OperationLifecycle.
Lifecycle == INSTANCE OperationLifecycle WITH
    status <- statusOfCalls, signalled <- signalledCalls

\* No interleaving of calls, cancellers and failures breaks that promise's
\* safety part: unique ids, and no cancellation before the start or after
\* the return of the call it was meant for.
ImplementsLifecycle == Lifecycle!Spec

\* The contract's "removes the registration when it ends, fails or is
\* cancelled", read for the cancelled: an operation whose cancellation was
\* accepted does not keep its id for ever.
CancelledIsUnregistered ==
    \A c \in Calls : signal[c] ~> \A i \in Ids : operations[i] # c
=============================================================================
