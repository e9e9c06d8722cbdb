---------------------- MODULE CancelableOperationsProofs ----------------------
(* Proofs about CancelableOperations, for any calls, cancellers and pool   *)
(* size.                                                                   *)
EXTENDS CancelableOperations, TLAPS

\* A call makes between one and three round trips.
LEMMA LastStepRange ==
    ASSUME NEW c \in Calls
    PROVE  LastStep(c) \in 1..3
  <1>1. Kind[c] \in {"statement", "script", "copy"}
    BY ConstantsAssumption
  <1> QED
    BY <1>1 DEF LastStep

\* Taking the first of a nonempty queue of calls leaves a queue of calls.
LEMMA DequeueType ==
    ASSUME NEW S, NEW s \in Seq(S), s # <<>>
    PROVE  Head(s) \in S /\ Tail(s) \in Seq(S)
  OBVIOUS

\* Joining the end of a queue of calls leaves a queue of calls.
LEMMA EnqueueType ==
    ASSUME NEW S, NEW s \in Seq(S), NEW e \in S
    PROVE  Append(s, e) \in Seq(S)
  OBVIOUS

\* The tail of a queue holds what followed the head.
LEMMA TailFacts ==
    ASSUME NEW S, NEW s \in Seq(S), s # <<>>
    PROVE  /\ Head(s) = s[1] /\ Len(s) \in Nat /\ Len(s) >= 1
           /\ Len(Tail(s)) = Len(s) - 1
           /\ \A n \in 1..Len(Tail(s)) : n + 1 \in 1..Len(s) /\ Tail(s)[n] = s[n + 1]
           /\ Len(s) = 1 => Tail(s) = <<>>
  OBVIOUS

\* If e closes a queue and occurs nowhere else, taking the head either takes e
\* and empties the queue, or leaves e closing it.
LEMMA DropHead ==
    ASSUME NEW S, NEW s \in Seq(S), s # <<>>, NEW e, s[Len(s)] = e,
           \A n \in 1..(Len(s) - 1) : s[n] # e
    PROVE  /\ Head(s) = e => Tail(s) = <<>>
           /\ Head(s) # e =>
                 /\ Tail(s) # <<>> /\ Tail(s)[Len(Tail(s))] = e
                 /\ \A n \in 1..(Len(Tail(s)) - 1) : Tail(s)[n] # e
  <1> DEFINE t == Tail(s)
  <1>1. /\ t \in Seq(S) /\ Head(s) = s[1]
        /\ Len(s) \in Nat /\ Len(s) >= 1 /\ Len(t) = Len(s) - 1
    OBVIOUS
  <1>2. CASE Head(s) = e
    <2>1. Len(s) = 1
      BY <1>1, <1>2
    <2> QED
      BY <1>2, <2>1, TailFacts
  <1>3. CASE Head(s) # e
    <2>1. Len(s) > 1 /\ Len(t) = Len(s) - 1
      BY <1>1, <1>3
    <2>2. t # <<>> /\ t[Len(t)] = e
      <3>1. Len(t) \in 1..Len(t) /\ t[Len(t)] = s[Len(t) + 1]
        BY <2>1, TailFacts
      <3>2. Len(t) + 1 = Len(s)
        BY <1>1
      <3>3. t[Len(t)] = e
        BY <3>1, <3>2
      <3>4. t # <<>>
        <4>1. Len(t) # 0
          BY <1>1, <2>1
        <4>2. Len(<<>>) = 0
          OBVIOUS
        <4> HIDE DEF t
        <4> QED
          BY <4>1, <4>2
      <3> QED
        BY <3>3, <3>4
    <2>3. ASSUME NEW n \in 1..(Len(t) - 1)
          PROVE  t[n] # e
      <3>1. t[n] = s[n + 1] /\ n + 1 \in 1..(Len(s) - 1)
        BY <2>1, <2>3, TailFacts
      <3> QED
        BY <3>1
    <2> QED
      BY <1>3, <2>2, <2>3
  <1> QED
    BY <1>2, <1>3

-----------------------------------------------------------------------------
\* What the server writes when it ends a request is well typed, whatever
\* backend it is aimed at.
LEMMA EndRequestType ==
    ASSUME TypeOK, NEW b, inbox[b] # <<>>,
           NEW o \in {"ok", "error", "struck"}, EndRequest(b, o)
    PROVE  /\ inbox' \in [Backends -> Seq(Calls)]
           /\ reply' \in [Calls -> {"unsent", "sent", "ok", "error"}]
           /\ fate' \in [Calls -> {"none", "applied", "struck"}]
  <1> DEFINE h == Head(inbox[b])
  <1>1. b \in Backends => Tail(inbox[b]) \in Seq(Calls)
    BY DequeueType DEF TypeOK
  <1>2. inbox' \in [Backends -> Seq(Calls)]
    BY <1>1 DEF EndRequest, TypeOK
  <1>3. reply' \in [Calls -> {"unsent", "sent", "ok", "error"}]
    BY DEF EndRequest, TypeOK
  <1>4. fate' \in [Calls -> {"none", "applied", "struck"}]
    BY DEF EndRequest, TypeOK
  <1> QED
    BY <1>2, <1>3, <1>4

\* The initial values are of their types.
LEMMA InitType ==
    ASSUME Init
    PROVE  TypeOK
  <1>1. <<>> \in Seq(Calls)
    OBVIOUS
  <1>2. inbox \in [Backends -> Seq(Calls)] /\ queue \in Seq(Calls)
    BY <1>1 DEF Init
  <1>3. /\ pc \in [Calls -> Registered \cup {"new", "admitted", "reporting", "done"}]
        /\ operations \in [Ids -> Calls \cup {NoCall}]
        /\ signal \in [Calls -> BOOLEAN]
    BY DEF Init
  <1>4. /\ backend \in [Calls -> Backends \cup {NoBackend}]
        /\ helper \in [Calls -> Backends \cup {NoBackend}]
        /\ closed \in BOOLEAN
    BY DEF Init
  <1>5. step \in [Calls -> 0..3]
    BY DEF Init
  <1> QED
    BY <1>2, <1>3, <1>4, <1>5 DEF Init, TypeOK

\* Every step keeps every variable in its type.
LEMMA TypeStep ==
    ASSUME TypeOK, [Next]_vars
    PROVE  TypeOK'
  <1> USE DEF TypeOK, callVars, poolVars, cancelVars, Registered
  <1>1. ASSUME NEW c \in Calls, CallStep(c)
        PROVE  TypeOK'
    <2>1. CASE Admit(c)
      BY <2>1 DEF Admit
    <2>2. CASE RefuseInactive(c)
      BY <2>2 DEF RefuseInactive
    <2>3. CASE Register(c)
      BY <2>3, EnqueueType DEF Register
    <2>4. CASE RefuseDuplicate(c)
      BY <2>4 DEF RefuseDuplicate
    <2>5. CASE EnterUnregistered(c)
      BY <2>5, EnqueueType DEF EnterUnregistered
    <2>6. CASE Acquire(c)
      <3>1. PICK b \in FreeBackends : /\ backend' = [backend EXCEPT ![c] = b]
                                      /\ inbox' = [inbox EXCEPT ![b] = Append(@, c)]
        BY <2>6 DEF Acquire
      <3>2. b \in Backends /\ Append(inbox[b], c) \in Seq(Calls)
        BY EnqueueType DEF FreeBackends
      <3>3. backend' \in [Calls -> Backends \cup {NoBackend}] /\ inbox' \in [Backends -> Seq(Calls)]
        BY <3>1, <3>2
      <3>4. queue' \in Seq(Calls)
        BY <2>6, DequeueType DEF Acquire, FirstInQueue
      <3>5. /\ reply' \in [Calls -> {"unsent", "sent", "ok", "error"}]
            /\ pc' \in [Calls -> Registered \cup {"new", "admitted", "reporting", "done"}]
            /\ step' \in [Calls -> 0..3]
        <4>1. CASE Cancelable(c)
          BY <2>6, <4>1 DEF Acquire
        <4>2. CASE ~Cancelable(c)
          <5>1. step' = [step EXCEPT ![c] = 1] /\ pc' = [pc EXCEPT ![c] = "awaiting"]
            BY <2>6, <4>2 DEF Acquire
          <5>2. step' \in [Calls -> 0..3]
            BY <5>1
          <5> QED
            BY <2>6, <5>1, <5>2 DEF Acquire
        <4> QED
          BY <4>1, <4>2
      <3> QED
        BY <2>6, <3>3, <3>4, <3>5 DEF Acquire
    <2>7. CASE AcquireHelper(c)
      BY <2>7, DequeueType DEF AcquireHelper, FreeBackends, FirstInQueue
    <2>8. CASE AcquireFails(c)
      BY <2>8, DequeueType DEF AcquireFails, Return, FirstInQueue
    <2>9. CASE Identified(c)
      BY <2>9 DEF Identified
    <2>10. CASE FirstPoll(c)
      BY <2>10, EnqueueType DEF FirstPoll, SendFrom
    <2>11. CASE Advance(c)
      <3>1. step[c] + 1 \in 0..3
        <4>1. LastStep(c) \in 1..3
          BY LastStepRange
        <4>2. step[c] < LastStep(c)
          BY <2>11 DEF Advance
        <4>3. step[c] \in 0..3
          OBVIOUS
        <4> HIDE DEF TypeOK
        <4> QED
          BY <4>1, <4>2, <4>3
      <3>2. step' \in [Calls -> 0..3]
        BY <2>11, <3>1 DEF Advance
      <3>3. inbox' \in [Backends -> Seq(Calls)]
        BY <2>11, EnqueueType DEF Advance, SendFrom
      <3> QED
        BY <2>11, <3>2, <3>3 DEF Advance, SendFrom
    <2>12. CASE Succeed(c)
      BY <2>12 DEF Succeed, Return
    <2>13. CASE Fail(c)
      BY <2>13 DEF Fail, Return
    <2>14. CASE CancellationWins(c)
      BY <2>14, EnqueueType DEF CancellationWins
    <2>15. CASE CancelBackend(c)
      <3>1. CASE UNCHANGED <<inbox, reply, fate>>
        BY <2>15, <3>1 DEF CancelBackend
      <3>2. CASE inbox[backend[c]] # <<>> /\ EndRequest(backend[c], "struck")
        BY <2>15, <3>2, EndRequestType DEF CancelBackend
      <3> QED
        BY <2>15, <3>1, <3>2 DEF CancelBackend
    <2>16. CASE CancelBackendFails(c)
      BY <2>16 DEF CancelBackendFails, Return
    <2>17. CASE Finish(c)
      BY <2>17 DEF Finish
    <2>18. CASE Report(c)
      BY <2>18 DEF Report
    <2> QED
      BY <1>1, <2>1, <2>2, <2>3, <2>4, <2>5, <2>6, <2>7, <2>8, <2>9, <2>10,
         <2>11, <2>12, <2>13, <2>14, <2>15, <2>16, <2>17, <2>18 DEF CallStep
  <1>2. ASSUME NEW b \in Backends, ServerEnds(b)
        PROVE  TypeOK'
    <2>1. PICK o \in {"ok", "error"} : EndRequest(b, o)
      BY <1>2 DEF ServerEnds
    <2> QED
      BY <1>2, <2>1, EndRequestType DEF ServerEnds
  <1>3. ASSUME NEW k \in Cancellers, SendSignal(k)
        PROVE  TypeOK'
    BY <1>3 DEF SendSignal
  <1>4. ASSUME NEW k \in Cancellers, NEW i \in Ids, Lookup(k, i)
        PROVE  TypeOK'
    BY <1>4 DEF Lookup
  <1>5. CASE Disconnect
    BY <1>5 DEF Disconnect
  <1>6. CASE Terminated \/ UNCHANGED vars
    BY <1>6 DEF Terminated, vars
  <1>7. ASSUME NEW b \in Backends, ConnectionLost(b)
        PROVE  TypeOK'
    BY <1>7 DEF ConnectionLost
  <1> QED
    BY <1>1, <1>2, <1>3, <1>4, <1>5, <1>6, <1>7 DEF Next

\* Every variable keeps to the values the code can give it.
THEOREM TypeCorrect == Spec => []TypeOK
  BY InitType, TypeStep, PTL DEF Spec

-----------------------------------------------------------------------------
(* The registry and the slots.                                             *)

\* No slot has two clients, be it for an operation or for its cancellation.
SlotsExclusive ==
    \A c, d \in Calls : \A b \in Backends :
        /\ b = backend[c] /\ b = backend[d] => c = d
        /\ b = helper[c] /\ b = helper[d] => c = d
        /\ ~(b = backend[c] /\ b = helper[d])

\* Who holds which backend follows from where each call stands.
HoldersMatchState ==
    \A c \in Calls :
        /\ pc[c] \in Holding <=> backend[c] \in Backends
        /\ pc[c] = "cancelling" <=> helper[c] \in Backends

Absent(c) == \A b \in Backends : \A n \in 1..Len(inbox[b]) : inbox[b][n] # c

\* The PID query is answered after everything an earlier client left on the
\* backend, so from then on the backend runs requests of its holder alone,
\* one at a time.
InboxOrderOf(c) ==
    /\ pc[c] \in {"new", "admitted", "waiting"} => Absent(c)
    /\ pc[c] \in Holding /\ reply[c] = "sent" =>
          LET q == inbox[backend[c]] IN
          /\ q # <<>> /\ q[Len(q)] = c
          /\ \A n \in 1..(Len(q) - 1) : q[n] # c
    /\ pc[c] \in Holding /\ reply[c] # "sent" => inbox[backend[c]] = <<>>
    /\ pc[c] \in {"selecting", "acquiring", "cancelling", "awaiting"} /\ Cancelable(c) =>
          inbox[backend[c]] = IF reply[c] = "sent" THEN <<c>> ELSE <<>>

InboxOrder == \A c \in Calls : InboxOrderOf(c)

\* A cancellation is under way only for a call that was signalled.
CancellationsAreSignalled ==
    \A c \in Calls :
        /\ pc[c] \in {"identifying", "selecting", "acquiring", "cancelling", "finishing"} => Cancelable(c)
        /\ pc[c] \in {"acquiring", "cancelling"} => signal[c]
        /\ fate[c] = "struck" => signal[c]

IInv ==
    /\ TypeOK
    /\ RegistrationMatchesRun
    /\ SlotsExclusive
    /\ HoldersMatchState
    /\ InboxOrder
    /\ CancellationsAreSignalled

\* The registry is unharmed by a step that leaves it alone and moves one call
\* within, or outside, the states that owe it an entry.
LEMMA RegistryStutter ==
    ASSUME TypeOK, RegistrationMatchesRun, NEW c \in Calls, NEW s,
           operations' = operations, pc' = [pc EXCEPT ![c] = s],
           IdOf[c] \in Ids => (pc[c] \in Registered <=> s \in Registered)
    PROVE  RegistrationMatchesRun'
  BY DEF TypeOK, RegistrationMatchesRun

\* Only registering and finishing touch the registry, and both keep it
\* matched with the calls that run.
LEMMA RegistrationStep ==
    ASSUME TypeOK, RegistrationMatchesRun, [Next]_vars
    PROVE  RegistrationMatchesRun'
  <1>1. ASSUME NEW c \in Calls, CallStep(c)
        PROVE  RegistrationMatchesRun'
    <2> USE ConstantsAssumption DEF Registered
    <2>1. CASE Admit(c)
      BY <2>1, RegistryStutter DEF Admit
    <2>2. CASE RefuseInactive(c)
      BY <2>2, RegistryStutter DEF RefuseInactive
    <2>3. CASE Register(c)
      <3>1. /\ IdOf[c] \in Ids /\ pc[c] = "admitted" /\ operations[IdOf[c]] = NoCall
            /\ operations' = [operations EXCEPT ![IdOf[c]] = c]
            /\ pc' = [pc EXCEPT ![c] = "waiting"]
        BY <2>3 DEF Register, Cancelable
      <3>2. ASSUME NEW i \in Ids, NEW d \in Calls
            PROVE  operations'[i] = d <=> IdOf[d] = i /\ pc'[d] \in Registered
        <4>1. operations[i] = d <=> IdOf[d] = i /\ pc[d] \in Registered
          BY DEF RegistrationMatchesRun
        <4>2. CASE i = IdOf[c]
          BY <3>1, <4>1, <4>2 DEF TypeOK
        <4>3. CASE i # IdOf[c]
          BY <3>1, <4>1, <4>3 DEF TypeOK
        <4> QED
          BY <4>2, <4>3
      <3> QED
        BY <3>2 DEF RegistrationMatchesRun
    <2>4. CASE RefuseDuplicate(c)
      BY <2>4, RegistryStutter DEF RefuseDuplicate
    <2>5. CASE EnterUnregistered(c)
      BY <2>5, RegistryStutter DEF EnterUnregistered, Cancelable
    <2>6. CASE Acquire(c)
      <3>1. CASE Cancelable(c)
        BY <2>6, <3>1, RegistryStutter DEF Acquire
      <3>2. CASE ~Cancelable(c)
        BY <2>6, <3>2, RegistryStutter DEF Acquire
      <3> QED
        BY <3>1, <3>2
    <2>7. CASE AcquireHelper(c)
      BY <2>7, RegistryStutter DEF AcquireHelper
    <2>8. ASSUME pc[c] \in {"waiting", "identifying", "selecting", "acquiring", "cancelling", "awaiting"},
                 operations' = operations, NEW v, Return(c, v)
          PROVE  RegistrationMatchesRun'
      <3>1. CASE Cancelable(c)
        BY <2>8, <3>1, RegistryStutter DEF Return
      <3>2. CASE ~Cancelable(c)
        BY <2>8, <3>2, RegistryStutter DEF Return, Cancelable
      <3> QED
        BY <3>1, <3>2
    <2>9. CASE AcquireFails(c)
      BY <2>8, <2>9 DEF AcquireFails
    <2>10. CASE Identified(c)
      BY <2>10, RegistryStutter DEF Identified
    <2>11. CASE FirstPoll(c) \/ Advance(c)
      BY <2>11 DEF FirstPoll, Advance, RegistrationMatchesRun
    <2>12. CASE Succeed(c)
      BY <2>8, <2>12 DEF Succeed
    <2>13. CASE Fail(c)
      BY <2>8, <2>13 DEF Fail, Polled
    <2>14. CASE CancellationWins(c)
      BY <2>14, RegistryStutter DEF CancellationWins
    <2>15. CASE CancelBackend(c)
      BY <2>15, RegistryStutter DEF CancelBackend
    <2>16. CASE CancelBackendFails(c)
      BY <2>8, <2>16 DEF CancelBackendFails
    <2>17. CASE Finish(c)
      <3>1. /\ pc[c] = "finishing"
            /\ operations' = [operations EXCEPT ![IdOf[c]] = NoCall]
            /\ pc'[c] \notin Registered
            /\ \A d \in Calls \ {c} : pc'[d] = pc[d]
        BY <2>17 DEF Finish, TypeOK
      <3>2. ASSUME NEW i \in Ids, NEW d \in Calls
            PROVE  operations'[i] = d <=> IdOf[d] = i /\ pc'[d] \in Registered
        <4>1. /\ operations[i] = d <=> IdOf[d] = i /\ pc[d] \in Registered
              /\ operations[i] = c <=> IdOf[c] = i /\ pc[c] \in Registered
          BY DEF RegistrationMatchesRun
        <4>2. CASE i = IdOf[c]
          BY <3>1, <4>1, <4>2 DEF TypeOK
        <4>3. CASE i # IdOf[c]
          BY <3>1, <4>1, <4>3 DEF TypeOK
        <4> QED
          BY <4>2, <4>3
      <3> QED
        BY <3>2 DEF RegistrationMatchesRun
    <2>18. CASE Report(c)
      BY <2>18, RegistryStutter DEF Report
    <2> QED
      BY <1>1, <2>1, <2>2, <2>3, <2>4, <2>5, <2>6, <2>7, <2>9, <2>10, <2>11,
         <2>12, <2>13, <2>14, <2>15, <2>16, <2>17, <2>18 DEF CallStep
  <1>2. CASE UNCHANGED <<pc, operations>>
    BY <1>2 DEF RegistrationMatchesRun
  <1> QED
    BY <1>1, <1>2 DEF Next, ServerEnds, ConnectionLost, SendSignal, Lookup, Disconnect, Terminated,
                      vars, callVars

-----------------------------------------------------------------------------
\* A slot is taken only while it is free and given back when the call leaves
\* the states that hold it.
LEMMA SlotsStep ==
    ASSUME TypeOK, SlotsExclusive, HoldersMatchState, [Next]_vars
    PROVE  SlotsExclusive' /\ HoldersMatchState'
  <1> USE ConstantsAssumption DEF Holding
  <1>1. ASSUME NEW c \in Calls, CallStep(c)
        PROVE  SlotsExclusive' /\ HoldersMatchState'
    <2>1. ASSUME UNCHANGED <<backend, helper>>, NEW s, pc' = [pc EXCEPT ![c] = s],
                 pc[c] \in Holding <=> s \in Holding,
                 pc[c] # "cancelling", s # "cancelling"
          PROVE  SlotsExclusive' /\ HoldersMatchState'
      BY <2>1 DEF SlotsExclusive, HoldersMatchState, TypeOK
    <2>2. CASE Admit(c) \/ RefuseInactive(c) \/ Register(c) \/ RefuseDuplicate(c)
                 \/ EnterUnregistered(c)
      BY <2>1, <2>2 DEF Admit, RefuseInactive, Register, RefuseDuplicate, EnterUnregistered,
                        poolVars
    <2>3. CASE Acquire(c)
      <3>1. PICK b \in FreeBackends : backend' = [backend EXCEPT ![c] = b]
        BY <2>3 DEF Acquire
      <3>2. /\ b \in Backends /\ backend' = [backend EXCEPT ![c] = b] /\ helper' = helper
            /\ \A d \in Calls : b # backend[d] /\ b # helper[d]
        BY <2>3, <3>1 DEF Acquire, FreeBackends
      <3>3. /\ pc[c] = "waiting"
            /\ pc'[c] \in {"identifying", "awaiting"}
            /\ \A d \in Calls \ {c} : pc'[d] = pc[d]
        <4>1. CASE Cancelable(c)
          BY <2>3, <4>1 DEF Acquire, TypeOK
        <4>2. CASE ~Cancelable(c)
          BY <2>3, <4>2 DEF Acquire, TypeOK
        <4> QED
          BY <4>1, <4>2
      <3>4. SlotsExclusive'
        BY <3>2 DEF SlotsExclusive, TypeOK
      <3>5. HoldersMatchState'
        BY <3>2, <3>3 DEF HoldersMatchState, TypeOK
      <3> QED
        BY <3>4, <3>5
    <2>4. CASE AcquireHelper(c)
      <3>1. PICK b \in FreeBackends : helper' = [helper EXCEPT ![c] = b]
        BY <2>4 DEF AcquireHelper
      <3>2. /\ b \in Backends /\ helper' = [helper EXCEPT ![c] = b] /\ backend' = backend
            /\ \A d \in Calls : b # backend[d] /\ b # helper[d]
        BY <2>4, <3>1 DEF AcquireHelper, FreeBackends
      <3>3. pc[c] = "acquiring" /\ pc' = [pc EXCEPT ![c] = "cancelling"]
        BY <2>4 DEF AcquireHelper
      <3>4. SlotsExclusive'
        BY <3>2 DEF SlotsExclusive, TypeOK
      <3>5. HoldersMatchState'
        BY <3>2, <3>3 DEF HoldersMatchState, TypeOK
      <3> QED
        BY <3>4, <3>5
    <2>5. ASSUME NEW v, Return(c, v)
          PROVE  SlotsExclusive' /\ HoldersMatchState'
      <3>1. /\ backend' = [backend EXCEPT ![c] = NoBackend]
            /\ helper' = [helper EXCEPT ![c] = NoBackend]
        BY <2>5 DEF Return
      <3>2. pc'[c] \in {"finishing", "done"} /\ \A d \in Calls \ {c} : pc'[d] = pc[d]
        BY <2>5 DEF Return, TypeOK
      <3>3. SlotsExclusive'
        BY <3>1 DEF SlotsExclusive, TypeOK
      <3>4. HoldersMatchState'
        BY <3>1, <3>2 DEF HoldersMatchState, TypeOK
      <3> QED
        BY <3>3, <3>4
    <2>6. CASE AcquireFails(c) \/ Succeed(c) \/ Fail(c) \/ CancelBackendFails(c)
      BY <2>5, <2>6 DEF AcquireFails, Succeed, Fail, CancelBackendFails
    <2>7. CASE Identified(c) \/ CancellationWins(c)
      BY <2>1, <2>7 DEF Identified, CancellationWins, poolVars
    <2>8. CASE FirstPoll(c) \/ Advance(c)
      BY <2>8 DEF FirstPoll, Advance, poolVars, SlotsExclusive, HoldersMatchState
    <2>9. CASE CancelBackend(c)
      <3>1. /\ pc[c] = "cancelling" /\ pc' = [pc EXCEPT ![c] = "awaiting"]
            /\ helper' = [helper EXCEPT ![c] = NoBackend] /\ backend' = backend
        BY <2>9 DEF CancelBackend
      <3>2. SlotsExclusive'
        BY <3>1 DEF SlotsExclusive, TypeOK
      <3>3. HoldersMatchState'
        BY <3>1 DEF HoldersMatchState, TypeOK
      <3> QED
        BY <3>2, <3>3
    <2>10. CASE Finish(c) \/ Report(c)
      <3>1. UNCHANGED <<backend, helper>> /\ pc[c] \in {"finishing", "reporting"}
        BY <2>10 DEF Finish, Report, poolVars
      <3>2. \E s \in {"reporting", "done"} : pc' = [pc EXCEPT ![c] = s]
        BY <2>10 DEF Finish, Report
      <3> QED
        BY <2>1, <3>1, <3>2
    <2> QED
      BY <1>1, <2>2, <2>3, <2>4, <2>6, <2>7, <2>8, <2>9, <2>10 DEF CallStep
  <1>2. CASE UNCHANGED <<pc, backend, helper>>
    BY <1>2 DEF SlotsExclusive, HoldersMatchState
  <1> QED
    BY <1>1, <1>2 DEF Next, ServerEnds, ConnectionLost, SendSignal, Lookup, Disconnect, Terminated,
                      vars, callVars, poolVars

-----------------------------------------------------------------------------
\* A backend that ends its oldest request leaves the order of the rest.
LEMMA EndRequestOrder ==
    ASSUME TypeOK, SlotsExclusive, InboxOrder,
           NEW b \in Backends, inbox[b] # <<>>,
           NEW o \in {"ok", "error", "struck"}, EndRequest(b, o), backend' = backend,
           \A d \in Calls : pc'[d] = pc[d] \/ (pc[d] = "cancelling" /\ pc'[d] = "awaiting")
    PROVE  InboxOrder'
  <1> DEFINE h == Head(inbox[b])
  <1>1. inbox[b] \in Seq(Calls) /\ h \in Calls
    BY DEF TypeOK
  <1>2. /\ inbox'[b] = Tail(inbox[b])
        /\ \A e \in Backends \ {b} : inbox'[e] = inbox[e]
    BY DEF EndRequest, TypeOK
  <1>3. /\ backend[h] = b => reply'[h] \in {"ok", "error"}
        /\ \A d \in Calls : d # h \/ backend[d] # b => reply'[d] = reply[d]
    BY <1>1 DEF EndRequest, TypeOK
  <1>4. ASSUME NEW d \in Calls, pc'[d] \in {"new", "admitted", "waiting"}
        PROVE  Absent(d)'
    <2>1. Absent(d)
      BY <1>4 DEF InboxOrder, InboxOrderOf
    <2>2. ASSUME NEW e \in Backends, NEW n \in 1..Len(inbox'[e])
          PROVE  inbox'[e][n] # d
      <3>1. CASE e = b
        <4>1. n \in 1..Len(Tail(inbox[b])) /\ inbox'[e][n] = Tail(inbox[b])[n]
          BY <1>2, <2>2, <3>1
        <4>2. n + 1 \in 1..Len(inbox[b]) /\ inbox'[e][n] = inbox[b][n + 1]
          BY <1>1, <4>1, TailFacts
        <4> QED
          BY <4>2, <2>1 DEF Absent
      <3>2. CASE e # b
        BY <1>2, <2>1, <2>2, <3>2 DEF Absent
      <3> QED
        BY <3>1, <3>2
    <2> QED
      BY <2>2 DEF Absent
  <1>5. ASSUME NEW d \in Calls, pc'[d] \in Holding
        PROVE  /\ reply'[d] = "sent" =>
                     LET q == inbox'[backend[d]] IN
                     /\ q # <<>> /\ q[Len(q)] = d
                     /\ \A n \in 1..(Len(q) - 1) : q[n] # d
               /\ reply'[d] # "sent" => inbox'[backend[d]] = <<>>
    <2>1. pc[d] \in Holding
      BY <1>5 DEF Holding
    <2>2. CASE backend[d] # b
      <3>1. inbox'[backend[d]] = inbox[backend[d]]
        BY <2>2, ConstantsAssumption DEF EndRequest, TypeOK
      <3>2. reply'[d] = reply[d]
        BY <1>3, <2>2
      <3> DEFINE r == inbox[backend[d]]
      <3>3. /\ reply[d] = "sent" => r # <<>> /\ r[Len(r)] = d /\ \A n \in 1..(Len(r) - 1) : r[n] # d
            /\ reply[d] # "sent" => r = <<>>
        BY <2>1 DEF InboxOrder, InboxOrderOf
      <3> HIDE DEF r
      <3>4. inbox'[backend[d]] = r
        BY <3>1 DEF r
      <3> QED
        BY <3>2, <3>3, <3>4
    <2>3. CASE backend[d] = b
      <3> DEFINE q == inbox[b]
                 t == Tail(q)
      <3>1. /\ reply[d] = "sent" => q[Len(q)] = d /\ \A n \in 1..(Len(q) - 1) : q[n] # d
            /\ reply[d] = "sent"
        BY <2>1, <2>3 DEF InboxOrder, InboxOrderOf
      <3>2. inbox'[backend[d]] = t
        BY <1>2, <2>3
      <3>3. /\ h = d => t = <<>>
            /\ h # d => t # <<>> /\ t[Len(t)] = d /\ \A n \in 1..(Len(t) - 1) : t[n] # d
        BY <1>1, <3>1, DropHead
      <3>4. CASE h = d
        BY <1>3, <2>3, <3>2, <3>3, <3>4
      <3>5. CASE h # d
        <4>1. reply'[d] = "sent"
          BY <1>3, <3>1, <3>5
        <4> HIDE DEF t, q
        <4> QED
          BY <3>2, <3>3, <3>5, <4>1
      <3> QED
        BY <3>4, <3>5
    <2> QED
      BY <2>2, <2>3
  <1>6. ASSUME NEW d \in Calls, Cancelable(d),
               pc'[d] \in {"selecting", "acquiring", "cancelling", "awaiting"}
        PROVE  inbox'[backend[d]] = IF reply'[d] = "sent" THEN <<d>> ELSE <<>>
    <2>1. inbox[backend[d]] = IF reply[d] = "sent" THEN <<d>> ELSE <<>>
      BY <1>6 DEF InboxOrder, InboxOrderOf
    <2>2. CASE backend[d] # b
      <3>1. inbox'[backend[d]] = inbox[backend[d]]
        BY <2>2, ConstantsAssumption DEF EndRequest, TypeOK
      <3> QED
        BY <1>3, <2>1, <2>2, <3>1
    <2>3. CASE backend[d] = b
      <3>1. reply[d] = "sent" /\ inbox[b] = <<d>>
        BY <2>1, <2>3
      <3>2. h = d /\ Tail(inbox[b]) = <<>>
        BY <3>1
      <3> QED
        BY <1>2, <1>3, <2>3, <3>2
    <2> QED
      BY <2>2, <2>3
  <1>7. ASSUME NEW d \in Calls
        PROVE  /\ pc'[d] \in {"new", "admitted", "waiting"} => Absent(d)'
               /\ pc'[d] \in Holding /\ reply'[d] = "sent" =>
                     LET q == inbox'[backend'[d]] IN
                     /\ q # <<>> /\ q[Len(q)] = d
                     /\ \A n \in 1..(Len(q) - 1) : q[n] # d
               /\ pc'[d] \in Holding /\ reply'[d] # "sent" => inbox'[backend'[d]] = <<>>
               /\ pc'[d] \in {"selecting", "acquiring", "cancelling", "awaiting"} /\ Cancelable(d) =>
                     inbox'[backend'[d]] = IF reply'[d] = "sent" THEN <<d>> ELSE <<>>
    BY <1>4, <1>5, <1>6
  <1> QED
    BY <1>7 DEF InboxOrder, InboxOrderOf, Cancelable

\* A request that joins the backend its sender alone holds keeps the order.
LEMMA SendOrder ==
    ASSUME TypeOK, SlotsExclusive, InboxOrder, NEW c \in Calls,
           pc[c] \in {"selecting", "awaiting"}, reply[c] # "sent",
           pc' = pc, backend' = backend, SendFrom(c),
           backend[c] \in Backends
    PROVE  InboxOrder'
  <1>1. /\ inbox'[backend[c]] = Append(inbox[backend[c]], c)
        /\ \A e \in Backends \ {backend[c]} : inbox'[e] = inbox[e]
        /\ reply'[c] = "sent" /\ \A d \in Calls \ {c} : reply'[d] = reply[d]
    BY DEF SendFrom, TypeOK
  <1>2. ASSUME NEW d \in Calls, pc'[d] \in {"new", "admitted", "waiting"}
        PROVE  Absent(d)'
    <2>1. Absent(d) /\ d # c
      BY <1>2 DEF InboxOrder, InboxOrderOf
    <2>2. ASSUME NEW e \in Backends, NEW n \in 1..Len(inbox'[e])
          PROVE  inbox'[e][n] # d
      <3>1. inbox[e] \in Seq(Calls)
        BY DEF TypeOK
      <3>2. CASE e = backend[c]
        <4>1. inbox'[e] = Append(inbox[e], c)
          BY <1>1, <3>2
        <4>2. CASE n \in 1..Len(inbox[e])
          BY <2>1, <3>1, <4>1, <4>2 DEF Absent
        <4>3. CASE n = Len(inbox[e]) + 1
          BY <2>1, <3>1, <4>1, <4>3
        <4> QED
          BY <2>2, <3>1, <4>1, <4>2, <4>3
      <3>3. CASE e # backend[c]
        BY <1>1, <2>1, <2>2, <3>3 DEF Absent
      <3> QED
        BY <3>2, <3>3
    <2> QED
      BY <2>2 DEF Absent
  <1>3. ASSUME NEW d \in Calls \ {c}
        PROVE  inbox'[backend[d]] = inbox[backend[d]] /\ reply'[d] = reply[d]
    <2>1. backend[d] # backend[c]
      BY <1>3 DEF SlotsExclusive
    <2>2. inbox' = [inbox EXCEPT ![backend[c]] = Append(@, c)]
      BY DEF SendFrom
    <2> QED
      BY <1>1, <2>1, <2>2 DEF TypeOK
  <1>4. inbox'[backend[c]] = <<c>>
    <2>1. inbox[backend[c]] = <<>>
      BY DEF InboxOrder, InboxOrderOf, Holding
    <2>2. Append(<<>>, c) = <<c>>
      OBVIOUS
    <2> QED
      BY <1>1, <2>1, <2>2
  <1>5. pc'[c] # "identifying" /\ pc'[c] \notin {"new", "admitted", "waiting"}
    OBVIOUS
  <1>6. InboxOrderOf(c)'
    <2>1. PICK q : q = inbox'[backend'[c]] /\ q = <<c>>
      BY <1>4
    <2>2. q # <<>> /\ q[Len(q)] = c /\ \A n \in 1..(Len(q) - 1) : q[n] # c
      BY <2>1
    <2>3. backend'[c] = backend[c] /\ pc'[c] \in {"selecting", "awaiting"}
      OBVIOUS
    <2>4. inbox'[backend'[c]] = q /\ q = <<c>> /\ reply'[c] = "sent"
      BY <1>1, <2>1
    <2> QED
      BY <2>2, <2>3, <2>4, Zenon DEF InboxOrderOf
  <1>7. ASSUME NEW d \in Calls \ {c}
        PROVE  InboxOrderOf(d)'
    BY <1>2, <1>3 DEF InboxOrder, InboxOrderOf, Cancelable
  <1> QED
    BY <1>6, <1>7 DEF InboxOrder

\* The requests on every backend stay in the order the proof relies on.
LEMMA InboxStep ==
    ASSUME TypeOK, SlotsExclusive, HoldersMatchState, InboxOrder, CancellationsAreSignalled,
           [Next]_vars
    PROVE  InboxOrder'
  <1>1. ASSUME NEW c \in Calls, CallStep(c)
        PROVE  InboxOrder'
    \* A step that sends nothing and keeps the clients, and moves c between
    \* states that ask the same of its backend.
    <2>1. ASSUME UNCHANGED <<inbox, backend, reply>>, NEW s, pc' = [pc EXCEPT ![c] = s],
                 \/ s \in {"admitted", "waiting"} /\ pc[c] \in {"new", "admitted"}
                 \/ s \in {"acquiring", "cancelling", "awaiting"}
                    /\ pc[c] \in {"selecting", "acquiring", "cancelling"}
                 \/ s \in {"finishing", "reporting", "done"}
          PROVE  InboxOrder'
      <3>1. InboxOrderOf(c)'
        BY <2>1 DEF InboxOrder, InboxOrderOf, Cancelable, Absent, TypeOK, Holding
      <3>2. ASSUME NEW d \in Calls \ {c}
            PROVE  InboxOrderOf(d)'
        BY <2>1 DEF InboxOrder, InboxOrderOf, Cancelable, Absent, TypeOK
      <3> QED
        BY <3>1, <3>2 DEF InboxOrder
    <2>2. ASSUME NEW v, Return(c, v), UNCHANGED <<inbox, reply>>
          PROVE  InboxOrder'
      <3>1. /\ pc'[c] \in {"finishing", "done"}
            /\ \A d \in Calls \ {c} : pc'[d] = pc[d] /\ backend'[d] = backend[d]
        BY <2>2 DEF Return, TypeOK
      <3>2. InboxOrderOf(c)'
        BY <3>1 DEF InboxOrderOf, Holding
      <3>3. ASSUME NEW d \in Calls \ {c}
            PROVE  InboxOrderOf(d)'
        BY <2>2, <3>1 DEF InboxOrder, InboxOrderOf, Cancelable, Absent
      <3> QED
        BY <3>2, <3>3 DEF InboxOrder
    <2>3. CASE Admit(c) \/ RefuseInactive(c) \/ Register(c) \/ RefuseDuplicate(c)
                 \/ EnterUnregistered(c)
      BY <2>1, <2>3 DEF Admit, RefuseInactive, Register, RefuseDuplicate, EnterUnregistered,
                        poolVars
    <2>4. CASE Acquire(c)
      <3>1. PICK b \in FreeBackends : /\ backend' = [backend EXCEPT ![c] = b]
                                      /\ inbox' = [inbox EXCEPT ![b] = Append(@, c)]
        BY <2>4 DEF Acquire
      <3>2. /\ b \in Backends /\ \A d \in Calls : b # backend[d]
            /\ pc[c] = "waiting" /\ reply' = [reply EXCEPT ![c] = "sent"]
        BY <2>4 DEF Acquire, FreeBackends
      <3>3. /\ Cancelable(c) => pc'[c] = "identifying"
            /\ ~Cancelable(c) => pc'[c] = "awaiting"
            /\ \A d \in Calls \ {c} : pc'[d] = pc[d]
        BY <2>4 DEF Acquire, TypeOK
      <3> DEFINE q == inbox[b]
                 r == Append(q, c)
      <3>4. q \in Seq(Calls) /\ inbox'[b] = r /\ \A e \in Backends \ {b} : inbox'[e] = inbox[e]
        BY <3>1, <3>2 DEF TypeOK
      <3>5. /\ r # <<>> /\ r[Len(r)] = c /\ Len(r) = Len(q) + 1 /\ Len(q) \in Nat
            /\ \A n \in 1..Len(q) : r[n] = q[n]
        BY <3>4
      <3>6. \A n \in 1..Len(q) : q[n] # c
        BY <3>2 DEF InboxOrder, InboxOrderOf, Absent
      <3>7. \A n \in 1..(Len(r) - 1) : r[n] # c
        BY <3>5, <3>6
      <3>8. InboxOrderOf(c)'
        <4>1. backend'[c] = b /\ reply'[c] = "sent"
          BY <3>1, <3>2 DEF TypeOK
        <4>2. inbox'[backend'[c]] = r
          BY <3>4, <4>1
        <4> HIDE DEF r
        <4> QED
          BY <3>3, <3>5, <3>7, <4>1, <4>2 DEF InboxOrderOf, Cancelable
      <3>9. ASSUME NEW d \in Calls \ {c}
            PROVE  InboxOrderOf(d)'
        <4>1. /\ backend'[d] = backend[d] /\ reply'[d] = reply[d] /\ pc'[d] = pc[d]
              /\ inbox'[backend[d]] = inbox[backend[d]]
          BY <3>1, <3>2, <3>3 DEF TypeOK
        <4>2. Absent(d) => Absent(d)'
          <5>1. ASSUME Absent(d), NEW e \in Backends, NEW n \in 1..Len(inbox'[e])
                PROVE  inbox'[e][n] # d
            <6>1. CASE e # b
              BY <3>4, <5>1, <6>1 DEF Absent
            <6>2. CASE e = b
              <7>1. n \in 1..Len(r) /\ inbox'[e][n] = r[n]
                BY <3>4, <5>1, <6>2
              <7>2. n = Len(r) \/ n \in 1..Len(q)
                BY <3>5, <7>1
              <7> QED
                BY <3>2, <3>5, <5>1, <7>1, <7>2 DEF Absent
            <6> QED
              BY <6>1, <6>2
          <5> QED
            BY <5>1 DEF Absent
        <4> QED
          BY <4>1, <4>2 DEF InboxOrder, InboxOrderOf, Cancelable
      <3> QED
        BY <3>8, <3>9 DEF InboxOrder
    <2>5. CASE AcquireHelper(c) \/ CancellationWins(c)
      BY <2>1, <2>5 DEF AcquireHelper, CancellationWins
    <2>6. CASE AcquireFails(c) \/ Succeed(c) \/ Fail(c) \/ CancelBackendFails(c)
      BY <2>2, <2>6 DEF AcquireFails, Succeed, Fail, CancelBackendFails
    <2>7. CASE Identified(c)
      <3>1. /\ pc[c] = "identifying" /\ reply[c] = "ok" /\ UNCHANGED <<inbox, backend>>
            /\ pc' = [pc EXCEPT ![c] = "selecting"]
            /\ reply' = [reply EXCEPT ![c] = "unsent"]
        BY <2>7 DEF Identified, poolVars
      <3>2. inbox[backend[c]] = <<>>
        BY <3>1 DEF InboxOrder, InboxOrderOf, Holding
      <3>3. InboxOrderOf(c)'
        BY <3>1, <3>2 DEF InboxOrderOf, TypeOK
      <3>4. ASSUME NEW d \in Calls \ {c}
            PROVE  InboxOrderOf(d)'
        BY <3>1 DEF InboxOrder, InboxOrderOf, Cancelable, Absent, TypeOK
      <3> QED
        BY <3>3, <3>4 DEF InboxOrder
    <2>8. CASE FirstPoll(c) \/ Advance(c)
      <3>1. /\ pc[c] \in {"selecting", "awaiting"} /\ reply[c] # "sent" /\ SendFrom(c)
            /\ pc' = pc /\ backend' = backend
        BY <2>8 DEF FirstPoll, Advance, poolVars
      <3>2. backend[c] \in Backends
        BY <3>1 DEF HoldersMatchState, Holding
      <3> QED
        BY <3>1, <3>2, SendOrder
    <2>9. CASE CancelBackend(c)
      <3>1. /\ pc[c] = "cancelling" /\ pc' = [pc EXCEPT ![c] = "awaiting"] /\ backend' = backend
            /\ \/ inbox[backend[c]] # <<>> /\ EndRequest(backend[c], "struck")
               \/ UNCHANGED <<inbox, reply, fate>>
        BY <2>9 DEF CancelBackend
      <3>2. CASE UNCHANGED <<inbox, reply, fate>>
        BY <2>1, <3>1, <3>2
      <3>3. CASE inbox[backend[c]] # <<>> /\ EndRequest(backend[c], "struck")
        <4>1. backend[c] \in Backends
          BY <3>1 DEF HoldersMatchState, Holding
        <4>2. \A d \in Calls : pc'[d] = pc[d] \/ (pc[d] = "cancelling" /\ pc'[d] = "awaiting")
          BY <3>1 DEF TypeOK
        <4> QED
          BY <3>1, <3>3, <4>1, <4>2, EndRequestOrder
      <3> QED
        BY <3>1, <3>2, <3>3
    <2>10. CASE Finish(c) \/ Report(c)
      <3>1. /\ UNCHANGED <<inbox, backend, reply>>
            /\ \E s \in {"reporting", "done"} : pc' = [pc EXCEPT ![c] = s]
        BY <2>10 DEF Finish, Report, poolVars
      <3> QED
        BY <2>1, <3>1
    <2> QED
      BY <1>1, <2>3, <2>4, <2>5, <2>6, <2>7, <2>8, <2>9, <2>10 DEF CallStep
  <1>2. ASSUME NEW b \in Backends, ServerEnds(b)
        PROVE  InboxOrder'
    <2>1. PICK o \in {"ok", "error"} : EndRequest(b, o)
      BY <1>2 DEF ServerEnds
    <2>2. inbox[b] # <<>> /\ backend' = backend /\ pc' = pc
      BY <1>2 DEF ServerEnds, poolVars
    <2> QED
      BY <2>1, <2>2, EndRequestOrder
  <1>3. ASSUME NEW b \in Backends, ConnectionLost(b)
        PROVE  InboxOrder'
    <2>1. /\ inbox' = [inbox EXCEPT ![b] = <<>>] /\ pc' = pc /\ backend' = backend
          /\ reply' = [d \in Calls |-> IF backend[d] = b /\ reply[d] = "sent" THEN "error" ELSE reply[d]]
      BY <1>3 DEF ConnectionLost, poolVars
    <2>2. ASSUME NEW c \in Calls
          PROVE  InboxOrderOf(c)'
      <3>1. InboxOrderOf(c)
        BY DEF InboxOrder
      <3>2. Absent(c) => Absent(c)'
        BY <2>1 DEF Absent, TypeOK
      <3>3. CASE backend[c] = b
        BY <2>1, <3>1, <3>2, <3>3 DEF InboxOrderOf, Cancelable, TypeOK
      <3>4. CASE backend[c] # b
        <4>1. inbox'[backend'[c]] = inbox[backend[c]] /\ reply'[c] = reply[c]
          BY <2>1, <3>4 DEF TypeOK
        <4> QED
          BY <2>1, <3>1, <3>2, <4>1 DEF InboxOrderOf, Cancelable
      <3> QED
        BY <3>3, <3>4
    <2> QED
      BY <2>2 DEF InboxOrder
  <1>4. CASE UNCHANGED <<pc, backend, inbox, reply>>
    <2>1. ASSUME NEW c \in Calls
          PROVE  InboxOrderOf(c)'
      BY <1>4 DEF InboxOrder, InboxOrderOf, Cancelable, Absent
    <2> QED
      BY <2>1 DEF InboxOrder
  <1> QED
    BY <1>1, <1>2, <1>3, <1>4 DEF Next, SendSignal, Lookup, Disconnect, Terminated,
                            vars, callVars, poolVars

\* A server that strikes a statement strikes one whose call was signalled.
LEMMA SignalledStep ==
    ASSUME TypeOK, HoldersMatchState, InboxOrder, CancellationsAreSignalled, [Next]_vars
    PROVE  CancellationsAreSignalled'
  <1>1. ASSUME NEW c \in Calls, CallStep(c)
        PROVE  CancellationsAreSignalled'
    \* Away from the server only the state of c can matter.
    <2>1. ASSUME signal' = signal, fate' = fate, NEW s, pc' = [pc EXCEPT ![c] = s],
                 s \in {"identifying", "selecting", "acquiring", "cancelling", "finishing"}
                     => Cancelable(c),
                 s \in {"acquiring", "cancelling"} => signal[c]
          PROVE  CancellationsAreSignalled'
      BY <2>1 DEF CancellationsAreSignalled, Cancelable, TypeOK
    <2>2. ASSUME signal' = signal, fate' = fate, NEW v, Return(c, v)
          PROVE  CancellationsAreSignalled'
      <3>1. CASE Cancelable(c)
        BY <2>1, <2>2, <3>1 DEF Return
      <3>2. CASE ~Cancelable(c)
        BY <2>1, <2>2, <3>2 DEF Return
      <3> QED
        BY <3>1, <3>2
    <2>3. CASE Admit(c) \/ RefuseInactive(c) \/ Register(c) \/ RefuseDuplicate(c)
                 \/ EnterUnregistered(c) \/ Report(c)
      BY <2>1, <2>3 DEF Admit, RefuseInactive, Register, RefuseDuplicate, EnterUnregistered, Report
    <2>4. CASE Acquire(c)
      <3>1. CASE Cancelable(c)
        BY <2>1, <2>4, <3>1 DEF Acquire
      <3>2. CASE ~Cancelable(c)
        BY <2>1, <2>4, <3>2 DEF Acquire
      <3> QED
        BY <3>1, <3>2
    <2>5. CASE AcquireHelper(c)
      BY <2>1, <2>5 DEF AcquireHelper, CancellationsAreSignalled
    <2>6. CASE AcquireFails(c) \/ Succeed(c) \/ Fail(c) \/ CancelBackendFails(c)
      BY <2>2, <2>6 DEF AcquireFails, Succeed, Fail, CancelBackendFails
    <2>7. CASE Identified(c)
      BY <2>1, <2>7 DEF Identified, CancellationsAreSignalled
    <2>8. CASE FirstPoll(c) \/ Advance(c)
      BY <2>8 DEF FirstPoll, Advance, CancellationsAreSignalled, Cancelable
    <2>9. CASE CancellationWins(c)
      BY <2>1, <2>9 DEF CancellationWins, CancellationsAreSignalled
    <2>10. CASE CancelBackend(c)
      <3>1. /\ pc[c] = "cancelling" /\ pc' = [pc EXCEPT ![c] = "awaiting"] /\ signal' = signal
            /\ \/ inbox[backend[c]] # <<>> /\ EndRequest(backend[c], "struck")
               \/ UNCHANGED <<inbox, reply, fate>>
        BY <2>10 DEF CancelBackend
      <3>2. Cancelable(c) /\ signal[c]
        BY <3>1 DEF CancellationsAreSignalled
      <3>3. CASE UNCHANGED <<inbox, reply, fate>>
        BY <2>1, <3>1, <3>3
      <3>4. CASE inbox[backend[c]] # <<>> /\ EndRequest(backend[c], "struck")
        <4>1. inbox[backend[c]] = <<c>>
          BY <3>1, <3>2, <3>4 DEF InboxOrder, InboxOrderOf
        <4>2. Head(inbox[backend[c]]) = c
          BY <4>1
        <4>3. fate' = [fate EXCEPT ![c] = "struck"]
          BY <3>4, <4>2 DEF EndRequest
        <4> QED
          BY <3>1, <3>2, <4>3 DEF CancellationsAreSignalled, Cancelable, TypeOK
      <3> QED
        BY <3>1, <3>3, <3>4
    <2>11. CASE Finish(c)
      BY <2>1, <2>11 DEF Finish, CancellationsAreSignalled
    <2> QED
      BY <1>1, <2>3, <2>4, <2>5, <2>6, <2>7, <2>8, <2>9, <2>10, <2>11 DEF CallStep
  <1>2. ASSUME NEW b \in Backends, ServerEnds(b)
        PROVE  CancellationsAreSignalled'
    <2>1. PICK o \in {"ok", "error"} : EndRequest(b, o)
      BY <1>2 DEF ServerEnds
    <2>2. pc' = pc /\ signal' = signal
      BY <1>2 DEF ServerEnds
    <2>3. \A d \in Calls : fate'[d] = "struck" => fate[d] = "struck"
      BY <2>1 DEF EndRequest, TypeOK
    <2> QED
      BY <2>2, <2>3 DEF CancellationsAreSignalled, Cancelable
  <1>3. ASSUME NEW k \in Cancellers, SendSignal(k)
        PROVE  CancellationsAreSignalled'
    <2>1. pc' = pc /\ fate' = fate /\ \A d \in Calls : signal[d] => signal'[d]
      BY <1>3 DEF SendSignal, callVars, TypeOK
    <2> QED
      BY <2>1 DEF CancellationsAreSignalled, Cancelable
  <1>4. CASE UNCHANGED <<pc, signal, fate>>
    BY <1>4 DEF CancellationsAreSignalled, Cancelable
  <1>5. ASSUME NEW b \in Backends, ConnectionLost(b)
        PROVE  CancellationsAreSignalled'
    <2>1. pc' = pc /\ signal' = signal /\ \A d \in Calls : fate'[d] = "struck" => fate[d] = "struck"
      BY <1>5 DEF ConnectionLost, TypeOK
    <2> QED
      BY <2>1 DEF CancellationsAreSignalled, Cancelable
  <1> QED
    BY <1>1, <1>2, <1>3, <1>4, <1>5 DEF Next, Lookup, Disconnect, Terminated, vars, callVars

-----------------------------------------------------------------------------
\* The inductive invariant: every conjunct is needed for another.
LEMMA InvariantHolds == Spec => []IInv
  <1>1. Init => IInv
    <2> SUFFICES ASSUME Init
                 PROVE  RegistrationMatchesRun /\ SlotsExclusive /\ HoldersMatchState
                        /\ InboxOrder /\ CancellationsAreSignalled
      BY InitType DEF IInv
    <2>1. RegistrationMatchesRun
      BY ConstantsAssumption DEF Init, RegistrationMatchesRun, Registered
    <2>2. SlotsExclusive /\ HoldersMatchState
      BY ConstantsAssumption DEF Init, SlotsExclusive, HoldersMatchState, Holding
    <2>3. InboxOrder
      BY DEF Init, InboxOrder, InboxOrderOf, Absent, Holding
    <2>4. CancellationsAreSignalled
      BY DEF Init, CancellationsAreSignalled
    <2> QED
      BY <2>1, <2>2, <2>3, <2>4
  <1>2. IInv /\ [Next]_vars => IInv'
    BY TypeStep, RegistrationStep, SlotsStep, InboxStep, SignalledStep DEF IInv
  <1> QED
    BY <1>1, <1>2, PTL DEF Spec

\* For any number of calls, ids and cancellers, an id is registered exactly
\* while its call runs.
THEOREM RegistrationCorrect == Spec => []RegistrationMatchesRun
  BY InvariantHolds, PTL DEF IInv

\* For any pool size and any connections that break, no client waits for an answer
\* that cannot come.
THEOREM AnswersArrive == Spec => []AnswersComeBack
  <1>1. InboxOrder => AnswersComeBack
    BY DEF InboxOrder, InboxOrderOf, AnswersComeBack
  <1> QED
    BY <1>1, InvariantHolds, PTL DEF IInv

\* For any interleaving and any failure of the cancellation itself, a
\* pg_cancel_backend meets nothing but the statement it was meant for.
THEOREM CancellationCorrect == Spec => []CancelHitsOwnStatement
  <1>1. IInv => CancelHitsOwnStatement
    <2> SUFFICES ASSUME IInv PROVE CancelHitsOwnStatement
      OBVIOUS
    <2>1. ASSUME NEW c \in Calls, pc[c] = "cancelling", NEW n \in 1..Len(inbox[backend[c]])
          PROVE  inbox[backend[c]][n] = c
      <3>1. inbox[backend[c]] = <<c>> \/ inbox[backend[c]] = <<>>
        BY <2>1 DEF IInv, InboxOrder, InboxOrderOf, CancellationsAreSignalled
      <3> QED
        BY <2>1, <3>1
    <2>2. \A c \in Calls : fate[c] = "struck" => signal[c]
      BY DEF IInv, CancellationsAreSignalled
    <2> QED
      BY <2>1, <2>2 DEF CancelHitsOwnStatement
  <1> QED
    BY <1>1, InvariantHolds, PTL
-----------------------------------------------------------------------------
(* What the user is told.                                                  *)

\* How a call's round trips, the fate of its statement and its verdict hang
\* together.  A refused call stays at round trip 0, before which nothing can
\* be applied or struck, and an answer to the last round trip is known to the
\* call only after the server made up its mind.
VerdictOf(c) ==
    /\ pc[c] \in {"new", "admitted", "waiting", "identifying"} => step[c] = 0
    /\ pc[c] \in {"selecting", "acquiring", "cancelling", "awaiting"} =>
          /\ step[c] >= 1
          /\ reply[c] = "ok" /\ step[c] = LastStep(c) => fate[c] = "applied"
    /\ fate[c] = "applied" => step[c] = LastStep(c)
    /\ fate[c] = "struck" => step[c] >= 1
    /\ verdict[c] # "none" => pc[c] \in {"finishing", "reporting", "done"}
    /\ verdict[c] = "ok" => fate[c] = "applied"
    /\ verdict[c] = "refused" => step[c] = 0

VerdictsMatchFate == \A c \in Calls : VerdictOf(c)

\* A step that leaves a call alone leaves its verdict true.
LEMMA VerdictFrame ==
    ASSUME NEW d \in Calls, VerdictOf(d), pc'[d] = pc[d], step'[d] = step[d],
           reply'[d] = reply[d], fate'[d] = fate[d], verdict'[d] = verdict[d]
    PROVE  VerdictOf(d)'
  BY DEF VerdictOf, LastStep

\* The server answers the oldest request of a backend: its call, whoever holds
\* the backend now, is the only one to be told and the only one whose
\* statement meets its fate.
LEMMA VerdictAnswered ==
    ASSUME TypeOK, VerdictsMatchFate, NEW b \in Backends, inbox[b] # <<>>,
           NEW o \in {"ok", "error"}, EndRequest(b, o),
           pc' = pc, step' = step, verdict' = verdict
    PROVE  VerdictsMatchFate'
  <1> DEFINE h == Head(inbox[b])
  <1>1. h \in Calls
    BY DequeueType DEF TypeOK
  <1>2. ASSUME NEW d \in Calls
        PROVE  VerdictOf(d)'
    <2>1. VerdictOf(d)
      BY DEF VerdictsMatchFate
    <2>2. CASE d # h
      BY <2>1, <2>2, VerdictFrame DEF EndRequest, TypeOK
    <2>3. CASE d = h
      <3>1. fate'[d] = IF o = "ok" /\ step[d] = LastStep(d) THEN "applied" ELSE fate[d]
        BY <2>3 DEF EndRequest, TypeOK
      <3>2. reply'[d] = "ok" => reply[d] = "ok" \/ o = "ok"
        BY <2>3 DEF EndRequest, TypeOK
      <3>3. LastStep(d) \in 1..3 /\ LastStep(d)' = LastStep(d)
        BY LastStepRange DEF LastStep
      <3> QED
        BY <2>1, <3>1, <3>2, <3>3 DEF VerdictOf
    <2> QED
      BY <2>2, <2>3
  <1> QED
    BY <1>2 DEF VerdictsMatchFate

\* Returning an error says nothing the fate could belie; returning a success
\* needs the statement to be applied.
LEMMA VerdictReturned ==
    ASSUME TypeOK, VerdictsMatchFate, NEW c \in Calls, NEW v \in {"ok", "error"}, Return(c, v),
           v = "ok" => fate[c] = "applied", step' = step, reply' = reply, fate' = fate
    PROVE  VerdictsMatchFate'
  <1>1. ASSUME NEW d \in Calls, d # c
        PROVE  VerdictOf(d)'
    BY <1>1, VerdictFrame DEF VerdictsMatchFate, Return, TypeOK
  <1>2. pc'[c] \in {"finishing", "done"} /\ verdict'[c] = v
    BY DEF Return, TypeOK
  <1>3. VerdictOf(c) /\ LastStep(c)' = LastStep(c)
    BY DEF VerdictsMatchFate, LastStep
  <1>4. VerdictOf(c)'
    BY <1>2, <1>3 DEF VerdictOf
  <1> QED
    BY <1>1, <1>4 DEF VerdictsMatchFate

\* No step makes what a call was told false.
LEMMA VerdictStep ==
    ASSUME IInv, VerdictsMatchFate, [Next]_vars
    PROVE  VerdictsMatchFate'
  <1> USE DEF IInv
  <1>1. ASSUME NEW c \in Calls, CallStep(c)
        PROVE  VerdictsMatchFate'
    <2>0. VerdictOf(c) /\ LastStep(c) \in 1..3 /\ LastStep(c)' = LastStep(c)
      BY LastStepRange DEF VerdictsMatchFate, LastStep
    <2>1. ASSUME NEW s, pc' = [pc EXCEPT ![c] = s],
                 \A d \in Calls \ {c} : /\ step'[d] = step[d] /\ reply'[d] = reply[d]
                                        /\ fate'[d] = fate[d] /\ verdict'[d] = verdict[d],
                 VerdictOf(c)'
          PROVE  VerdictsMatchFate'
      BY <2>1, VerdictFrame DEF VerdictsMatchFate, TypeOK
    <2>2. CASE Admit(c)
      <3>1. VerdictOf(c)'
        BY <2>0, <2>2 DEF Admit, VerdictOf, TypeOK
      <3> QED
        BY <2>1, <2>2, <3>1 DEF Admit
    <2>3. CASE RefuseInactive(c) \/ RefuseDuplicate(c)
      <3>1. VerdictOf(c)'
        BY <2>0, <2>3 DEF RefuseInactive, RefuseDuplicate, VerdictOf, TypeOK
      <3>2. pc' = [pc EXCEPT ![c] = "done"] /\ verdict' = [verdict EXCEPT ![c] = "refused"]
            /\ UNCHANGED <<step, reply, fate>>
        BY <2>3 DEF RefuseInactive, RefuseDuplicate
      <3> QED
        BY <2>1, <3>1, <3>2 DEF TypeOK
    <2>4. CASE Register(c) \/ EnterUnregistered(c)
      <3>1. VerdictOf(c)'
        BY <2>0, <2>4 DEF Register, EnterUnregistered, VerdictOf, TypeOK
      <3> QED
        BY <2>1, <2>4, <3>1 DEF Register, EnterUnregistered
    <2>5. CASE Acquire(c)
      <3>1. /\ pc[c] = "waiting" /\ reply' = [reply EXCEPT ![c] = "sent"]
            /\ fate' = fate /\ verdict' = verdict
            /\ \/ pc' = [pc EXCEPT ![c] = "identifying"] /\ step' = step
               \/ pc' = [pc EXCEPT ![c] = "awaiting"] /\ step' = [step EXCEPT ![c] = 1]
        BY <2>5 DEF Acquire
      <3>2. step[c] = 0 /\ fate[c] = "none" /\ verdict[c] = "none"
        BY <2>0, <3>1 DEF VerdictOf, TypeOK
      <3>3. VerdictOf(c)'
        BY <2>0, <3>1, <3>2 DEF VerdictOf, TypeOK
      <3> QED
        BY <2>1, <3>1, <3>3 DEF TypeOK
    <2>6. CASE AcquireHelper(c) \/ CancellationWins(c)
      <3>1. VerdictOf(c)'
        BY <2>0, <2>6 DEF AcquireHelper, CancellationWins, VerdictOf, TypeOK
      <3> QED
        BY <2>1, <2>6, <3>1 DEF AcquireHelper, CancellationWins
    <2>7. CASE AcquireFails(c) \/ Fail(c) \/ CancelBackendFails(c)
      BY <2>7, VerdictReturned DEF AcquireFails, Fail, CancelBackendFails
    <2>8. CASE Identified(c)
      <3>1. /\ pc' = [pc EXCEPT ![c] = "selecting"] /\ step' = [step EXCEPT ![c] = 1]
            /\ reply' = [reply EXCEPT ![c] = "unsent"] /\ UNCHANGED <<fate, verdict>>
            /\ pc[c] = "identifying"
        BY <2>8 DEF Identified
      <3>2. VerdictOf(c)'
        BY <2>0, <3>1 DEF VerdictOf, TypeOK
      <3> QED
        BY <2>1, <3>1, <3>2 DEF TypeOK
    <2>9. CASE FirstPoll(c)
      <3>1. /\ pc' = [pc EXCEPT ![c] = pc[c]] /\ reply' = [reply EXCEPT ![c] = "sent"]
            /\ UNCHANGED <<step, fate, verdict>>
        BY <2>9 DEF FirstPoll, SendFrom, TypeOK
      <3>2. VerdictOf(c)'
        BY <2>0, <3>1 DEF VerdictOf, TypeOK
      <3> QED
        BY <2>1, <3>1, <3>2 DEF TypeOK
    <2>10. CASE Advance(c)
      <3>1. /\ pc' = [pc EXCEPT ![c] = pc[c]] /\ reply' = [reply EXCEPT ![c] = "sent"]
            /\ step' = [step EXCEPT ![c] = step[c] + 1]
            /\ UNCHANGED <<fate, verdict>>
            /\ pc[c] \in {"selecting", "awaiting"} /\ step[c] < LastStep(c)
        BY <2>10 DEF Advance, SendFrom, TypeOK
      <3>2. fate[c] # "applied" /\ verdict[c] = "none"
        BY <2>0, <3>1 DEF VerdictOf, TypeOK
      <3>3. /\ pc'[c] = pc[c] /\ reply'[c] = "sent" /\ step'[c] = step[c] + 1
            /\ fate'[c] = fate[c] /\ verdict'[c] = verdict[c] /\ step[c] \in 0..3
        BY <3>1 DEF TypeOK
      <3>4. VerdictOf(c)'
        BY <2>0, <3>1, <3>2, <3>3 DEF VerdictOf
      <3> QED
        BY <2>1, <3>1, <3>4 DEF TypeOK
    <2>11. CASE Succeed(c)
      <3>1. fate[c] = "applied"
        BY <2>0, <2>11 DEF Succeed, VerdictOf
      <3> QED
        BY <2>11, <3>1, VerdictReturned DEF Succeed
    <2>12. CASE CancelBackend(c)
      <3>1. /\ pc[c] = "cancelling" /\ pc' = [pc EXCEPT ![c] = "awaiting"]
            /\ step' = step /\ verdict' = verdict
            /\ \/ inbox[backend[c]] # <<>> /\ EndRequest(backend[c], "struck")
               \/ UNCHANGED <<inbox, reply, fate>>
        BY <2>12 DEF CancelBackend
      <3>2. CASE UNCHANGED <<inbox, reply, fate>>
        <4>1. VerdictOf(c)'
          BY <2>0, <3>1, <3>2 DEF VerdictOf, TypeOK
        <4> QED
          BY <2>1, <3>1, <3>2, <4>1
      <3>3. CASE inbox[backend[c]] # <<>> /\ EndRequest(backend[c], "struck")
        <4>1. Head(inbox[backend[c]]) = c
          <5>1. inbox[backend[c]] = <<c>>
            BY <3>1, <3>3 DEF InboxOrder, InboxOrderOf, CancellationsAreSignalled
          <5> QED
            BY <5>1
        <4>2. fate' = [fate EXCEPT ![c] = "struck"] /\ reply' = [reply EXCEPT ![c] = "error"]
          BY <3>3, <4>1 DEF EndRequest
        <4>3. VerdictOf(c)'
          BY <2>0, <3>1, <4>2 DEF VerdictOf, TypeOK
        <4> QED
          BY <2>1, <3>1, <4>2, <4>3 DEF TypeOK
      <3> QED
        BY <3>1, <3>2, <3>3
    <2>13. CASE Finish(c)
      <3>1. /\ pc[c] = "finishing" /\ UNCHANGED <<step, reply, fate, verdict>>
            /\ \E s \in {"reporting", "done"} : pc' = [pc EXCEPT ![c] = s]
        BY <2>13 DEF Finish
      <3>2. VerdictOf(c)'
        BY <2>0, <3>1 DEF VerdictOf, TypeOK
      <3> QED
        BY <2>1, <3>1, <3>2
    <2>14. CASE Report(c)
      <3>1. /\ pc[c] = "reporting" /\ pc' = [pc EXCEPT ![c] = "done"]
            /\ UNCHANGED <<step, reply, fate>>
            /\ \E v \in {verdict[c], "cancelled"} : verdict' = [verdict EXCEPT ![c] = v]
        BY <2>14 DEF Report
      <3>2. VerdictOf(c)'
        BY <2>0, <3>1 DEF VerdictOf, TypeOK
      <3> QED
        BY <2>1, <3>1, <3>2 DEF TypeOK
    <2> QED
      BY <1>1, <2>2, <2>3, <2>4, <2>5, <2>6, <2>7, <2>8, <2>9, <2>10, <2>11, <2>12, <2>13,
         <2>14 DEF CallStep
  <1>2. ASSUME NEW b \in Backends, ServerEnds(b)
        PROVE  VerdictsMatchFate'
    BY <1>2, VerdictAnswered DEF ServerEnds
  <1>3. ASSUME NEW b \in Backends, ConnectionLost(b)
        PROVE  VerdictsMatchFate'
    <2>1. /\ UNCHANGED <<pc, step, verdict>>
          /\ \A d \in Calls : /\ reply'[d] \in {reply[d], "error"}
                              /\ \/ fate'[d] = fate[d]
                                 \/ fate'[d] = "applied" /\ step[d] = LastStep(d)
      BY <1>3 DEF ConnectionLost, TypeOK
    <2>2. ASSUME NEW d \in Calls
          PROVE  VerdictOf(d)'
      <3>1. VerdictOf(d) /\ LastStep(d)' = LastStep(d) /\ LastStep(d) \in 1..3
        BY LastStepRange DEF VerdictsMatchFate, LastStep
      <3> QED
        BY <2>1, <3>1 DEF VerdictOf
    <2> QED
      BY <2>2 DEF VerdictsMatchFate
  <1>4. CASE UNCHANGED <<pc, step, reply, fate, verdict>>
    BY <1>4, VerdictFrame DEF VerdictsMatchFate
  <1> QED
    BY <1>1, <1>2, <1>3, <1>4 DEF Next, SendSignal, Lookup, Disconnect, Terminated, vars, callVars

\* For any calls, failures and cancellations, a success is durable, a refused
\* call never reached the server, and an error before the last round trip
\* left nothing behind.
THEOREM VerdictCorrect == Spec => []TruthfulVerdict
  <1>1. Init => VerdictsMatchFate
    BY DEF Init, VerdictsMatchFate, VerdictOf
  <1>2. TypeOK /\ VerdictsMatchFate => TruthfulVerdict
    <2> SUFFICES ASSUME TypeOK, VerdictsMatchFate, NEW c \in Calls
                 PROVE  /\ verdict[c] = "ok" => fate[c] = "applied"
                        /\ verdict[c] = "refused" => fate[c] = "none"
                        /\ verdict[c] = "error" /\ step[c] < LastStep(c) => fate[c] # "applied"
      BY DEF TruthfulVerdict
    <2>1. VerdictOf(c) /\ LastStep(c) \in 1..3 /\ fate[c] \in {"none", "applied", "struck"}
      BY LastStepRange DEF VerdictsMatchFate, TypeOK
    <2> QED
      BY <2>1 DEF VerdictOf
  <1>3. IInv => TypeOK
    BY DEF IInv
  <1> QED
    BY <1>1, <1>2, <1>3, VerdictStep, InvariantHolds, PTL DEF Spec
-----------------------------------------------------------------------------
(* The registry implements OperationLifecycle.                             *)

\* A canceller signals only what it found under an operation id.
TargetsWereRegistered ==
    \A k \in Cancellers : cpc[k] = "sending" => target[k] \in Calls /\ IdOf[target[k]] # NoId

\* The registry names calls that have its id.
LEMMA TargetsStep ==
    ASSUME TypeOK, RegistrationMatchesRun, TargetsWereRegistered, [Next]_vars
    PROVE  TargetsWereRegistered'
  <1>1. CASE UNCHANGED cancelVars
    BY <1>1 DEF TargetsWereRegistered, cancelVars
  <1>2. ASSUME NEW k \in Cancellers, SendSignal(k)
        PROVE  TargetsWereRegistered'
    BY <1>2 DEF SendSignal, TargetsWereRegistered, TypeOK
  <1>3. ASSUME NEW k \in Cancellers, NEW i \in Ids, Lookup(k, i)
        PROVE  TargetsWereRegistered'
    <2>1. operations[i] # NoCall => operations[i] \in Calls /\ IdOf[operations[i]] = i
      BY DEF RegistrationMatchesRun, TypeOK
    <2> QED
      BY <1>3, <2>1, ConstantsAssumption DEF Lookup, TargetsWereRegistered, TypeOK
  <1>4. ASSUME NEW c \in Calls, CallStep(c)
        PROVE  UNCHANGED cancelVars
    BY <1>4 DEF CallStep, Admit, RefuseInactive, Register, RefuseDuplicate, EnterUnregistered,
                Acquire, AcquireHelper, AcquireFails, Identified, FirstPoll, Advance, Succeed,
                Fail, CancellationWins, CancelBackend, CancelBackendFails, Finish, Report
  <1> QED
    BY <1>1, <1>2, <1>3, <1>4 DEF Next, ServerEnds, ConnectionLost, Disconnect, Terminated, vars

\* A call that moves changes its own status and no other.
LEMMA StatusMoves ==
    ASSUME TypeOK, NEW c \in Calls, NEW s, pc' = [pc EXCEPT ![c] = s]
    PROVE  statusOfCalls' = [statusOfCalls EXCEPT ![c] = StatusOf(s)]
  BY DEF statusOfCalls, TypeOK

\* A move the frontend cannot see is a stutter.
LEMMA HiddenMove ==
    ASSUME TypeOK, NEW c \in Calls, NEW s, pc' = [pc EXCEPT ![c] = s],
           StatusOf(s) = StatusOf(pc[c]), signal' = signal
    PROVE  UNCHANGED Lifecycle!vars
  <1>1. statusOfCalls' = [statusOfCalls EXCEPT ![c] = statusOfCalls[c]]
    BY StatusMoves DEF statusOfCalls
  <1>2. statusOfCalls' = statusOfCalls
    BY <1>1 DEF statusOfCalls
  <1> QED
    BY <1>2 DEF signalledCalls, Lifecycle!vars

\* Leaving for good ends the operation, leaving for finish_operation is hidden.
LEMMA ReturnRefines ==
    ASSUME TypeOK, NEW c \in Calls, NEW v, Return(c, v), pc[c] \in Registered, signal' = signal
    PROVE  [Lifecycle!Next]_(Lifecycle!vars)
  <1>1. CASE Cancelable(c)
    <2>1. pc' = [pc EXCEPT ![c] = "finishing"] /\ StatusOf("finishing") = StatusOf(pc[c])
      BY <1>1 DEF Return, StatusOf, Registered
    <2> QED
      BY <2>1, HiddenMove
  <1>2. CASE ~Cancelable(c)
    <2>1. statusOfCalls' = [statusOfCalls EXCEPT ![c] = "done"]
      BY <1>2, StatusMoves DEF Return, StatusOf, Registered
    <2>2. statusOfCalls[c] = "running" /\ signalledCalls' = signalledCalls
      BY DEF statusOfCalls, signalledCalls, StatusOf, Registered
    <2> QED
      BY <2>1, <2>2 DEF Lifecycle!Next, Lifecycle!End
  <1> QED
    BY <1>1, <1>2

\* Every step of a call is a step of its operation or hidden.
LEMMA CallRefines ==
    ASSUME TypeOK, RegistrationMatchesRun, NEW c \in Calls, CallStep(c)
    PROVE  [Lifecycle!Next]_(Lifecycle!vars)
  <1>1. CASE Register(c) \/ EnterUnregistered(c)
    <2>1. statusOfCalls' = [statusOfCalls EXCEPT ![c] = "running"]
      BY <1>1, StatusMoves DEF Register, EnterUnregistered, StatusOf, Registered
    <2>2. statusOfCalls[c] = "new" /\ signalledCalls' = signalledCalls
      BY <1>1 DEF Register, EnterUnregistered, statusOfCalls, signalledCalls, StatusOf, Registered
    <2>3. IdOf[c] = NoId \/ Lifecycle!Running(IdOf[c]) = {}
      <3>1. CASE Register(c)
        <4>1. IdOf[c] \in Ids /\ operations[IdOf[c]] = NoCall
          BY <3>1, ConstantsAssumption DEF Register, Cancelable
        <4>2. \A d \in Calls : IdOf[d] = IdOf[c] => pc[d] \notin Registered
          BY <4>1, ConstantsAssumption DEF RegistrationMatchesRun
        <4>3. \A d \in Calls : statusOfCalls[d] = "running" => pc[d] \in Registered
          BY DEF statusOfCalls, StatusOf, TypeOK
        <4> QED
          BY <4>2, <4>3 DEF Lifecycle!Running
      <3> QED
        BY <1>1, <3>1 DEF EnterUnregistered, Cancelable
    <2> QED
      BY <2>1, <2>2, <2>3 DEF Lifecycle!Next, Lifecycle!Start
  <1>2. CASE RefuseInactive(c) \/ RefuseDuplicate(c)
    <2>1. statusOfCalls' = [statusOfCalls EXCEPT ![c] = "done"]
      BY <1>2, StatusMoves DEF RefuseInactive, RefuseDuplicate, StatusOf, Registered
    <2>2. statusOfCalls[c] = "new" /\ signalledCalls' = signalledCalls
      BY <1>2 DEF RefuseInactive, RefuseDuplicate, statusOfCalls, signalledCalls, StatusOf,
                  Registered
    <2> QED
      BY <2>1, <2>2 DEF Lifecycle!Next, Lifecycle!Refuse
  <1>3. CASE Finish(c) \/ Report(c)
    <2>1. \E s \in {"closing", "done"} : statusOfCalls' = [statusOfCalls EXCEPT ![c] = s]
      BY <1>3, StatusMoves DEF Finish, Report, StatusOf, Registered
    <2>2. Report(c) => statusOfCalls' = [statusOfCalls EXCEPT ![c] = "done"]
      BY StatusMoves DEF Report, StatusOf, Registered
    <2>3. /\ statusOfCalls[c] = IF pc[c] = "finishing" THEN "running" ELSE "closing"
          /\ Finish(c) => pc[c] = "finishing"
          /\ signalledCalls' = signalledCalls
      BY <1>3 DEF Finish, Report, statusOfCalls, signalledCalls, StatusOf, Registered
    <2> QED
      BY <1>3, <2>1, <2>2, <2>3 DEF Lifecycle!Next, Lifecycle!End
  <1>4. CASE AcquireFails(c) \/ Succeed(c) \/ Fail(c) \/ CancelBackendFails(c)
    <2>1. signal' = signal /\ pc[c] \in Registered
      BY <1>4 DEF AcquireFails, Succeed, Fail, CancelBackendFails, Polled, Registered
    <2>2. \E v \in {"ok", "error"} : Return(c, v)
      BY <1>4 DEF AcquireFails, Succeed, Fail, CancelBackendFails
    <2> QED
      BY <2>1, <2>2, ReturnRefines
  <1>5. CASE \/ Admit(c) \/ Acquire(c) \/ AcquireHelper(c) \/ Identified(c)
             \/ CancellationWins(c) \/ CancelBackend(c)
    <2>1. \/ pc[c] = "new" /\ pc' = [pc EXCEPT ![c] = "admitted"]
          \/ /\ pc[c] \in Registered
             /\ \E s \in Registered : pc' = [pc EXCEPT ![c] = s]
      BY <1>5 DEF Admit, Acquire, AcquireHelper, Identified, CancellationWins, CancelBackend,
                  Registered
    <2>2. /\ StatusOf("admitted") = StatusOf("new")
          /\ \A s, t \in Registered : StatusOf(s) = StatusOf(t)
      BY DEF StatusOf, Registered
    <2>3. signal' = signal
      BY <1>5 DEF Admit, Acquire, AcquireHelper, Identified, CancellationWins, CancelBackend
    <2> QED
      BY <2>1, <2>2, <2>3, HiddenMove
  <1>6. CASE FirstPoll(c) \/ Advance(c)
    BY <1>6 DEF FirstPoll, Advance, statusOfCalls, signalledCalls, Lifecycle!vars
  <1> QED
    BY <1>1, <1>2, <1>3, <1>4, <1>5, <1>6 DEF CallStep

\* For any calls, cancellers and pool, with any failures, the registry seen
\* from the frontend is the lifecycle OperationLifecycle promises.
THEOREM LifecycleRefined == Spec => ImplementsLifecycle
  <1>1. Init => Lifecycle!Init /\ TargetsWereRegistered
    BY DEF Init, Lifecycle!Init, statusOfCalls, signalledCalls, StatusOf, Registered,
           TargetsWereRegistered
  <1>2. IInv /\ TargetsWereRegistered /\ [Next]_vars => [Lifecycle!Next]_(Lifecycle!vars)
    <2> SUFFICES ASSUME TypeOK, RegistrationMatchesRun, TargetsWereRegistered, [Next]_vars
                 PROVE  [Lifecycle!Next]_(Lifecycle!vars)
      BY DEF IInv
    <2>1. ASSUME NEW k \in Cancellers, SendSignal(k)
          PROVE  [Lifecycle!Next]_(Lifecycle!vars)
      <3> DEFINE c == target[k]
      <3>1. c \in Calls /\ IdOf[c] # NoId /\ pc' = pc
        BY <2>1 DEF SendSignal, TargetsWereRegistered, callVars
      <3>2. CASE ReceiverAlive(c)
        <4>1. statusOfCalls[c] \in {"running", "closing"} /\ statusOfCalls' = statusOfCalls
          BY <3>1, <3>2 DEF ReceiverAlive, statusOfCalls, StatusOf, Registered
        <4>2. signalledCalls' = signalledCalls \cup {c}
          BY <2>1, <3>1, <3>2 DEF SendSignal, signalledCalls, TypeOK
        <4> QED
          BY <3>1, <4>1, <4>2 DEF Lifecycle!Next, Lifecycle!Accept
      <3>3. CASE ~ReceiverAlive(c)
        BY <2>1, <3>1, <3>3 DEF SendSignal, statusOfCalls, signalledCalls, Lifecycle!vars
      <3> QED
        BY <3>2, <3>3
    <2>2. CASE UNCHANGED <<pc, signal>>
      BY <2>2 DEF statusOfCalls, signalledCalls, Lifecycle!vars
    <2> QED
      BY <2>1, <2>2, CallRefines DEF Next, ServerEnds, ConnectionLost, Lookup, Disconnect,
                                     Terminated, vars, callVars
  <1>3. IInv /\ TargetsWereRegistered /\ [Next]_vars => TargetsWereRegistered'
    BY TargetsStep DEF IInv
  <1> QED
    BY <1>1, <1>2, <1>3, InvariantHolds, PTL DEF Spec, ImplementsLifecycle, Lifecycle!Spec
=============================================================================
