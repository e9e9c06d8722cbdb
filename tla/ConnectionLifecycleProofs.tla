----------------------- MODULE ConnectionLifecycleProofs -----------------------
(* Proofs about ConnectionLifecycle, for any connections and commands, and *)
(* about PooledSessions, for any calls, texts and pool size.               *)
EXTENDS ConnectionLifecycle, PooledSessions, SequenceTheorems, WellFoundedInduction, TLAPS

Underway == {"tunnelling", "pooling"}

\* A command works on the connection it was invoked with.
CommandsHaveConns == \A k \in Commands : pc[k] # "new" => conn[k] \in Conns

\* The driver of an entry was opened for that connection by a connect that has
\* ended, so that closing one connection closes no other's pool.
DriversAreOwned ==
    \A c \in Conns : driver[c] # NoCommand => pc[driver[c]] = "done" /\ conn[driver[c]] = c

\* A connect between its two ends holds the mutex, and because no sync runs
\* meanwhile the flag it copied is still the manager's.
ConnectIsExclusive ==
    /\ \A k \in Commands : pc[k] \in Underway => lock = k /\ mode[k] = managed[conn[k]]
    /\ lock # NoCommand => pc[lock] \in Underway

\* A connect opens its tunnel on its way to the pool, if it needs one.
TunnelsFollowConnect ==
    \A k \in Commands :
        /\ pc[k] \in {"new", "reading", "locking", "tunnelling"} => tunnel[k] = "none"
        /\ pc[k] = "tunnelling" => conn[k] \in Ssh
        /\ pc[k] = "pooling" => tunnel[k] = IF conn[k] \in Ssh THEN "listening" ELSE "none"

\* A difference between the list and the manager has a command that is about
\* to sync it, or one that failed after it had erased the connection.
StoreIsPending ==
    \A c \in Conns :
        \/ managed[c] = stored[c]
        \/ \E k \in Commands : pc[k] = "syncing" /\ conn[k] = c
        \/ /\ stored[c] = "absent"
           /\ \E k \in Commands : pc[k] \in {"forgetting", "failed"} /\ conn[k] = c

IInv ==
    /\ TypeOK
    /\ CommandsHaveConns
    /\ DriversAreOwned
    /\ ConnectIsExclusive
    /\ TunnelsFollowConnect
    /\ ConnectingIsUnderway
    /\ ConnectedIsUsable
    /\ SessionHonoursFlag
    /\ StoreIsPending

-----------------------------------------------------------------------------
\* Every step keeps the types.
LEMMA TypeStep ==
    ASSUME TypeOK, CommandsHaveConns, [Next]_vars
    PROVE  TypeOK'
  <1>1. ASSUME NEW k \in Commands, NEW c \in Conns, Start(k, c)
        PROVE  TypeOK'
    <2>1. CASE Refuse(k, c)
      BY <2>1 DEF TypeOK, storeVars, managerVars, driverVars, Refuse, Step, Invoke
    <2>2. CASE ConnectStored(k, c)
      BY <2>2 DEF TypeOK, storeVars, managerVars, driverVars, ConnectStored, Step, Invoke
    <2>3. CASE Disconnect(k, c)
      BY <2>3 DEF TypeOK, storeVars, Disconnect, Step, Invoke, Close
    <2>4. CASE Delete(k, c)
      BY <2>4 DEF TypeOK, storeVars, Delete, Step, Invoke, Close
    <2>5. CASE Borrow(k, c)
      BY <2>5 DEF TypeOK, storeVars, managerVars, driverVars, Borrow, Step, Invoke
    <2>6. CASE \E m \in Modes : Save(k, c, m)
      BY <2>6 DEF TypeOK, managerVars, driverVars, Save, Step, Invoke
    <2> QED
      BY <1>1, <2>1, <2>2, <2>3, <2>4, <2>5, <2>6 DEF Start
  <1>2. ASSUME NEW k \in Commands, Continue(k)
        PROVE  TypeOK'
    <2>1. CASE ReadSecrets(k)
      BY <2>1 DEF TypeOK, storeVars, managerVars, driverVars, ReadSecrets, Step
    <2>2. CASE EnterConnect(k)
      BY <2>2 DEF TypeOK, CommandsHaveConns, storeVars, EnterConnect, Step
    <2>3. CASE ConnectNotFound(k)
      BY <2>3 DEF TypeOK, storeVars, managerVars, driverVars, ConnectNotFound, Step
    <2>4. CASE OpenTunnel(k)
      BY <2>4 DEF TypeOK, storeVars, managerVars, OpenTunnel, Step
    <2>5. CASE OpenPool(k)
      BY <2>5 DEF TypeOK, storeVars, OpenPool, Step
    <2>6. CASE ConnectFails(k)
      BY <2>6 DEF TypeOK, storeVars, driverVars, ConnectFails, Step
    <2>7. CASE Erase(k)
      BY <2>7 DEF TypeOK, managerVars, driverVars, Erase, Step
    <2>8. CASE Forget(k)
      BY <2>8 DEF TypeOK, storeVars, managerVars, driverVars, Forget, Step
    <2>9. CASE Sync(k)
      BY <2>9 DEF TypeOK, storeVars, driverVars, Sync, Step
    <2>10. CASE Execute(k)
      BY <2>10 DEF TypeOK, storeVars, managerVars, driverVars, Execute, Step
    <2>11. CASE Spawn(k)
      BY <2>11 DEF TypeOK, storeVars, managerVars, driverVars, Spawn, Step
    <2>12. CASE GiveBack(k)
      BY <2>12 DEF TypeOK, storeVars, managerVars, driverVars, GiveBack, Step
    <2> QED
      BY <1>2, <2>1, <2>2, <2>3, <2>4, <2>5, <2>6, <2>7, <2>8, <2>9, <2>10, <2>11, <2>12 DEF Continue
  <1>3. CASE UNCHANGED vars
    BY <1>3 DEF TypeOK, storeVars, managerVars, driverVars, commandVars, vars
  <1> QED
    BY <1>1, <1>2, <1>3 DEF Next, Terminated

\* A command's connection is fixed when it is invoked.
LEMMA ConnsStep ==
    ASSUME TypeOK, CommandsHaveConns, [Next]_vars
    PROVE  CommandsHaveConns'
  <1>1. ASSUME NEW k \in Commands, NEW c \in Conns, Start(k, c)
        PROVE  CommandsHaveConns'
    <2>1. CASE Refuse(k, c)
      BY <2>1 DEF TypeOK, CommandsHaveConns, Refuse, Step, Invoke
    <2>2. CASE ConnectStored(k, c)
      BY <2>2 DEF TypeOK, CommandsHaveConns, ConnectStored, Step, Invoke
    <2>3. CASE Disconnect(k, c)
      BY <2>3 DEF TypeOK, CommandsHaveConns, Disconnect, Step, Invoke
    <2>4. CASE Delete(k, c)
      BY <2>4 DEF TypeOK, CommandsHaveConns, Delete, Step, Invoke
    <2>5. CASE Borrow(k, c)
      BY <2>5 DEF TypeOK, CommandsHaveConns, Borrow, Step, Invoke
    <2>6. CASE \E m \in Modes : Save(k, c, m)
      BY <2>6 DEF TypeOK, CommandsHaveConns, Save, Step, Invoke
    <2> QED
      BY <1>1, <2>1, <2>2, <2>3, <2>4, <2>5, <2>6 DEF Start
  <1>2. ASSUME NEW k \in Commands, Continue(k)
        PROVE  CommandsHaveConns'
    <2>1. CASE ReadSecrets(k)
      BY <2>1 DEF CommandsHaveConns, ReadSecrets, Step
    <2>2. CASE EnterConnect(k)
      BY <2>2 DEF CommandsHaveConns, EnterConnect, Step
    <2>3. CASE ConnectNotFound(k)
      BY <2>3 DEF CommandsHaveConns, ConnectNotFound, Step
    <2>4. CASE OpenTunnel(k)
      BY <2>4 DEF CommandsHaveConns, OpenTunnel, Step
    <2>5. CASE OpenPool(k)
      BY <2>5 DEF CommandsHaveConns, OpenPool, Step
    <2>6. CASE ConnectFails(k)
      BY <2>6 DEF CommandsHaveConns, ConnectFails, Step
    <2>7. CASE Erase(k)
      BY <2>7 DEF TypeOK, CommandsHaveConns, Erase, Step
    <2>8. CASE Forget(k)
      BY <2>8 DEF CommandsHaveConns, Forget, Step
    <2>9. CASE Sync(k)
      BY <2>9 DEF CommandsHaveConns, Sync, Step
    <2>10. CASE Execute(k)
      BY <2>10 DEF CommandsHaveConns, Execute, Step
    <2>11. CASE Spawn(k)
      BY <2>11 DEF CommandsHaveConns, Spawn, Step
    <2>12. CASE GiveBack(k)
      BY <2>12 DEF CommandsHaveConns, GiveBack, Step
    <2> QED
      BY <1>2, <2>1, <2>2, <2>3, <2>4, <2>5, <2>6, <2>7, <2>8, <2>9, <2>10, <2>11, <2>12 DEF Continue
  <1>3. CASE UNCHANGED vars
    BY <1>3 DEF CommandsHaveConns, commandVars, vars
  <1> QED
    BY <1>1, <1>2, <1>3 DEF Next, Terminated

\* Only a connect that ends puts its driver into an entry.
LEMMA OwnedStep ==
    ASSUME TypeOK, DriversAreOwned, [Next]_vars
    PROVE  DriversAreOwned'
  <1>1. ASSUME NEW k \in Commands, NEW c \in Conns, Start(k, c)
        PROVE  DriversAreOwned'
    <2>1. CASE Refuse(k, c)
      BY <2>1 DEF DriversAreOwned, managerVars, Refuse, Step, Invoke
    <2>2. CASE ConnectStored(k, c)
      BY <2>2 DEF DriversAreOwned, managerVars, ConnectStored, Step, Invoke
    <2>3. CASE Disconnect(k, c)
      BY <2>3 DEF DriversAreOwned, Disconnect, Step, Invoke, Close
    <2>4. CASE Delete(k, c)
      BY <2>4 DEF DriversAreOwned, Delete, Step, Invoke, Close
    <2>5. CASE Borrow(k, c)
      BY <2>5 DEF DriversAreOwned, managerVars, Borrow, Step, Invoke
    <2>6. CASE \E m \in Modes : Save(k, c, m)
      BY <2>6 DEF TypeOK, DriversAreOwned, managerVars, Save, Step, Invoke
    <2> QED
      BY <1>1, <2>1, <2>2, <2>3, <2>4, <2>5, <2>6 DEF Start
  <1>2. ASSUME NEW k \in Commands, Continue(k)
        PROVE  DriversAreOwned'
    <2>1. CASE ReadSecrets(k)
      BY <2>1 DEF DriversAreOwned, managerVars, ReadSecrets, Step
    <2>2. CASE EnterConnect(k)
      BY <2>2 DEF DriversAreOwned, EnterConnect, Step
    <2>3. CASE ConnectNotFound(k)
      BY <2>3 DEF DriversAreOwned, managerVars, ConnectNotFound, Step
    <2>4. CASE OpenTunnel(k)
      BY <2>4 DEF DriversAreOwned, managerVars, OpenTunnel, Step
    <2>5. CASE OpenPool(k)
      BY <2>5 DEF TypeOK, DriversAreOwned, OpenPool, Step
    <2>6. CASE ConnectFails(k)
      BY <2>6 DEF DriversAreOwned, ConnectFails, Step
    <2>7. CASE Erase(k)
      BY <2>7 DEF TypeOK, DriversAreOwned, managerVars, Erase, Step
    <2>8. CASE Forget(k)
      BY <2>8 DEF DriversAreOwned, managerVars, Forget, Step
    <2>9. CASE Sync(k)
      BY <2>9 DEF DriversAreOwned, Sync, Step
    <2>10. CASE Execute(k)
      BY <2>10 DEF DriversAreOwned, managerVars, Execute, Step
    <2>11. CASE Spawn(k)
      BY <2>11 DEF DriversAreOwned, managerVars, Spawn, Step
    <2>12. CASE GiveBack(k)
      BY <2>12 DEF DriversAreOwned, managerVars, GiveBack, Step
    <2> QED
      BY <1>2, <2>1, <2>2, <2>3, <2>4, <2>5, <2>6, <2>7, <2>8, <2>9, <2>10, <2>11, <2>12 DEF Continue
  <1>3. CASE UNCHANGED vars
    BY <1>3 DEF DriversAreOwned, managerVars, commandVars, vars
  <1> QED
    BY <1>1, <1>2, <1>3 DEF Next, Terminated

\* The mutex is taken at the start of a connect and given back at its end.
LEMMA ExclusiveStep ==
    ASSUME TypeOK, ConnectIsExclusive, [Next]_vars
    PROVE  ConnectIsExclusive'
  <1>1. ASSUME NEW k \in Commands, NEW c \in Conns, Start(k, c)
        PROVE  ConnectIsExclusive'
    <2>1. CASE Refuse(k, c)
      BY <2>1 DEF ConnectIsExclusive, Underway, managerVars, driverVars, Refuse, Step, Invoke
    <2>2. CASE ConnectStored(k, c)
      BY <2>2 DEF ConnectIsExclusive, Underway, managerVars, driverVars, ConnectStored, Step, Invoke
    <2>3. CASE Disconnect(k, c)
      BY <2>3 DEF ConnectIsExclusive, Underway, Disconnect, Step, Invoke
    <2>4. CASE Delete(k, c)
      BY <2>4 DEF ConnectIsExclusive, Underway, Delete, Step, Invoke
    <2>5. CASE Borrow(k, c)
      BY <2>5 DEF ConnectIsExclusive, Underway, managerVars, driverVars, Borrow, Step, Invoke
    <2>6. CASE \E m \in Modes : Save(k, c, m)
      BY <2>6 DEF TypeOK, ConnectIsExclusive, Underway, managerVars, driverVars, Save, Step, Invoke
    <2> QED
      BY <1>1, <2>1, <2>2, <2>3, <2>4, <2>5, <2>6 DEF Start
  <1>2. ASSUME NEW k \in Commands, Continue(k)
        PROVE  ConnectIsExclusive'
    <2>1. CASE ReadSecrets(k)
      BY <2>1 DEF ConnectIsExclusive, Underway, managerVars, driverVars, ReadSecrets, Step
    <2>2. CASE EnterConnect(k)
      BY <2>2, LifecycleAssumption DEF TypeOK, ConnectIsExclusive, Underway, EnterConnect, Step, Unlocked
    <2>3. CASE ConnectNotFound(k)
      BY <2>3 DEF ConnectIsExclusive, Underway, managerVars, driverVars, ConnectNotFound, Step
    <2>4. CASE OpenTunnel(k)
      BY <2>4 DEF ConnectIsExclusive, Underway, managerVars, OpenTunnel, Step
    <2>5. CASE OpenPool(k)
      BY <2>5 DEF TypeOK, ConnectIsExclusive, Underway, OpenPool, Step
    <2>6. CASE ConnectFails(k)
      BY <2>6 DEF TypeOK, ConnectIsExclusive, Underway, ConnectFails, Step
    <2>7. CASE Erase(k)
      BY <2>7 DEF TypeOK, ConnectIsExclusive, Underway, managerVars, driverVars, Erase, Step
    <2>8. CASE Forget(k)
      BY <2>8 DEF ConnectIsExclusive, Underway, managerVars, driverVars, Forget, Step
    <2>9. CASE Sync(k)
      BY <2>9, LifecycleAssumption DEF ConnectIsExclusive, Underway, Sync, Step, Unlocked
    <2>10. CASE Execute(k)
      BY <2>10 DEF ConnectIsExclusive, Underway, managerVars, driverVars, Execute, Step
    <2>11. CASE Spawn(k)
      BY <2>11 DEF ConnectIsExclusive, Underway, managerVars, driverVars, Spawn, Step
    <2>12. CASE GiveBack(k)
      BY <2>12 DEF ConnectIsExclusive, Underway, managerVars, driverVars, GiveBack, Step
    <2> QED
      BY <1>2, <2>1, <2>2, <2>3, <2>4, <2>5, <2>6, <2>7, <2>8, <2>9, <2>10, <2>11, <2>12 DEF Continue
  <1>3. CASE UNCHANGED vars
    BY <1>3 DEF ConnectIsExclusive, managerVars, driverVars, commandVars, vars
  <1> QED
    BY <1>1, <1>2, <1>3 DEF Next, Terminated

\* Nobody touches the tunnel of a connect that is under way.
LEMMA TunnelStep ==
    ASSUME TypeOK, DriversAreOwned, TunnelsFollowConnect, [Next]_vars
    PROVE  TunnelsFollowConnect'
  <1>1. ASSUME NEW k \in Commands, NEW c \in Conns, Start(k, c)
        PROVE  TunnelsFollowConnect'
    <2>1. CASE Refuse(k, c)
      BY <2>1 DEF TunnelsFollowConnect, driverVars, Refuse, Step, Invoke
    <2>2. CASE ConnectStored(k, c)
      BY <2>2 DEF TunnelsFollowConnect, driverVars, ConnectStored, Step, Invoke
    <2>3. CASE Disconnect(k, c)
      BY <2>3, LifecycleAssumption DEF DriversAreOwned, TunnelsFollowConnect, Disconnect, Step, Invoke, Close
    <2>4. CASE Delete(k, c)
      BY <2>4, LifecycleAssumption DEF DriversAreOwned, TunnelsFollowConnect, Delete, Step, Invoke, Close
    <2>5. CASE Borrow(k, c)
      BY <2>5 DEF TunnelsFollowConnect, driverVars, Borrow, Step, Invoke
    <2>6. CASE \E m \in Modes : Save(k, c, m)
      BY <2>6 DEF TypeOK, TunnelsFollowConnect, driverVars, Save, Step, Invoke
    <2> QED
      BY <1>1, <2>1, <2>2, <2>3, <2>4, <2>5, <2>6 DEF Start
  <1>2. ASSUME NEW k \in Commands, Continue(k)
        PROVE  TunnelsFollowConnect'
    <2>1. CASE ReadSecrets(k)
      BY <2>1 DEF TunnelsFollowConnect, driverVars, ReadSecrets, Step
    <2>2. CASE EnterConnect(k)
      BY <2>2 DEF TunnelsFollowConnect, EnterConnect, Step
    <2>3. CASE ConnectNotFound(k)
      BY <2>3 DEF TunnelsFollowConnect, driverVars, ConnectNotFound, Step
    <2>4. CASE OpenTunnel(k)
      BY <2>4 DEF TypeOK, TunnelsFollowConnect, OpenTunnel, Step
    <2>5. CASE OpenPool(k)
      BY <2>5 DEF TunnelsFollowConnect, OpenPool, Step
    <2>6. CASE ConnectFails(k)
      BY <2>6 DEF TunnelsFollowConnect, driverVars, ConnectFails, Step
    <2>7. CASE Erase(k)
      BY <2>7 DEF TypeOK, TunnelsFollowConnect, driverVars, Erase, Step
    <2>8. CASE Forget(k)
      BY <2>8 DEF TunnelsFollowConnect, driverVars, Forget, Step
    <2>9. CASE Sync(k)
      BY <2>9 DEF TunnelsFollowConnect, driverVars, Sync, Step
    <2>10. CASE Execute(k)
      BY <2>10 DEF TunnelsFollowConnect, driverVars, Execute, Step
    <2>11. CASE Spawn(k)
      BY <2>11 DEF TunnelsFollowConnect, driverVars, Spawn, Step
    <2>12. CASE GiveBack(k)
      BY <2>12 DEF TunnelsFollowConnect, driverVars, GiveBack, Step
    <2> QED
      BY <1>2, <2>1, <2>2, <2>3, <2>4, <2>5, <2>6, <2>7, <2>8, <2>9, <2>10, <2>11, <2>12 DEF Continue
  <1>3. CASE UNCHANGED vars
    BY <1>3 DEF TunnelsFollowConnect, driverVars, commandVars, vars
  <1> QED
    BY <1>1, <1>2, <1>3 DEF Next, Terminated

\* The status connecting comes and goes with the mutex.
LEMMA ConnectingStep ==
    ASSUME TypeOK, ConnectIsExclusive, ConnectingIsUnderway, [Next]_vars
    PROVE  ConnectingIsUnderway'
  <1>1. ASSUME NEW k \in Commands, NEW c \in Conns, Start(k, c)
        PROVE  ConnectingIsUnderway'
    <2>1. CASE Refuse(k, c)
      BY <2>1 DEF ConnectingIsUnderway, managerVars, Refuse, Step, Invoke
    <2>2. CASE ConnectStored(k, c)
      BY <2>2 DEF ConnectingIsUnderway, managerVars, ConnectStored, Step, Invoke
    <2>3. CASE Disconnect(k, c)
      BY <2>3, LifecycleAssumption DEF ConnectingIsUnderway, Disconnect, Unlocked, Close
    <2>4. CASE Delete(k, c)
      BY <2>4, LifecycleAssumption DEF ConnectingIsUnderway, Delete, Unlocked, Close
    <2>5. CASE Borrow(k, c)
      BY <2>5 DEF ConnectingIsUnderway, managerVars, Borrow, Step, Invoke
    <2>6. CASE \E m \in Modes : Save(k, c, m)
      BY <2>6 DEF TypeOK, ConnectingIsUnderway, managerVars, Save, Step, Invoke
    <2> QED
      BY <1>1, <2>1, <2>2, <2>3, <2>4, <2>5, <2>6 DEF Start
  <1>2. ASSUME NEW k \in Commands, Continue(k)
        PROVE  ConnectingIsUnderway'
    <2>1. CASE ReadSecrets(k)
      BY <2>1 DEF ConnectingIsUnderway, managerVars, ReadSecrets, Step
    <2>2. CASE EnterConnect(k)
      BY <2>2, LifecycleAssumption DEF TypeOK, ConnectingIsUnderway, EnterConnect, Step, Unlocked
    <2>3. CASE ConnectNotFound(k)
      BY <2>3 DEF ConnectingIsUnderway, managerVars, ConnectNotFound, Step
    <2>4. CASE OpenTunnel(k)
      BY <2>4 DEF ConnectingIsUnderway, managerVars, OpenTunnel, Step
    <2>5. CASE OpenPool(k)
      BY <2>5 DEF TypeOK, ConnectIsExclusive, ConnectingIsUnderway, Underway, OpenPool, Step
    <2>6. CASE ConnectFails(k)
      BY <2>6 DEF TypeOK, ConnectIsExclusive, ConnectingIsUnderway, Underway, ConnectFails, Step
    <2>7. CASE Erase(k)
      BY <2>7 DEF TypeOK, ConnectingIsUnderway, managerVars, Erase, Step
    <2>8. CASE Forget(k)
      BY <2>8 DEF ConnectingIsUnderway, managerVars, Forget, Step
    <2>9. CASE Sync(k)
      BY <2>9, LifecycleAssumption DEF ConnectingIsUnderway, Sync, Unlocked
    <2>10. CASE Execute(k)
      BY <2>10 DEF ConnectingIsUnderway, managerVars, Execute, Step
    <2>11. CASE Spawn(k)
      BY <2>11 DEF ConnectingIsUnderway, managerVars, Spawn, Step
    <2>12. CASE GiveBack(k)
      BY <2>12 DEF ConnectingIsUnderway, managerVars, GiveBack, Step
    <2> QED
      BY <1>2, <2>1, <2>2, <2>3, <2>4, <2>5, <2>6, <2>7, <2>8, <2>9, <2>10, <2>11, <2>12 DEF Continue
  <1>3. CASE UNCHANGED vars
    BY <1>3 DEF ConnectingIsUnderway, managerVars, commandVars, vars
  <1> QED
    BY <1>1, <1>2, <1>3 DEF Next, Terminated

\* A connected connection stays usable until it is closed or dropped.
LEMMA UsableStep ==
    ASSUME TypeOK, DriversAreOwned, TunnelsFollowConnect, ConnectedIsUsable, [Next]_vars
    PROVE  ConnectedIsUsable'
  <1>1. ASSUME NEW k \in Commands, NEW c \in Conns, Start(k, c)
        PROVE  ConnectedIsUsable'
    <2>1. CASE Refuse(k, c)
      BY <2>1 DEF DriversAreOwned, ConnectedIsUsable, managerVars, driverVars, Refuse, Step, Invoke
    <2>2. CASE ConnectStored(k, c)
      BY <2>2 DEF DriversAreOwned, ConnectedIsUsable, managerVars, driverVars, ConnectStored, Step, Invoke
    <2>3. CASE Disconnect(k, c)
      BY <2>3 DEF TypeOK, DriversAreOwned, ConnectedIsUsable, Disconnect, Step, Invoke, Close
    <2>4. CASE Delete(k, c)
      BY <2>4 DEF TypeOK, DriversAreOwned, ConnectedIsUsable, Delete, Step, Invoke, Close
    <2>5. CASE Borrow(k, c)
      BY <2>5 DEF DriversAreOwned, ConnectedIsUsable, managerVars, driverVars, Borrow, Step, Invoke
    <2>6. CASE \E m \in Modes : Save(k, c, m)
      BY <2>6 DEF TypeOK, DriversAreOwned, ConnectedIsUsable, managerVars, driverVars, Save, Step, Invoke
    <2> QED
      BY <1>1, <2>1, <2>2, <2>3, <2>4, <2>5, <2>6 DEF Start
  <1>2. ASSUME NEW k \in Commands, Continue(k)
        PROVE  ConnectedIsUsable'
    <2>1. CASE ReadSecrets(k)
      BY <2>1 DEF ConnectedIsUsable, managerVars, driverVars, ReadSecrets
    <2>2. CASE EnterConnect(k)
      BY <2>2 DEF ConnectedIsUsable, EnterConnect
    <2>3. CASE ConnectNotFound(k)
      BY <2>3 DEF ConnectedIsUsable, managerVars, driverVars, ConnectNotFound
    <2>4. CASE OpenTunnel(k)
      BY <2>4 DEF TunnelsFollowConnect, ConnectedIsUsable, managerVars, OpenTunnel, Step
    <2>5. CASE OpenPool(k)
      BY <2>5, LifecycleAssumption DEF TypeOK, TunnelsFollowConnect, ConnectedIsUsable, OpenPool, Step
    <2>6. CASE ConnectFails(k)
      BY <2>6 DEF ConnectedIsUsable, driverVars, ConnectFails
    <2>7. CASE Erase(k)
      BY <2>7 DEF ConnectedIsUsable, managerVars, driverVars, Erase
    <2>8. CASE Forget(k)
      BY <2>8 DEF ConnectedIsUsable, managerVars, driverVars, Forget
    <2>9. CASE Sync(k)
      BY <2>9 DEF ConnectedIsUsable, driverVars, Sync
    <2>10. CASE Execute(k)
      BY <2>10 DEF ConnectedIsUsable, managerVars, driverVars, Execute
    <2>11. CASE Spawn(k)
      BY <2>11 DEF ConnectedIsUsable, managerVars, driverVars, Spawn
    <2>12. CASE GiveBack(k)
      BY <2>12 DEF ConnectedIsUsable, managerVars, driverVars, GiveBack
    <2> QED
      BY <1>2, <2>1, <2>2, <2>3, <2>4, <2>5, <2>6, <2>7, <2>8, <2>9, <2>10, <2>11, <2>12 DEF Continue
  <1>3. CASE UNCHANGED vars
    BY <1>3 DEF ConnectedIsUsable, managerVars, driverVars, commandVars, vars
  <1> QED
    BY <1>1, <1>2, <1>3 DEF Next, Terminated

\* A sync drops the session whose flag was switched; a connect copies the
\* flag under the mutex.
LEMMA FlagStep ==
    ASSUME TypeOK, ConnectIsExclusive, ConnectedIsUsable, SessionHonoursFlag, [Next]_vars
    PROVE  SessionHonoursFlag'
  <1>1. ASSUME NEW k \in Commands, NEW c \in Conns, Start(k, c)
        PROVE  SessionHonoursFlag'
    <2>1. CASE Refuse(k, c)
      BY <2>1 DEF SessionHonoursFlag, managerVars, driverVars, Refuse
    <2>2. CASE ConnectStored(k, c)
      BY <2>2 DEF SessionHonoursFlag, managerVars, driverVars, ConnectStored
    <2>3. CASE Disconnect(k, c)
      BY <2>3 DEF TypeOK, SessionHonoursFlag, Disconnect, Close
    <2>4. CASE Delete(k, c)
      BY <2>4 DEF TypeOK, SessionHonoursFlag, Delete, Close
    <2>5. CASE Borrow(k, c)
      BY <2>5 DEF SessionHonoursFlag, managerVars, driverVars, Borrow
    <2>6. CASE \E m \in Modes : Save(k, c, m)
      BY <2>6 DEF SessionHonoursFlag, managerVars, driverVars, Save
    <2> QED
      BY <1>1, <2>1, <2>2, <2>3, <2>4, <2>5, <2>6 DEF Start
  <1>2. ASSUME NEW k \in Commands, Continue(k)
        PROVE  SessionHonoursFlag'
    <2>1. CASE ReadSecrets(k)
      BY <2>1 DEF SessionHonoursFlag, managerVars, driverVars, ReadSecrets
    <2>2. CASE EnterConnect(k)
      BY <2>2 DEF ConnectedIsUsable, SessionHonoursFlag, EnterConnect
    <2>3. CASE ConnectNotFound(k)
      BY <2>3 DEF SessionHonoursFlag, managerVars, driverVars, ConnectNotFound
    <2>4. CASE OpenTunnel(k)
      BY <2>4 DEF SessionHonoursFlag, managerVars, OpenTunnel
    <2>5. CASE OpenPool(k)
      BY <2>5 DEF TypeOK, ConnectIsExclusive, SessionHonoursFlag, Underway, OpenPool, Step
    <2>6. CASE ConnectFails(k)
      BY <2>6 DEF SessionHonoursFlag, driverVars, ConnectFails
    <2>7. CASE Erase(k)
      BY <2>7 DEF SessionHonoursFlag, managerVars, driverVars, Erase
    <2>8. CASE Forget(k)
      BY <2>8 DEF SessionHonoursFlag, managerVars, driverVars, Forget
    <2>9. CASE Sync(k)
      BY <2>9 DEF SessionHonoursFlag, driverVars, Sync
    <2>10. CASE Execute(k)
      BY <2>10 DEF SessionHonoursFlag, managerVars, driverVars, Execute
    <2>11. CASE Spawn(k)
      BY <2>11 DEF SessionHonoursFlag, managerVars, driverVars, Spawn
    <2>12. CASE GiveBack(k)
      BY <2>12 DEF SessionHonoursFlag, managerVars, driverVars, GiveBack
    <2> QED
      BY <1>2, <2>1, <2>2, <2>3, <2>4, <2>5, <2>6, <2>7, <2>8, <2>9, <2>10, <2>11, <2>12 DEF Continue
  <1>3. CASE UNCHANGED vars
    BY <1>3 DEF SessionHonoursFlag, managerVars, driverVars, vars
  <1> QED
    BY <1>1, <1>2, <1>3 DEF Next, Terminated

\* Whoever changes the list has a sync before it, unless it fails.
LEMMA PendingStep ==
    ASSUME TypeOK, StoreIsPending, [Next]_vars
    PROVE  StoreIsPending'
  <1>1. ASSUME NEW k \in Commands, NEW c \in Conns, Start(k, c)
        PROVE  StoreIsPending'
    <2>1. CASE Refuse(k, c)
      BY <2>1 DEF StoreIsPending, storeVars, managerVars, Refuse, Step, Invoke
    <2>2. CASE ConnectStored(k, c)
      BY <2>2 DEF StoreIsPending, storeVars, managerVars, ConnectStored, Step, Invoke
    <2>3. CASE Disconnect(k, c)
      BY <2>3 DEF StoreIsPending, storeVars, Disconnect, Step, Invoke
    <2>4. CASE Delete(k, c)
      BY <2>4 DEF StoreIsPending, storeVars, Delete, Step, Invoke
    <2>5. CASE Borrow(k, c)
      BY <2>5 DEF StoreIsPending, storeVars, managerVars, Borrow, Step, Invoke
    <2>6. CASE \E m \in Modes : Save(k, c, m)
      BY <2>6 DEF TypeOK, StoreIsPending, managerVars, Save, Step, Invoke
    <2> QED
      BY <1>1, <2>1, <2>2, <2>3, <2>4, <2>5, <2>6 DEF Start
  <1>2. ASSUME NEW k \in Commands, Continue(k)
        PROVE  StoreIsPending'
    <2>1. CASE ReadSecrets(k)
      BY <2>1 DEF StoreIsPending, storeVars, managerVars, ReadSecrets, Step
    <2>2. CASE EnterConnect(k)
      BY <2>2 DEF StoreIsPending, storeVars, EnterConnect, Step
    <2>3. CASE ConnectNotFound(k)
      BY <2>3 DEF StoreIsPending, storeVars, managerVars, ConnectNotFound, Step
    <2>4. CASE OpenTunnel(k)
      BY <2>4 DEF StoreIsPending, storeVars, managerVars, OpenTunnel, Step
    <2>5. CASE OpenPool(k)
      BY <2>5 DEF StoreIsPending, storeVars, OpenPool, Step
    <2>6. CASE ConnectFails(k)
      BY <2>6 DEF StoreIsPending, storeVars, ConnectFails, Step
    <2>7. CASE Erase(k)
      BY <2>7 DEF TypeOK, StoreIsPending, managerVars, Erase, Step
    <2>8. CASE Forget(k)
      BY <2>8 DEF StoreIsPending, storeVars, managerVars, Forget, Step
    <2>9. CASE Sync(k)
      BY <2>9 DEF StoreIsPending, storeVars, Sync
    <2>10. CASE Execute(k)
      BY <2>10 DEF StoreIsPending, storeVars, managerVars, Execute, Step
    <2>11. CASE Spawn(k)
      BY <2>11 DEF StoreIsPending, storeVars, managerVars, Spawn, Step
    <2>12. CASE GiveBack(k)
      BY <2>12 DEF StoreIsPending, storeVars, managerVars, GiveBack, Step
    <2> QED
      BY <1>2, <2>1, <2>2, <2>3, <2>4, <2>5, <2>6, <2>7, <2>8, <2>9, <2>10, <2>11, <2>12 DEF Continue
  <1>3. CASE UNCHANGED vars
    BY <1>3 DEF StoreIsPending, storeVars, managerVars, commandVars, vars
  <1> QED
    BY <1>1, <1>2, <1>3 DEF Next, Terminated

-----------------------------------------------------------------------------
\* The inductive invariant: every conjunct is needed for another.
LEMMA InvariantHolds == Spec => []IInv
  <1>1. Init => IInv
    <2> SUFFICES ASSUME Init PROVE IInv
      OBVIOUS
    <2>1. TypeOK
      BY LifecycleAssumption DEF Init, TypeOK, Modes
    <2>2. CommandsHaveConns /\ DriversAreOwned /\ ConnectIsExclusive /\ TunnelsFollowConnect
      BY DEF Init, CommandsHaveConns, DriversAreOwned, ConnectIsExclusive, TunnelsFollowConnect, Underway
    <2>3. ConnectingIsUnderway /\ ConnectedIsUsable /\ SessionHonoursFlag /\ StoreIsPending
      BY DEF Init, ConnectingIsUnderway, ConnectedIsUsable, SessionHonoursFlag, StoreIsPending
    <2> QED
      BY <2>1, <2>2, <2>3 DEF IInv
  <1>2. IInv /\ [Next]_vars => IInv'
    BY TypeStep, ConnsStep, OwnedStep, ExclusiveStep, TunnelStep, ConnectingStep,
       UsableStep, FlagStep, PendingStep DEF IInv
  <1> QED
    BY <1>1, <1>2, PTL DEF Spec

\* Every reachable state has the declared types.
THEOREM TypeCorrect == Spec => []TypeOK
  BY InvariantHolds, PTL DEF IInv

\* For any overlapping of commands and any failure on their way, what is shown
\* as connected has a live driver of its own.
THEOREM UsableCorrect == Spec => []ConnectedIsUsable
  BY InvariantHolds, PTL DEF IInv

\* For any overlapping of saves and connects, a connected session has the
\* read-only flag the manager shows.
THEOREM FlagCorrect == Spec => []SessionHonoursFlag
  BY InvariantHolds, PTL DEF IInv

\* No connection is left connecting, and nothing but a connect keeps the mutex.
THEOREM ConnectingCorrect == Spec => []ConnectingIsUnderway
  BY InvariantHolds, PTL DEF IInv

\* Once nobody is about to sync, the manager follows the list.
THEOREM RegistryCorrect == Spec => []RegistryFollowsStore
  <1>1. IInv => RegistryFollowsStore
    BY DEF IInv, StoreIsPending, RegistryFollowsStore, Writers
  <1> QED
    BY <1>1, InvariantHolds, PTL
-----------------------------------------------------------------------------
(* Running tools and their tunnel.                                         *)

Using == {"borrowed", "preparing", "executing", "dumping"}

\* A command that uses a connection holds the driver a finished connect opened
\* for that very connection, and keeps it whatever becomes of the manager's.
HandlesAreOwned ==
    \A k \in Commands : pc[k] \in Using =>
        /\ handle[k] \in Commands
        /\ pc[handle[k]] = "done"
        /\ conn[handle[k]] = conn[k]

\* A command that has ended stays ended, on the connection it had.
LEMMA DoneIsFinal ==
    ASSUME TypeOK, [Next]_vars, NEW k \in Commands, pc[k] = "done"
    PROVE  pc'[k] = "done" /\ conn'[k] = conn[k]
  <1>1. ASSUME NEW j \in Commands, NEW c \in Conns, Start(j, c)
        PROVE  pc'[k] = "done" /\ conn'[k] = conn[k]
    <2>1. \E to : Invoke(j, c, to)
      BY <1>1 DEF Start, Refuse, ConnectStored, Disconnect, Delete, Borrow, Save
    <2> QED
      BY <2>1 DEF Invoke, Step, TypeOK
  <1>2. ASSUME NEW j \in Commands, Continue(j)
        PROVE  pc'[k] = "done" /\ conn'[k] = conn[k]
    <2>1. /\ \E from, to : from # "done" /\ Step(j, from, to)
          /\ conn' = conn
      BY <1>2 DEF Continue, ReadSecrets, EnterConnect, ConnectNotFound, OpenTunnel, OpenPool,
                  ConnectFails, Erase, Forget, Sync, Execute, Spawn, GiveBack
    <2> QED
      BY <2>1 DEF Step, TypeOK
  <1>3. CASE UNCHANGED vars
    BY <1>3 DEF vars, commandVars
  <1> QED
    BY <1>1, <1>2, <1>3 DEF Next, Terminated

\* Only borrowing gives a command a handle, and only giving it back takes it.
LEMMA HandlesStep ==
    ASSUME IInv, HandlesAreOwned, [Next]_vars
    PROVE  HandlesAreOwned'
  <1> USE DEF IInv
  <1>1. ASSUME NEW k \in Commands, pc[k] \in Using, handle'[k] = handle[k], conn'[k] = conn[k]
        PROVE  handle'[k] \in Commands /\ pc'[handle'[k]] = "done" /\ conn'[handle'[k]] = conn'[k]
    BY <1>1, DoneIsFinal DEF HandlesAreOwned
  <1>2. ASSUME NEW j \in Commands, NEW c \in Conns, Borrow(j, c)
        PROVE  HandlesAreOwned'
    <2> DEFINE d == driver[c]
    <2>1. d \in Commands /\ pc[d] = "done" /\ conn[d] = c /\ pc[j] = "new" /\ d # j
      BY <1>2 DEF Borrow, Invoke, Step, ConnectedIsUsable, DriversAreOwned, TypeOK
    <2>2. handle'[j] = d /\ conn'[j] = c
      BY <1>2 DEF Borrow, Invoke, TypeOK
    <2>3. pc'[d] = "done" /\ conn'[d] = conn[d]
      BY <2>1, DoneIsFinal
    <2>4. ASSUME NEW k \in Commands, k # j
          PROVE  pc'[k] = pc[k] /\ handle'[k] = handle[k] /\ conn'[k] = conn[k]
      BY <1>2, <2>4 DEF Borrow, Invoke, Step, TypeOK
    <2> QED
      BY <1>1, <2>1, <2>2, <2>3, <2>4 DEF HandlesAreOwned
  <1>3. ASSUME NEW j \in Commands, NEW c \in Conns, Start(j, c), ~Borrow(j, c)
        PROVE  HandlesAreOwned'
    <2>1. handle' = handle /\ pc[j] = "new" /\ pc'[j] \notin Using
          /\ \A k \in Commands \ {j} : pc'[k] = pc[k] /\ conn'[k] = conn[k]
      BY <1>3 DEF Start, Refuse, ConnectStored, Disconnect, Delete, Save, Invoke, Step, TypeOK, Using
    <2> QED
      BY <1>1, <2>1 DEF HandlesAreOwned
  <1>4. ASSUME NEW j \in Commands, Continue(j)
        PROVE  HandlesAreOwned'
    <2>1. /\ conn' = conn
          /\ \A k \in Commands \ {j} : pc'[k] = pc[k] /\ handle'[k] = handle[k]
          /\ pc'[j] \in Using => pc[j] \in Using /\ handle'[j] = handle[j]
      <3>1. CASE ReadSecrets(j) \/ EnterConnect(j) \/ ConnectNotFound(j) \/ OpenTunnel(j) \/ OpenPool(j)
        BY <3>1 DEF ReadSecrets, EnterConnect, ConnectNotFound, OpenTunnel, OpenPool, Step, TypeOK, Using
      <3>2. CASE ConnectFails(j) \/ Erase(j) \/ Forget(j) \/ Sync(j)
        BY <3>2 DEF ConnectFails, Erase, Forget, Sync, Step, TypeOK, Using
      <3>3. CASE Execute(j) \/ Spawn(j) \/ GiveBack(j)
        BY <3>3 DEF Execute, Spawn, GiveBack, Step, TypeOK, Using
      <3> QED
        BY <1>4, <3>1, <3>2, <3>3 DEF Continue
    <2> QED
      BY <1>1, <2>1 DEF HandlesAreOwned
  <1>5. CASE UNCHANGED vars
    BY <1>5 DEF vars, commandVars, HandlesAreOwned
  <1> QED
    BY <1>2, <1>3, <1>4, <1>5 DEF Next, Terminated

\* A listening tunnel stops only in Close, and Close takes the driver of one
\* connection.
LEMMA TunnelCloses ==
    ASSUME IInv, [Next]_vars, NEW d \in Commands, tunnel[d] = "listening", tunnel'[d] # "listening"
    PROVE  \E j \in Commands : /\ pc[j] = "new" /\ pc'[j] \in {"done", "erasing"}
                               /\ conn'[j] = conn[d]
  <1> USE DEF IInv
  <1>1. ASSUME NEW j \in Commands, NEW c \in Conns, Disconnect(j, c) \/ Delete(j, c)
        PROVE  pc[j] = "new" /\ pc'[j] \in {"done", "erasing"} /\ conn'[j] = conn[d]
    <2>1. d = driver[c]
      BY <1>1 DEF Disconnect, Delete, Close, TypeOK
    <2>2. conn[d] = c
      BY <2>1, LifecycleAssumption DEF DriversAreOwned
    <2> QED
      BY <1>1, <2>2 DEF Disconnect, Delete, Invoke, Step, TypeOK
  <1>2. ASSUME NEW j \in Commands, NEW c \in Conns, Start(j, c), ~Disconnect(j, c), ~Delete(j, c)
        PROVE  FALSE
    BY <1>2 DEF Start, Refuse, ConnectStored, Borrow, Save, driverVars
  <1>3. ASSUME NEW j \in Commands, Continue(j)
        PROVE  FALSE
    <2>1. CASE OpenTunnel(j)
      BY <2>1 DEF OpenTunnel, TypeOK
    <2> QED
      BY <1>3, <2>1 DEF Continue, ReadSecrets, EnterConnect, ConnectNotFound, OpenPool, ConnectFails,
                        Erase, Forget, Sync, Execute, Spawn, GiveBack, driverVars
  <1>4. CASE UNCHANGED vars
    BY <1>4 DEF vars, driverVars
  <1> QED
    BY <1>1, <1>2, <1>3, <1>4 DEF Next, Terminated

\* For any connections and commands, a running pg_dump or pg_restore loses
\* its tunnel to nothing but a disconnect or a deletion of its own connection.
THEOREM TunnelKept == Spec => ToolKeepsTunnel
  <1>1. Init => HandlesAreOwned
    BY DEF Init, HandlesAreOwned, Using
  <1>2. ASSUME IInv, HandlesAreOwned, [Next]_vars
        PROVE  [\A k \in Commands :
                   pc[k] = "dumping" /\ tunnel[handle[k]] = "listening" /\ tunnel'[handle[k]] # "listening"
                   => \E j \in Commands :
                         pc[j] = "new" /\ pc'[j] \in {"done", "erasing"} /\ conn'[j] = conn[k]]_vars
    BY <1>2, TunnelCloses DEF HandlesAreOwned, Using
  <1> QED
    BY <1>1, <1>2, HandlesStep, InvariantHolds, PTL DEF Spec, ToolKeepsTunnel
-----------------------------------------------------------------------------
(***************************************************************************)
(* The sessions of one driver's pool: PooledSessions, for any calls, texts *)
(* of the SQL editor and pool size, and for every command of the catalog.  *)
(***************************************************************************)

\* The holds of a command: those that change nothing, and the one that does.
Holds(texts) == [sql : texts, rollback : BOOLEAN, optional : BOOLEAN, stops : BOOLEAN,
                 late : {"no", "rows", "procedure"}]
ReadTexts == {<<"read">>, <<"begin_read_only", "read", "rollback">>}
ReadHolds == Holds(ReadTexts)
ChangeTexts == {<<"write">>, <<"vacuum">>, <<"begin", "write", "write", "commit">>}
ChangeHolds == {h \in Holds(ChangeTexts) : h.stops = TRUE}

\* Whatever a hold sends.
AllTexts == ReadTexts \cup ChangeTexts \cup {<<"begin">>, <<"rollback">>} \cup Scripts

LEMMA TextLengths ==
    \A sql \in AllTexts : Len(sql) \in Nat /\ DOMAIN sql = 1..Len(sql)
  <1>1. \A sql \in Scripts : Len(sql) \in Nat /\ DOMAIN sql = 1..Len(sql)
    BY PoolAssumption DEF PoolAssumption
  <1>2. \A sql \in ReadTexts \cup ChangeTexts \cup {<<"begin">>, <<"rollback">>} :
           Len(sql) \in Nat /\ DOMAIN sql = 1..Len(sql)
    BY DEF ReadTexts, ChangeTexts
  <1> QED
    BY <1>1, <1>2 DEF AllTexts

Reader(p) == \E branches \in Seq(Seq(ReadHolds)) : p = Connected(branches)
Writer(p) == \E reads \in Seq(ReadHolds), h \in ChangeHolds :
                p = Writable(reads \o <<h>>) /\ (h.optional => p = OwnCommands["alter_table"])

LEMMA Repeated ==
    ASSUME NEW n \in Nat, NEW S, NEW x \in S
    PROVE  [i \in 1..n |-> x] \in Seq(S)
  BY IsASeq

LEMMA ReadsAreReads ==
    ASSUME NEW n \in Nat
    PROVE  Reads(n) \in Seq(ReadHolds) /\ Optional(Reads(n)) \in Seq(ReadHolds)
  <1>1. PICK one : one = Alone("read")
    OBVIOUS
  <1>2. one \in ReadHolds /\ [one EXCEPT !.optional = TRUE] \in ReadHolds
    BY <1>1 DEF Alone, ReadHolds, Holds, ReadTexts
  <1>3. PICK reads : reads = Reads(n)
    OBVIOUS
  <1>4. reads = [i \in 1..n |-> one]
    BY <1>1, <1>3 DEF Reads
  <1>5. Optional(reads) = [i \in 1..n |-> [one EXCEPT !.optional = TRUE]]
    BY <1>4 DEF Optional
  <1>6. reads \in Seq(ReadHolds) /\ Optional(reads) \in Seq(ReadHolds)
    BY <1>2, <1>4, <1>5, Repeated
  <1> QED
    BY <1>3, <1>6

LEMMA ReadsAdd ==
    ASSUME NEW a \in Seq(ReadHolds), NEW b \in Seq(ReadHolds)
    PROVE  a \o b \in Seq(ReadHolds)
  BY ConcatProperties, Zenon

LEMMA Plain ==
    /\ get_schemas \in Seq(ReadHolds) /\ get_tables \in Seq(ReadHolds)
    /\ get_functions \in Seq(ReadHolds) /\ get_completion_data \in Seq(ReadHolds)
    /\ get_table_estimates \in Seq(ReadHolds) /\ get_indexes \in Seq(ReadHolds)
    /\ get_fk_map \in Seq(ReadHolds) /\ get_sequences \in Seq(ReadHolds)
    /\ get_triggers \in Seq(ReadHolds) /\ get_column_stats \in Seq(ReadHolds)
    /\ get_dashboard \in Seq(ReadHolds) /\ get_db_stats \in Seq(ReadHolds)
    /\ get_erd_data \in Seq(ReadHolds) /\ global_search \in Seq(ReadHolds)
    /\ get_activity \in Seq(ReadHolds) /\ get_locks \in Seq(ReadHolds)
    /\ get_extensions \in Seq(ReadHolds) /\ get_index_ddl \in Seq(ReadHolds)
    /\ standby_status \in Seq(ReadHolds) /\ browse_table_data_ordered \in Seq(ReadHolds)
    /\ get_import_target_columns \in Seq(ReadHolds)
    /\ extension_owning_routine \in Seq(ReadHolds) /\ extension_owning_trigger \in Seq(ReadHolds)
    /\ cancel_activity \in Seq(ReadHolds) /\ get_job_runs \in Seq(ReadHolds)
    /\ get_roles \in Seq(ReadHolds) /\ get_function_ddl \in Seq(ReadHolds)
  BY ReadsAreReads DEF get_schemas, get_tables, get_functions, get_completion_data,
     get_table_estimates, get_indexes, get_fk_map, get_sequences, get_triggers,
     get_column_stats, get_dashboard, get_db_stats, get_erd_data, global_search,
     get_activity, get_locks, get_extensions, get_index_ddl, standby_status,
     browse_table_data_ordered, get_import_target_columns, extension_owning_routine,
     extension_owning_trigger, cancel_activity, get_job_runs, get_roles,
     get_function_ddl

LEMMA Composed ==
    /\ get_table_ddl \in Seq(ReadHolds) /\ get_constraints \in Seq(ReadHolds)
    /\ get_jobs \in Seq(ReadHolds) /\ get_query_stats \in Seq(ReadHolds)
    /\ get_replication_status \in Seq(ReadHolds) /\ get_table_detail \in Seq(ReadHolds)
    /\ Snapshot \in Seq(ReadHolds)
  <1>1. /\ get_table_ddl \in Seq(ReadHolds) /\ get_constraints \in Seq(ReadHolds)
        /\ get_jobs \in Seq(ReadHolds) /\ get_query_stats \in Seq(ReadHolds)
    BY ReadsAreReads, ReadsAdd DEF get_table_ddl, get_constraints, get_jobs,
       get_query_stats
  <1>2. get_replication_status \in Seq(ReadHolds)
    BY ReadsAreReads, ReadsAdd DEF get_replication_status, standby_status
  <1>3. get_table_detail \in Seq(ReadHolds)
    BY <1>1, Plain, ReadsAreReads, ReadsAdd DEF get_table_detail
  <1>4. Snapshot \in Seq(ReadHolds)
    <2>1. PICK h : h = [Alone("read") EXCEPT !.sql = <<"begin_read_only", "read", "rollback">>, !.rollback = TRUE]
      OBVIOUS
    <2>2. h \in ReadHolds
      BY <2>1 DEF Alone, ReadHolds, Holds, ReadTexts
    <2>3. Snapshot = <<h>>
      BY <2>1 DEF Snapshot
    <2> QED
      BY <2>2, <2>3
  <1> QED
    BY <1>1, <1>2, <1>3, <1>4

LEMMA ConnectedReads ==
    ASSUME NEW a \in Seq(ReadHolds), NEW b \in Seq(ReadHolds), NEW c \in Seq(ReadHolds)
    PROVE  /\ Reader(Connected(<<a>>)) /\ Reader(Connected(<<a, b>>))
           /\ Reader(Connected(<<a, b, c>>))
  <1>1. PICK S : S = Seq(ReadHolds)
    OBVIOUS
  <1>2. <<a>> \in Seq(S) /\ <<a, b>> \in Seq(S) /\ <<a, b, c>> \in Seq(S)
    BY <1>1
  <1> QED
    BY <1>1, <1>2 DEF Reader

\* The changes that a writable command ends with.
LEMMA Changes ==
    ASSUME NEW reads \in Seq(ReadHolds), NEW h \in ChangeHolds, ~h.optional
    PROVE  Writer(Writable(reads \o <<h>>)) /\ Writer(Writable(<<h>>))
  <1>1. <<>> \in Seq(ReadHolds) /\ <<h>> = <<>> \o <<h>>
    BY EmptySeq
  <1> QED
    BY <1>1, Zenon DEF Writer

LEMMA ChangeKinds ==
    /\ \E h \in ChangeHolds : ~h.optional /\ Write = <<h>>
    /\ \E h \in ChangeHolds : ~h.optional /\ RowChange = <<h>>
    /\ \E h \in ChangeHolds : ~h.optional /\ ProcedureCall = <<h>>
    /\ \E h \in ChangeHolds : ~h.optional /\ run_vacuum = <<h>>
    /\ \E h \in ChangeHolds : ~h.optional /\ Batch(<<"write">>) = <<h>>
    /\ \E h \in ChangeHolds : ~h.optional /\ Transaction(<<"write", "write">>) = <<h>>
    /\ \E h \in ChangeHolds : alter_table = <<h>>
  <1>1. Alone("write") \in ChangeHolds /\ ~Alone("write").optional
    BY DEF Alone, ChangeHolds, Holds, ChangeTexts
  <1>2. Alone("vacuum") \in ChangeHolds /\ ~Alone("vacuum").optional
    BY DEF Alone, ChangeHolds, Holds, ChangeTexts
  <1>3. \E h \in ChangeHolds : ~h.optional /\ Batch(<<"write">>) = <<h>>
    <2>1. PICK h : h = [Alone("read") EXCEPT !.sql = <<"write">>]
      OBVIOUS
    <2>2. h \in ChangeHolds /\ ~h.optional
      BY <2>1 DEF Alone, ChangeHolds, Holds, ChangeTexts
    <2> QED
      BY <2>1, <2>2 DEF Batch
  <1>4. \E h \in ChangeHolds : ~h.optional /\ Transaction(<<"write", "write">>) = <<h>>
    <2>1. PICK sql : sql = <<"begin">> \o <<"write", "write">> \o <<"commit">>
      OBVIOUS
    <2>2. sql = <<"begin", "write", "write", "commit">>
      <3>1. PICK a, b, c : a = <<"begin">> /\ b = <<"write", "write">> /\ c = <<"commit">>
        OBVIOUS
      <3>2. PICK S : S = {"begin", "write", "commit"}
        OBVIOUS
      <3>3. a \in Seq(S) /\ b \in Seq(S) /\ c \in Seq(S) /\ Len(a) = 1 /\ Len(b) = 2 /\ Len(c) = 1
        BY <3>1, <3>2
      <3>4. PICK ab : ab = a \o b
        OBVIOUS
      <3>5. /\ ab \in Seq(S) /\ Len(ab) = Len(a) + Len(b)
            /\ \A i \in 1..(Len(a) + Len(b)) : ab[i] = IF i <= Len(a) THEN a[i] ELSE b[i - Len(a)]
        BY <3>3, <3>4, ConcatProperties, Zenon
      <3>6. ab[1] = "begin" /\ ab[2] = "write" /\ ab[3] = "write" /\ Len(ab) = 3
        BY <3>1, <3>3, <3>5
      <3>7. sql = ab \o c
        BY <2>1, <3>1, <3>4
      <3>8. /\ sql \in Seq(S) /\ Len(sql) = Len(ab) + Len(c)
            /\ \A i \in 1..(Len(ab) + Len(c)) : sql[i] = IF i <= Len(ab) THEN ab[i] ELSE c[i - Len(ab)]
        <4>1. PICK joined : joined = ab \o c
          OBVIOUS
        <4>2. /\ joined \in Seq(S) /\ Len(joined) = Len(ab) + Len(c)
              /\ \A i \in 1..(Len(ab) + Len(c)) : joined[i] = IF i <= Len(ab) THEN ab[i] ELSE c[i - Len(ab)]
          <5>1. ab \in Seq(S) /\ c \in Seq(S)
            BY <3>3, <3>5
          <5> QED
            BY <4>1, <5>1, ConcatProperties, Zenon
        <4> QED
          BY <3>7, <4>1, <4>2, Zenon
      <3>9. /\ sql[1] = "begin" /\ sql[2] = "write" /\ sql[3] = "write" /\ sql[4] = "commit"
            /\ Len(sql) = 4
        BY <3>1, <3>3, <3>6, <3>8
      <3>10. PICK all : all = <<"begin", "write", "write", "commit">>
        OBVIOUS
      <3>11. all \in Seq(S) /\ Len(all) = Len(sql) /\ \A i \in 1..Len(sql) : sql[i] = all[i]
        BY <3>2, <3>9, <3>10
      <3> QED
        BY <3>8, <3>10, <3>11, SeqEqual
    <2>3. PICK h : h = [Alone("read") EXCEPT !.sql = sql, !.rollback = TRUE]
      OBVIOUS
    <2>4. h \in ChangeHolds /\ ~h.optional
      BY <2>2, <2>3 DEF Alone, ChangeHolds, Holds, ChangeTexts
    <2> QED
      BY <2>1, <2>3, <2>4 DEF Transaction
  <1>5. \E h \in ChangeHolds : alter_table = <<h>>
    <2>1. PICK one : one = [Alone("read") EXCEPT !.sql = <<"begin", "write", "write", "commit">>]
      OBVIOUS
    <2>2. PICK h : h = [one EXCEPT !.optional = TRUE]
      OBVIOUS
    <2>3. h \in ChangeHolds
      BY <2>1, <2>2 DEF Alone, ChangeHolds, Holds, ChangeTexts
    <2>4. Optional(<<one>>) = <<h>>
      <3>1. PICK s : s = Optional(<<one>>)
        OBVIOUS
      <3>2. s = [i \in 1..1 |-> h]
        <4>1. PICK t : t = <<one>>
          OBVIOUS
        <4>2. DOMAIN t = 1..1 /\ \A i \in 1..1 : t[i] = one
          BY <4>1
        <4>3. s = [i \in DOMAIN t |-> [t[i] EXCEPT !.optional = TRUE]]
          BY <3>1, <4>1, Zenon DEF Optional
        <4> QED
          BY <2>2, <4>2, <4>3
      <3>3. s \in Seq({h}) /\ Len(s) = 1 /\ s[1] = h
        BY <3>2, Repeated
      <3>4. <<h>> \in Seq({h})
        OBVIOUS
      <3> QED
        BY <3>1, <3>3, <3>4, SeqEqual
    <2> QED
      BY <2>1, <2>3, <2>4 DEF alter_table, Batch
  <1>6. PICK rows, procedure : /\ rows = [Alone("write") EXCEPT !.late = "rows"]
                              /\ procedure = [Alone("write") EXCEPT !.late = "procedure"]
    OBVIOUS
  <1>7. rows \in ChangeHolds /\ ~rows.optional /\ procedure \in ChangeHolds /\ ~procedure.optional
    BY <1>6 DEF Alone, ChangeHolds, Holds, ChangeTexts
  <1>8. RowChange = <<rows>> /\ ProcedureCall = <<procedure>>
    BY <1>6 DEF RowChange, ProcedureCall
  <1> QED
    BY <1>1, <1>2, <1>3, <1>4, <1>5, <1>7, <1>8 DEF Write, run_vacuum

\* Every command of the catalog but one reads, or reads and then changes.
Fits(p) == Reader(p) \/ Writer(p)

LEMMA ReadersFit ==
    ASSUME NEW a \in Seq(ReadHolds), NEW b \in Seq(ReadHolds), NEW c \in Seq(ReadHolds)
    PROVE  /\ Fits(Connected(<<a>>)) /\ Fits(Connected(<<a, b>>))
           /\ Fits(Connected(<<a, b, c>>))
  BY ConnectedReads DEF Fits

LEMMA WritersFit ==
    ASSUME NEW reads \in Seq(ReadHolds)
    PROVE  /\ Fits(Writable(Write)) /\ Fits(Writable(reads \o Write))
           /\ Fits(Writable(reads \o RowChange)) /\ Fits(Writable(ProcedureCall))
           /\ Fits(Writable(run_vacuum)) /\ Fits(Writable(Batch(<<"write">>)))
           /\ Fits(Writable(reads \o Transaction(<<"write", "write">>)))
  BY ChangeKinds, Changes DEF Fits

LEMMA ExplorerFit ==
    \A name \in DOMAIN Explorer : Fits(Explorer[name])
  <1>1. /\ Fits(Connected(<<get_schemas>>))
        /\ Fits(Connected(<<get_tables, get_table_estimates>>))
        /\ Fits(Connected(<<get_functions, get_sequences, get_triggers>>))
    BY Plain, Composed, ReadsAdd, ReadersFit
  <1> QED
    BY <1>1 DEF Explorer

LEMMA SequenceValuesFit ==
    \A name \in DOMAIN SequenceValues : Fits(SequenceValues[name])
  <1>1. /\ Fits(Writable(seq_next_val))
        /\ Fits(Writable(seq_set_val))
    BY Plain, Composed, ReadsAdd, WritersFit DEF seq_next_val, seq_set_val
  <1> QED
    BY <1>1 DEF SequenceValues

LEMMA OverviewsFit ==
    \A name \in DOMAIN Overviews : Fits(Overviews[name])
  <1>1. /\ Fits(Connected(<<get_completion_data>>))
        /\ Fits(Connected(<<global_search>>))
        /\ Fits(Connected(<<get_dashboard, get_db_stats>>))
        /\ Fits(Connected(<<get_table_detail, get_table_ddl, get_column_stats>>))
    BY Plain, Composed, ReadsAdd, ReadersFit
  <1> QED
    BY <1>1 DEF Overviews

LEMMA RowsFit ==
    \A name \in DOMAIN Rows : Fits(Rows[name])
  <1>1. /\ Fits(Connected(<<get_table_detail \o browse_table_data_ordered>>))
    BY Plain, Composed, ReadsAdd, ReadersFit
  <1>2. /\ Fits(Writable(get_table_detail \o update_table_row_json))
        /\ Fits(Writable(get_table_detail \o insert_table_row_json))
        /\ Fits(Writable(get_table_detail \o delete_table_row_json))
    BY Plain, Composed, ReadsAdd, WritersFit DEF update_table_row_json, insert_table_row_json,
       delete_table_row_json
  <1> QED
    BY <1>1, <1>2 DEF Rows

LEMMA TablesFit ==
    \A name \in (DOMAIN Tables) \ {"alter_table"} : Fits(Tables[name])
  <1>1. /\ Fits(Connected(<<get_table_detail>>))
    BY Plain, Composed, ReadsAdd, ReadersFit
  <1>2. /\ Fits(Writable(create_schema))
        /\ Fits(Writable(create_table))
        /\ Fits(Writable(create_sequence))
    BY Plain, Composed, ReadsAdd, WritersFit DEF create_schema, create_table, create_sequence
  <1> QED
    BY <1>1, <1>2 DEF Tables

LEMMA DefinitionsFit ==
    \A name \in DOMAIN Definitions : Fits(Definitions[name])
  <1>1. Fits(Connected(<<get_index_ddl>>))
    BY Plain, ReadersFit
  <1>2. Fits(Writable(save_object_definition))
    BY Plain, WritersFit DEF save_object_definition
  <1>3. Fits(Writable(get_index_ddl \o replace_index_definition))
    <2>1. PICK reads : reads = get_index_ddl
      OBVIOUS
    <2>2. PICK h \in ChangeHolds : ~h.optional /\ Transaction(<<"write", "write">>) = <<h>>
      BY ChangeKinds
    <2>3. reads \in Seq(ReadHolds)
      BY <2>1, Plain
    <2>4. PICK S : S = ReadHolds \cup ChangeHolds
      OBVIOUS
    <2>5. PICK last : last = <<h>>
      OBVIOUS
    <2>6. reads \in Seq(S) /\ last \in Seq(S)
      BY <2>3, <2>4, <2>5
    <2>7. (reads \o reads) \o last = reads \o (reads \o last)
      <3>1. \A s, t, u \in Seq(S) : s \o (t \o u) = (s \o t) \o u
        BY ConcatAssociative
      <3> QED
        BY <2>6, <3>1, Zenon
    <2>8. Writer(Writable((reads \o reads) \o <<h>>))
      BY <2>2, <2>3, ReadsAdd, Changes
    <2> QED
      BY <2>1, <2>2, <2>5, <2>7, <2>8 DEF Fits, replace_index_definition
  <1> QED
    BY <1>1, <1>2, <1>3 DEF Definitions

LEMMA RoutinesFit ==
    \A name \in (DOMAIN Routines) \ {"validate_function_definition"} : Fits(Routines[name])
  <1>1. /\ Fits(Connected(<<get_function_ddl>>))
    BY Plain, Composed, ReadsAdd, ReadersFit
  <1>2. /\ Fits(Writable(create_trigger))
        /\ Fits(Writable(save_function))
        /\ Fits(Writable(call_routine))
        /\ Fits(Writable(drop_routine))
        /\ Fits(Writable(drop_trigger))
    BY Plain, Composed, ReadsAdd, WritersFit DEF create_trigger, save_function,
       call_routine, drop_routine, drop_trigger
  <1> QED
    BY <1>1, <1>2 DEF Routines

LEMMA MonitorsFit ==
    \A name \in DOMAIN Monitors : Fits(Monitors[name])
  <1>1. /\ Fits(Connected(<<get_erd_data>>))
        /\ Fits(Connected(<<get_activity, get_locks>>))
        /\ Fits(Connected(<<get_replication_status>>))
        /\ Fits(Connected(<<cancel_activity>>))
    BY Plain, Composed, ReadsAdd, ReadersFit
  <1> QED
    BY <1>1 DEF Monitors

LEMMA JobsFit ==
    \A name \in DOMAIN Jobs : Fits(Jobs[name])
  <1>1. /\ Fits(Connected(<<get_jobs>>))
        /\ Fits(Connected(<<get_job_runs>>))
    BY Plain, Composed, ReadsAdd, ReadersFit
  <1>2. /\ Fits(Writable(toggle_job))
        /\ Fits(Writable(create_job))
        /\ Fits(Writable(update_job))
        /\ Fits(Writable(delete_job))
    BY Plain, Composed, ReadsAdd, WritersFit DEF toggle_job, create_job, update_job,
       delete_job
  <1> QED
    BY <1>1, <1>2 DEF Jobs

LEMMA ExtensionsAndMaintenanceFit ==
    \A name \in DOMAIN ExtensionsAndMaintenance : Fits(ExtensionsAndMaintenance[name])
  <1>1. /\ Fits(Connected(<<get_extensions>>))
        /\ Fits(Connected(<<get_query_stats>>))
    BY Plain, Composed, ReadsAdd, ReadersFit
  <1>2. /\ Fits(Writable(ext_install))
        /\ Fits(Writable(ext_drop))
        /\ Fits(Writable(reset_query_stats))
        /\ Fits(Writable(run_vacuum))
    BY Plain, Composed, ReadsAdd, WritersFit DEF ext_install, ext_drop, reset_query_stats
  <1> QED
    BY <1>1, <1>2 DEF ExtensionsAndMaintenance

LEMMA RolesFit ==
    \A name \in DOMAIN Roles : Fits(Roles[name])
  <1>1. /\ Fits(Connected(<<get_roles>>))
    BY Plain, Composed, ReadsAdd, ReadersFit
  <1>2. /\ Fits(Writable(create_role))
        /\ Fits(Writable(update_role))
        /\ Fits(Writable(drop_role))
    BY Plain, Composed, ReadsAdd, WritersFit DEF create_role, update_role, drop_role
  <1> QED
    BY <1>1, <1>2 DEF Roles

LEMMA SchemaDiffsFit ==
    \A name \in DOMAIN SchemaDiffs : Fits(SchemaDiffs[name])
  <1>1. /\ Fits(Connected(<<Snapshot, Snapshot>>))
    BY Plain, Composed, ReadsAdd, ReadersFit
  <1> QED
    BY <1>1 DEF SchemaDiffs

LEMMA ImportsFit ==
    \A name \in DOMAIN Imports : Fits(Imports[name])
  <1>1. /\ Fits(Writable(get_import_target_columns \o Transaction(<<"write", "write">>)))
    BY Plain, Composed, ReadsAdd, WritersFit
  <1> QED
    BY <1>1 DEF Imports

\* The batch of alter_table may find nothing to change.
LEMMA AlterTableFits ==
    ASSUME NEW p, p = Tables["alter_table"], p = OwnCommands["alter_table"]
    PROVE  Writer(p)
  <1>1. p = Writable(get_table_detail \o alter_table)
    BY DEF Tables
  <1>2. PICK h \in ChangeHolds : alter_table = <<h>>
    BY ChangeKinds
  <1> QED
    BY <1>1, <1>2, Composed, Zenon DEF Writer

LEMMA Catalogued ==
    ASSUME NEW name \in DOMAIN OwnCommands
    PROVE  \/ Fits(OwnCommands[name])
           \/ /\ name = "validate_function_definition"
              /\ OwnCommands[name] = Connected(<<validate_function>>)
  <1>1. PICK g \in Groups : name \in DOMAIN g /\ OwnCommands[name] = g[name]
    <2>1. DOMAIN OwnCommands = UNION {DOMAIN group : group \in Groups}
      BY DEF OwnCommands
    <2>2. OwnCommands[name] = (CHOOSE group \in Groups : name \in DOMAIN group)[name]
      BY <2>1, Zenon DEF OwnCommands
    <2>3. \E group \in Groups : name \in DOMAIN group
      BY <2>1
    <2> QED
      BY <2>2, <2>3, Zenon
  <1>2. CASE g = Tables
    <2>1. CASE name = "alter_table"
      BY <1>1, <1>2, <2>1, AlterTableFits, Zenon DEF Fits
    <2>2. CASE name # "alter_table"
      BY <1>1, <1>2, <2>2, TablesFit, Zenon
    <2> QED
      BY <2>1, <2>2
  <1>3. CASE g = Routines
    <2>1. CASE name = "validate_function_definition"
      <3>1. Routines["validate_function_definition"] = Connected(<<validate_function>>)
        BY DEF Routines
      <3> QED
        BY <1>1, <1>3, <2>1, <3>1, Zenon
    <2>2. CASE name # "validate_function_definition"
      BY <1>1, <1>3, <2>2, RoutinesFit, Zenon
    <2> QED
      BY <2>1, <2>2
  <1>4. CASE g \in {Explorer, SequenceValues, Overviews, Rows, Definitions}
    BY <1>1, <1>4, ExplorerFit, SequenceValuesFit, OverviewsFit, RowsFit, DefinitionsFit, Zenon
  <1>5. CASE g \in {Monitors, Jobs, ExtensionsAndMaintenance, Roles}
    BY <1>1, <1>5, MonitorsFit, JobsFit, ExtensionsAndMaintenanceFit, RolesFit, Zenon
  <1>6. CASE g \in {SchemaDiffs, Imports}
    BY <1>1, <1>6, SchemaDiffsFit, ImportsFit, Zenon
  <1> QED
    BY <1>1, <1>2, <1>3, <1>4, <1>5, <1>6, Zenon DEF Groups

-----------------------------------------------------------------------------
\* A nonempty set of numbers has a least one.
LEMMA LeastOf ==
    ASSUME NEW S \in SUBSET Nat, S # {}
    PROVE  \E k \in S : \A j \in S : k <= j
  <1>1. PICK k \in S : \A j \in S : <<j, k>> \notin OpToRel(<, Nat)
    BY NatLessThanWellFounded, WFMin
  <1>2. \A j \in S : ~(j < k)
    BY <1>1 DEF OpToRel
  <1> QED
    BY <1>2

\* The session after each of the first m statements.
Ran(f, m, c, start, sql) ==
    f = [n \in 0..m |-> IF n = 0 THEN start ELSE Statement(c, f[n - 1], sql[n])]

\* There is such a function for every message: the recursive one in After.
LEMMA RanExists ==
    ASSUME NEW c, NEW start, NEW sql
    PROVE  \A m \in Nat : \E f : Ran(f, m, c, start, sql)
  <1> DEFINE S == {m \in Nat : ~\E f : Ran(f, m, c, start, sql)}
  <1>1. SUFFICES ASSUME S # {} PROVE FALSE
    OBVIOUS
  <1>2. PICK k \in S : \A j \in S : k <= j
    <2> HIDE DEF S
    <2>1. S \in SUBSET Nat
      BY DEF S
    <2> QED
      BY <1>1, <2>1, LeastOf
  <1>3. CASE k = 0
    <2> DEFINE f == [n \in 0..0 |-> start]
    <2>1. f = [n \in 0..0 |-> IF n = 0 THEN start ELSE Statement(c, f[n - 1], sql[n])]
      OBVIOUS
    <2> QED
      BY <1>2, <1>3, <2>1 DEF Ran
  <1>4. CASE k # 0
    <2>1. k - 1 \in Nat /\ k - 1 \notin S
      BY <1>2, <1>4
    <2>2. PICK g : Ran(g, k - 1, c, start, sql)
      BY <2>1
    <2> DEFINE f == [n \in 0..k |-> IF n = k THEN Statement(c, g[k - 1], sql[k]) ELSE g[n]]
    <2>3. \A n \in 0..(k - 1) : g[n] = IF n = 0 THEN start ELSE Statement(c, g[n - 1], sql[n])
      BY <2>2, Zenon DEF Ran
    <2>4. ASSUME NEW n \in 0..k
          PROVE  f[n] = IF n = 0 THEN start ELSE Statement(c, f[n - 1], sql[n])
      <3>1. CASE n = k
        BY <1>4, <2>1, <3>1
      <3>2. CASE n # k
        <4>1. n \in 0..(k - 1)
          BY <1>2, <3>2
        <4>2. f[n] = g[n]
          BY <3>2
        <4>3. n # 0 => n - 1 \in 0..k /\ n - 1 # k
          BY <4>1
        <4> QED
          BY <2>3, <4>1, <4>2, <4>3
      <3> QED
        BY <3>1, <3>2
    <2>5. f = [n \in 0..k |-> IF n = 0 THEN start ELSE Statement(c, f[n - 1], sql[n])]
      BY <2>4
    <2>6. Ran(f, k, c, start, sql)
      <3> HIDE DEF f
      <3> QED
        BY <2>5 DEF Ran
    <2> QED
      BY <1>2, <2>6
  <1> QED
    BY <1>3, <1>4

LEMMA AfterRuns ==
    ASSUME NEW c, NEW start, NEW sql, Len(sql) \in Nat
    PROVE  /\ After(c, start, sql)[0] = start
           /\ \A n \in 1..Len(sql) :
                 After(c, start, sql)[n] = Statement(c, After(c, start, sql)[n - 1], sql[n])
  <1>1. PICK f : Ran(f, Len(sql), c, start, sql)
    BY RanExists
  <1>2. PICK g : g = CHOOSE h : Ran(h, Len(sql), c, start, sql)
    OBVIOUS
  <1>3. After(c, start, sql) = g
    BY <1>2, Zenon DEF After, Ran
  <1>4. Ran(g, Len(sql), c, start, sql)
    BY <1>1, <1>2, Zenon
  <1>5. g[0] = start /\ \A n \in 1..Len(sql) : g[n] = Statement(c, g[n - 1], sql[n])
    <2>1. \A n \in 0..Len(sql) : g[n] = IF n = 0 THEN start ELSE Statement(c, g[n - 1], sql[n])
      BY <1>4, Zenon DEF Ran
    <2> QED
      BY <2>1
  <1> QED
    BY <1>3, <1>5

-----------------------------------------------------------------------------
\* A session between two holds, and one in which statements run.
Settled == [tx : {"none", "open", "failed"}, readonly : BOOLEAN, default : BOOLEAN, saved : BOOLEAN,
            pending : SUBSET Calls]
Busy == [tx : {"none", "open", "failed"}, readonly : BOOLEAN, default : BOOLEAN, saved : BOOLEAN,
         pending : SUBSET Calls, committed : SUBSET Calls, error : BOOLEAN]

LEMMA UndoneTyped == ASSUME NEW st \in Busy PROVE Undone(st) \in Busy
  BY DEF Busy, Undone

LEMMA FailedTyped == ASSUME NEW st \in Busy, NEW kind PROVE Failed(st, kind) \in Busy
  <1>1. CASE kind = "commit"
    <2>1. PICK ud \in Busy : ud = Undone(st)
      BY UndoneTyped
    <2> QED
      BY <1>1, <2>1 DEF Busy, Failed
  <1>2. CASE kind # "commit"
    BY <1>2 DEF Busy, Failed
  <1> QED
    BY <1>1, <1>2

LEMMA AcceptedTyped ==
    ASSUME NEW st \in Busy, NEW c \in Calls, NEW kind
    PROVE  Accepted(c, st, kind) \in Busy
  <1>1. CASE kind \in {"write", "vacuum"}
    BY <1>1, FailedTyped DEF Accepted, Busy
  <1>2. CASE kind \in {"begin", "begin_read_only"}
    BY <1>2 DEF Accepted, Busy
  <1>3. CASE kind \in {"commit", "rollback", "set_read_write", "turn_off"}
    BY <1>3, UndoneTyped DEF Accepted, Busy
  <1>4. CASE kind \notin {"write", "vacuum", "begin", "begin_read_only", "commit", "rollback",
                          "set_read_write", "turn_off"}
    BY <1>4 DEF Accepted
  <1> QED
    BY <1>1, <1>2, <1>3, <1>4

LEMMA StatementTyped ==
    ASSUME NEW st \in Busy, NEW c \in Calls, NEW kind
    PROVE  Statement(c, st, kind) \in Busy
  BY UndoneTyped, FailedTyped, AcceptedTyped DEF Statement

LEMMA EndTyped == ASSUME NEW st \in Busy PROVE EndOfMessage(st) \in Busy
  BY DEF Busy, EndOfMessage

LEMMA StartedTyped ==
    ASSUME NEW st \in Settled
    PROVE  Started(st) \in Busy
  BY DEF Settled, Busy, Started

\* An outcome is where the statements ended, after the end of the message and
\* perhaps the Drop of a Transaction.
Ended(st, rollback) ==
    IF rollback /\ EndOfMessage(st).error THEN Undone(EndOfMessage(st)) ELSE EndOfMessage(st)

Path(c, s, hold, st, f, n, raw) ==
    /\ n \in 0..Len(hold.sql)
    /\ f[0] = Started(session[s])
    /\ \A k \in 1..Len(hold.sql) : f[k] = Statement(c, f[k - 1], hold.sql[k])
    /\ \/ raw = f[n] /\ (n = Len(hold.sql) \/ f[n].error)
       \/ n < Len(hold.sql) /\ ~f[n].error /\ raw = Failed(f[n], hold.sql[n + 1])
    /\ st = Ended(raw, hold.rollback)

LEMMA OutcomeOf ==
    ASSUME NEW c, NEW s, NEW hold \in Holds(AllTexts), NEW st \in Outcomes(c, s, hold)
    PROVE  \E f, n, raw : Path(c, s, hold, st, f, n, raw)
  <1>1. PICK f : f = After(c, Started(session[s]), hold.sql)
    OBVIOUS
  <1>2. Len(hold.sql) \in Nat
    BY TextLengths DEF Holds
  <1>3. /\ f[0] = Started(session[s])
        /\ \A k \in 1..Len(hold.sql) : f[k] = Statement(c, f[k - 1], hold.sql[k])
    BY <1>1, <1>2, AfterRuns
  <1> DEFINE Cut(n) == IF f[n].error THEN f[n] ELSE Failed(f[n], hold.sql[n + 1])
  <1>4. PICK raw \in {f[Len(hold.sql)]} \cup {Cut(n) : n \in 0..Len(hold.sql) - 1} :
           st = Ended(raw, hold.rollback)
    BY <1>1, Zenon DEF Outcomes, Ended
  <1>5. CASE raw = f[Len(hold.sql)]
    <2>1. Len(hold.sql) \in 0..Len(hold.sql)
      BY <1>2
    <2>2. Path(c, s, hold, st, f, Len(hold.sql), raw)
      BY <1>3, <1>4, <1>5, <2>1 DEF Path
    <2> QED
      BY <2>2
  <1>6. ASSUME NEW n \in 0..Len(hold.sql) - 1, raw = Cut(n)
        PROVE  Path(c, s, hold, st, f, n, raw)
    <2>1. n \in 0..Len(hold.sql) /\ n < Len(hold.sql)
      BY <1>2
    <2>2. raw = IF f[n].error THEN f[n] ELSE Failed(f[n], hold.sql[n + 1])
      BY <1>6
    <2> QED
      BY <1>3, <1>4, <2>1, <2>2 DEF Path
  <1> QED
    BY <1>4, <1>5, <1>6

\* What a session keeps when it is given back.
LEMMA Kept ==
    ASSUME read_only \in BOOLEAN, NEW st \in Busy, NEW r, r = [f \in DOMAIN Fresh |-> st[f]]
    PROVE  /\ r \in Settled /\ r.tx = st.tx /\ r.readonly = st.readonly /\ r.default = st.default
           /\ r.saved = st.saved /\ r.pending = st.pending
  <1>1. DOMAIN Fresh = {"tx", "readonly", "default", "saved", "pending"}
    BY DEF Fresh
  <1>2. r = [tx |-> st.tx, readonly |-> st.readonly, default |-> st.default, saved |-> st.saved,
             pending |-> st.pending]
    BY <1>1
  <1> QED
    BY <1>2 DEF Settled, Busy

-----------------------------------------------------------------------------
\* A session of a read-only driver between two statements, and a message that
\* neither asks for a read-write session nor turns the setting off half-way.
Calm(st) == st.pending = {} /\ (st.tx = "open" => st.readonly) /\ (st.tx # "none" => st.saved)
Harmless(sql) ==
    \A i \in 1..Len(sql) : sql[i] \notin {"vacuum", "set_read_write"} /\ (sql[i] = "turn_off" => i = Len(sql))

LEMMA EndsCalm ==
    ASSUME NEW st \in Busy, Calm(st), st.committed = {}, NEW kind
    PROVE  /\ Calm(Undone(st)) /\ Undone(st).committed = {}
           /\ Calm(Failed(st, kind)) /\ Failed(st, kind).committed = {}
           /\ Calm(EndOfMessage(st)) /\ EndOfMessage(st).committed = {}
           /\ st.default => Undone(st).default /\ Failed(st, kind).default
  <1>1. PICK ud \in Busy : ud = Undone(st)
    BY UndoneTyped
  <1>2. Calm(ud) /\ ud.committed = {} /\ (st.default => ud.default)
    BY <1>1 DEF Calm, Undone, Busy
  <1>3. Calm(Failed(st, kind)) /\ Failed(st, kind).committed = {} /\ (st.default => Failed(st, kind).default)
    BY <1>1, <1>2 DEF Calm, Failed, Busy
  <1>4. Calm(EndOfMessage(st)) /\ EndOfMessage(st).committed = {}
    BY DEF Calm, EndOfMessage, Busy
  <1> QED
    BY <1>1, <1>2, <1>3, <1>4

LEMMA StatementCalm ==
    ASSUME NEW st \in Busy, Calm(st), st.committed = {}, st.default, NEW c,
           NEW kind, kind \notin {"vacuum", "set_read_write"}
    PROVE  /\ Calm(Statement(c, st, kind)) /\ Statement(c, st, kind).committed = {}
           /\ kind # "turn_off" => Statement(c, st, kind).default
  <1>1. PICK ac : ac = Accepted(c, st, kind)
    OBVIOUS
  <1>2. Calm(ac) /\ ac.committed = {} /\ (kind # "turn_off" => ac.default)
    <2>1. CASE kind = "write"
      <3>1. ~MayWrite(st)
        BY DEF MayWrite, Calm
      <3> QED
        BY <1>1, <2>1, <3>1, EndsCalm DEF Accepted
    <2>2. CASE kind \in {"begin", "begin_read_only"}
      BY <1>1, <2>2 DEF Accepted, Busy, Calm
    <2>3. CASE kind \in {"commit", "turn_off"}
      BY <1>1, <2>3 DEF Accepted, Busy, Calm
    <2>4. CASE kind = "rollback"
      BY <1>1, <2>4, EndsCalm DEF Accepted
    <2>5. CASE kind \notin {"write", "begin", "begin_read_only", "commit", "rollback", "turn_off"}
      BY <1>1, <2>5 DEF Accepted
    <2> QED
      BY <2>1, <2>2, <2>3, <2>4, <2>5
  <1> QED
    BY <1>1, <1>2, EndsCalm DEF Statement

LEMMA OutcomeCalm ==
    ASSUME NEW c \in Calls, NEW s, session[s] \in Settled, Calm(session[s]), session[s].default,
           NEW hold \in Holds(AllTexts), Harmless(hold.sql), NEW st \in Outcomes(c, s, hold)
    PROVE  st \in Busy /\ Calm(st) /\ st.committed = {}
  <1>0. PICK f, n, raw : Path(c, s, hold, st, f, n, raw)
    BY OutcomeOf
  <1>1. /\ n \in 0..Len(hold.sql)
        /\ f[0] = Started(session[s])
        /\ \A k \in 1..Len(hold.sql) : f[k] = Statement(c, f[k - 1], hold.sql[k])
        /\ raw = f[n] \/ raw = Failed(f[n], hold.sql[n + 1])
        /\ st = Ended(raw, hold.rollback)
    BY <1>0 DEF Path
  <1> DEFINE Good(k) == /\ f[k] \in Busy /\ Calm(f[k]) /\ f[k].committed = {}
                        /\ k < Len(hold.sql) => f[k].default
             S == {k \in 0..Len(hold.sql) : ~Good(k)}
  <1>2. Len(hold.sql) \in Nat
    BY TextLengths DEF Holds
  <1>3. S = {}
    <2>1. SUFFICES ASSUME S # {} PROVE FALSE
      OBVIOUS
    <2>2. PICK k \in S : \A j \in S : k <= j
      <3> HIDE DEF S
      <3>1. S \in SUBSET Nat
        BY <1>2 DEF S
      <3> QED
        BY <2>1, <3>1, LeastOf
    <2>3. k \in 0..Len(hold.sql) /\ ~Good(k)
      BY <2>2
    <2>4. CASE k = 0
      <3>1. Started(session[s]) \in Busy
        BY StartedTyped
      <3>2. Calm(Started(session[s])) /\ Started(session[s]).committed = {} /\ Started(session[s]).default
        BY DEF Started, Calm
      <3> QED
        BY <1>1, <2>3, <2>4, <3>1, <3>2
    <2>5. CASE k # 0
      <3>1. k - 1 \in 0..Len(hold.sql) /\ k - 1 < Len(hold.sql) /\ k \in 1..Len(hold.sql)
        BY <1>2, <2>3, <2>5
      <3>2. Good(k - 1)
        BY <1>2, <2>2, <3>1
      <3>3. hold.sql[k] \notin {"vacuum", "set_read_write"} /\ (hold.sql[k] = "turn_off" => k = Len(hold.sql))
        BY <3>1 DEF Harmless
      <3>4. f[k] = Statement(c, f[k - 1], hold.sql[k])
        BY <1>1, <3>1
      <3>5. f[k] \in Busy
        BY <3>1, <3>2, <3>4, StatementTyped
      <3>6. /\ Calm(f[k]) /\ f[k].committed = {}
            /\ hold.sql[k] # "turn_off" => f[k].default
        BY <3>1, <3>2, <3>3, <3>4, StatementCalm
      <3> QED
        BY <2>3, <3>1, <3>3, <3>5, <3>6
    <2> QED
      BY <2>4, <2>5
  <1>4. f[n] \in Busy /\ Calm(f[n]) /\ f[n].committed = {}
    BY <1>1, <1>3
  <1>5. raw \in Busy /\ Calm(raw) /\ raw.committed = {}
    BY <1>1, <1>4, EndsCalm, FailedTyped
  <1>6. PICK ended \in Busy : ended = EndOfMessage(raw) /\ Calm(ended) /\ ended.committed = {}
    BY <1>5, EndsCalm, EndTyped
  <1> QED
    BY <1>1, <1>6, EndsCalm, UndoneTyped DEF Ended

-----------------------------------------------------------------------------
\* What every program is made of.
Formed(p) ==
    /\ DOMAIN p = {"driver", "branches"}
    /\ p.branches \in Seq(Seq(Holds(AllTexts)))

LEMMA TextsAreTexts ==
    ReadHolds \subseteq Holds(AllTexts) /\ ChangeHolds \subseteq Holds(AllTexts)
  <1>1. ReadTexts \subseteq AllTexts /\ ChangeTexts \subseteq AllTexts
    BY DEF AllTexts
  <1>2. Holds(ReadTexts) \subseteq Holds(AllTexts) /\ Holds(ChangeTexts) \subseteq Holds(AllTexts)
    BY <1>1 DEF Holds
  <1> QED
    BY <1>2 DEF ReadHolds, ChangeHolds

LEMMA ReaderFormed ==
    ASSUME NEW p, Reader(p)
    PROVE  Formed(p) /\ p.driver = "connected"
  <1>1. PICK branches \in Seq(Seq(ReadHolds)) : p = Connected(branches)
    BY DEF Reader
  <1>2. Seq(ReadHolds) \subseteq Seq(Holds(AllTexts))
    BY TextsAreTexts, SeqMonotonic, Zenon
  <1>3. branches \in Seq(Seq(Holds(AllTexts)))
    BY <1>2, SeqMonotonic, Zenon
  <1> QED
    BY <1>1, <1>3 DEF Connected, Formed

LEMMA WriterFormed ==
    ASSUME NEW p, Writer(p)
    PROVE  Formed(p) /\ p.driver = "writable"
  <1>1. PICK reads \in Seq(ReadHolds), h \in ChangeHolds : p = Writable(reads \o <<h>>)
    BY DEF Writer
  <1>2. reads \in Seq(Holds(AllTexts))
    BY TextsAreTexts, SeqMonotonic, Zenon
  <1>3. PICK last : last = <<h>>
    OBVIOUS
  <1>4. last \in Seq(Holds(AllTexts))
    BY <1>3, TextsAreTexts
  <1>5. reads \o last \in Seq(Holds(AllTexts))
    BY <1>2, <1>4, ConcatProperties, Zenon
  <1>6. PICK holds \in Seq(Holds(AllTexts)) : holds = reads \o <<h>>
    BY <1>3, <1>5
  <1>7. p = Writable(holds)
    BY <1>1, <1>6, Zenon
  <1>8. PICK S : S = Seq(Holds(AllTexts))
    OBVIOUS
  <1>9. <<holds>> \in Seq(S)
    BY <1>8
  <1> QED
    BY <1>7, <1>8, <1>9 DEF Writable, Formed

LEMMA EditorFormed ==
    ASSUME NEW sql \in Scripts
    PROVE  /\ Formed(Editor(sql)) /\ Editor(sql).driver = "connected"
           /\ Len(Editor(sql).branches) = 1 /\ Len(Editor(sql).branches[1]) = 1
           /\ Editor(sql).branches[1][1].sql = sql
  <1>1. PICK h : h = [Alone("read") EXCEPT !.sql = sql]
    OBVIOUS
  <1>2. PICK T : T = Holds(AllTexts)
    OBVIOUS
  <1>3. h \in T /\ h.sql = sql
    BY <1>1, <1>2 DEF Alone, Holds, AllTexts
  <1>4. PICK holds : holds = <<h>>
    OBVIOUS
  <1>5. holds \in Seq(T) /\ Len(holds) = 1 /\ holds[1] = h
    BY <1>3, <1>4
  <1>6. PICK S : S = Seq(T)
    OBVIOUS
  <1>7. PICK branches : branches = <<holds>>
    OBVIOUS
  <1>8. branches \in Seq(S) /\ Len(branches) = 1 /\ branches[1] = holds
    BY <1>5, <1>6, <1>7
  <1>9. Editor(sql) = [driver |-> "connected", branches |-> branches]
    BY <1>1, <1>4, <1>7, Zenon DEF Editor, Connected, Batch
  <1> QED
    BY <1>2, <1>3, <1>5, <1>6, <1>8, <1>9 DEF Formed

LEMMA ValidateFormed ==
    LET p == Connected(<<validate_function>>) IN
    /\ Formed(p) /\ p.driver = "connected"
    /\ \A b \in 1..Len(p.branches) : \A k \in 1..Len(p.branches[b]) :
          p.branches[b][k].sql \in {<<"begin">>, <<"write">>, <<"rollback">>}
    /\ Len(p.branches) = 1 /\ Len(p.branches[1]) = 3
    /\ p.branches[1][1].sql = <<"begin">> /\ ~p.branches[1][2].stops /\ ~p.branches[1][3].stops
  <1>1. PICK one, two, three :
           /\ one = Alone("begin")
           /\ two = [Alone("write") EXCEPT !.stops = FALSE]
           /\ three = [Alone("rollback") EXCEPT !.stops = FALSE]
    OBVIOUS
  <1>2. PICK T : T = Holds(AllTexts)
    OBVIOUS
  <1>3. /\ one \in T /\ two \in T /\ three \in T
        /\ one.sql = <<"begin">> /\ two.sql = <<"write">> /\ three.sql = <<"rollback">>
        /\ ~two.stops /\ ~three.stops
    <2>1. PICK begin, write, rollback :
             begin = <<"begin">> /\ write = <<"write">> /\ rollback = <<"rollback">>
      OBVIOUS
    <2>2. begin \in AllTexts /\ write \in AllTexts /\ rollback \in AllTexts
      BY <2>1 DEF AllTexts, ChangeTexts
    <2>3. /\ one \in Holds(AllTexts) /\ two \in Holds(AllTexts) /\ three \in Holds(AllTexts)
          /\ one.sql = begin /\ two.sql = write /\ three.sql = rollback
          /\ ~two.stops /\ ~three.stops
      BY <1>1, <2>1, <2>2 DEF Alone, Holds
    <2> QED
      BY <1>2, <2>1, <2>3
  <1>4. PICK holds : holds = <<one, two, three>>
    OBVIOUS
  <1>5. /\ holds \in Seq(T) /\ Len(holds) = 3
        /\ holds[1] = one /\ holds[2] = two /\ holds[3] = three
    BY <1>3, <1>4
  <1>6. PICK S : S = Seq(T)
    OBVIOUS
  <1>7. PICK branches : branches = <<holds>>
    OBVIOUS
  <1>8. branches \in Seq(S) /\ Len(branches) = 1 /\ branches[1] = holds
    BY <1>5, <1>6, <1>7
  <1>9. validate_function = holds
    BY <1>1, <1>4 DEF validate_function
  <1>10. PICK p : p = Connected(<<validate_function>>) /\ p = [driver |-> "connected", branches |-> branches]
    BY <1>7, <1>9, Zenon DEF Connected
  <1>11. ASSUME NEW k \in 1..3
         PROVE  holds[k].sql \in {<<"begin">>, <<"write">>, <<"rollback">>}
    <2>1. k = 1 \/ k = 2 \/ k = 3
      OBVIOUS
    <2> QED
      BY <1>3, <1>5, <2>1, Zenon
  <1>12. Formed(p) /\ p.driver = "connected"
    BY <1>2, <1>6, <1>8, <1>10 DEF Formed
  <1>13. \A b \in 1..Len(p.branches) : \A k \in 1..Len(p.branches[b]) :
            p.branches[b][k].sql \in {<<"begin">>, <<"write">>, <<"rollback">>}
    BY <1>5, <1>8, <1>10, <1>11
  <1>14. /\ Len(p.branches) = 1 /\ Len(p.branches[1]) = 3
         /\ p.branches[1][1].sql = <<"begin">> /\ ~p.branches[1][2].stops /\ ~p.branches[1][3].stops
    BY <1>3, <1>5, <1>8, <1>10
  <1> QED
    BY <1>10, <1>12, <1>13, <1>14, Zenon

LEMMA ProgramKinds ==
    ASSUME NEW p \in Programs
    PROVE  \/ Reader(p) \/ Writer(p)
           \/ p = Connected(<<validate_function>>) /\ "validate_function_definition" \in Offered
           \/ \E sql \in Scripts : p = Editor(sql)
  <1>1. CASE \E name \in Offered : p = OwnCommands[name]
    BY <1>1, PoolAssumption, Catalogued, Zenon DEF Fits, PoolAssumption
  <1> QED
    BY <1>1 DEF Programs

LEMMA ProgramsFormed ==
    ASSUME NEW p \in Programs
    PROVE  Formed(p)
  BY ProgramKinds, ReaderFormed, WriterFormed, ValidateFormed, EditorFormed, Zenon

LEMMA OutcomeTyped ==
    ASSUME NEW c \in Calls, NEW s, session[s] \in Settled,
           NEW hold \in Holds(AllTexts), NEW st \in Outcomes(c, s, hold)
    PROVE  st \in Busy
  <1>1. PICK f, n, raw : Path(c, s, hold, st, f, n, raw)
    BY OutcomeOf
  <1>2. /\ n \in 0..Len(hold.sql)
        /\ f[0] = Started(session[s])
        /\ \A k \in 1..Len(hold.sql) : f[k] = Statement(c, f[k - 1], hold.sql[k])
        /\ raw = f[n] \/ raw = Failed(f[n], hold.sql[n + 1])
        /\ st = Ended(raw, hold.rollback)
    BY <1>1 DEF Path
  <1>3. Len(hold.sql) \in Nat
    BY TextLengths DEF Holds
  <1> DEFINE S == {k \in 0..Len(hold.sql) : f[k] \notin Busy}
  <1>4. S = {}
    <2>1. SUFFICES ASSUME S # {} PROVE FALSE
      OBVIOUS
    <2>2. PICK k \in S : \A j \in S : k <= j
      <3> HIDE DEF S
      <3>1. S \in SUBSET Nat
        BY <1>3 DEF S
      <3> QED
        BY <2>1, <3>1, LeastOf
    <2>3. CASE k = 0
      BY <1>2, <2>2, <2>3, StartedTyped
    <2>4. CASE k # 0
      <3>1. k - 1 \in 0..Len(hold.sql) /\ k \in 1..Len(hold.sql) /\ k - 1 < k
        BY <1>3, <2>2, <2>4
      <3>2. f[k - 1] \in Busy
        BY <2>2, <3>1
      <3> QED
        BY <1>2, <2>2, <3>1, <3>2, StatementTyped
    <2> QED
      BY <2>3, <2>4
  <1>5. raw \in Busy
    BY <1>2, <1>4, FailedTyped
  <1>6. PICK over \in Busy : over = EndOfMessage(raw)
    BY <1>5, EndTyped
  <1> QED
    BY <1>2, <1>6, UndoneTyped DEF Ended

-----------------------------------------------------------------------------
\* A call stands in each of its branches at a hold or behind the last.
CallTyped(r) ==
    /\ DOMAIN r = {"program", "at", "held", "failed", "lost", "result"}
    /\ Formed(r.program)
    /\ r.at \in [1..Len(r.program.branches) -> Nat \ {0}]
    /\ r.held \in [1..Len(r.program.branches) -> 0..MaxSessions]
    /\ \A b \in 1..Len(r.program.branches) :
          r.held[b] # 0 => r.at[b] <= Len(r.program.branches[b])
    /\ r.failed \in BOOLEAN /\ r.lost \in BOOLEAN
    /\ r.result \in {"new", "running", "read_only", "ok", "error"}

PoolTypes ==
    /\ read_only \in BOOLEAN
    /\ session \in [1..MaxSessions -> Settled]
    /\ idle \in Seq(1..MaxSessions)
    /\ open \subseteq 1..MaxSessions
    /\ db \subseteq Calls
    /\ DOMAIN call = Calls /\ \A c \in Calls : CallTyped(call[c])

\* A session is in one place: free, idle or held by one branch.
Owned ==
    /\ \A i \in 1..Len(idle) : idle[i] \in open
    /\ \A i, j \in 1..Len(idle) : idle[i] = idle[j] => i = j
    /\ \A c \in Calls : \A b \in Branches(c) : call[c].held[b] # 0 =>
          /\ call[c].held[b] \in open
          /\ \A i \in 1..Len(idle) : idle[i] # call[c].held[b]
    /\ \A c, d \in Calls : \A a \in Branches(c), b \in Branches(d) :
          call[c].held[a] # 0 /\ call[c].held[a] = call[d].held[b] => c = d /\ a = b

\* A step of c leaves the other calls alone.
Only(c) == DOMAIN call' = Calls /\ \A d \in Calls \ {c} : call'[d] = call[d]

LEMMA HoldTyped ==
    ASSUME NEW r, CallTyped(r), NEW b \in 1..Len(r.program.branches), r.at[b] <= Len(r.program.branches[b])
    PROVE  r.program.branches[b][r.at[b]] \in Holds(AllTexts)
  <1>1. PICK T : T = Holds(AllTexts)
    OBVIOUS
  <1>2. r.program.branches \in Seq(Seq(T)) /\ r.at[b] \in Nat \ {0}
    BY <1>1 DEF CallTyped, Formed
  <1>3. r.program.branches[b] \in Seq(T)
    BY <1>2
  <1>4. r.program.branches[b][r.at[b]] \in T
    BY <1>2, <1>3
  <1> QED
    BY <1>1, <1>4

LEMMA BranchLength ==
    ASSUME NEW r, CallTyped(r), NEW b \in 1..Len(r.program.branches)
    PROVE  Len(r.program.branches[b]) \in Nat
  <1>1. PICK T : T = Holds(AllTexts)
    OBVIOUS
  <1>2. r.program.branches \in Seq(Seq(T))
    BY <1>1 DEF CallTyped, Formed
  <1>3. r.program.branches[b] \in Seq(T)
    BY <1>2
  <1> QED
    BY <1>3

\* What a session in somebody's hands changes in the call.
LEMMA HandedOut ==
    ASSUME PoolTypes, NEW c \in Calls, NEW b \in Branches(c), NEW s \in 1..MaxSessions,
           Waiting(c, b), call' = [call EXCEPT ![c].held[b] = s]
    PROVE  /\ Only(c) /\ CallTyped(call'[c])
           /\ call'[c].held = [call[c].held EXCEPT ![b] = s]
           /\ call'[c].program = call[c].program /\ call'[c].at = call[c].at
           /\ call'[c].failed = call[c].failed /\ call'[c].lost = call[c].lost
           /\ call'[c].result = call[c].result
  <1>1. PICK r : r = call[c]
    OBVIOUS
  <1>2. PICK q : q = [r EXCEPT !.held = [r.held EXCEPT ![b] = s]]
    OBVIOUS
  <1>3. call' = [call EXCEPT ![c] = q]
    BY <1>1, <1>2
  <1>4. CallTyped(r) /\ DOMAIN call = Calls
    BY <1>1 DEF PoolTypes
  <1>5. Only(c) /\ call'[c] = q
    BY <1>3, <1>4 DEF Only
  <1>6. /\ q.held = [r.held EXCEPT ![b] = s] /\ q.program = r.program /\ q.at = r.at
        /\ q.failed = r.failed /\ q.lost = r.lost /\ q.result = r.result /\ DOMAIN q = DOMAIN r
    BY <1>2, <1>4 DEF CallTyped
  <1>7. b \in 1..Len(r.program.branches) /\ r.at[b] <= Len(r.program.branches[b])
    BY <1>1 DEF Waiting, Branches
  <1>8. CallTyped(q)
    <2>1. q.held \in [1..Len(q.program.branches) -> 0..MaxSessions]
      BY <1>4, <1>6, <1>7 DEF CallTyped
    <2>2. ASSUME NEW a \in 1..Len(q.program.branches), q.held[a] # 0
          PROVE  q.at[a] <= Len(q.program.branches[a])
      BY <1>4, <1>6, <1>7, <2>2 DEF CallTyped
    <2> QED
      BY <1>4, <1>6, <2>1, <2>2 DEF CallTyped
  <1> QED
    BY <1>1, <1>5, <1>6, <1>8

\* What the end of a hold changes in the call.
LEMMA MovedOn ==
    ASSUME PoolTypes, NEW c \in Calls, NEW b \in Branches(c), NEW error \in BOOLEAN,
           NEW lost \in BOOLEAN, call[c].at[b] <= Len(call[c].program.branches[b]),
           call' = Advanced(c, b, error, lost)
    PROVE  /\ Only(c) /\ CallTyped(call'[c]) /\ Hold(c, b) \in Holds(AllTexts)
           /\ call'[c].held = [call[c].held EXCEPT ![b] = 0]
           /\ call'[c].program = call[c].program /\ call'[c].result = call[c].result
           /\ call'[c].failed = (call[c].failed \/ (error /\ Hold(c, b).stops))
           /\ call'[c].lost = (call[c].lost \/ lost)
           /\ call'[c].at = [call[c].at EXCEPT ![b] = IF error /\ Hold(c, b).stops
                                                       THEN Len(call[c].program.branches[b]) + 1
                                                       ELSE call[c].at[b] + 1]
  <1>1. PICK r : r = call[c]
    OBVIOUS
  <1>2. CallTyped(r) /\ DOMAIN call = Calls /\ b \in 1..Len(r.program.branches)
    BY <1>1 DEF PoolTypes, Branches
  <1>3. PICK hold \in Holds(AllTexts) : hold = Hold(c, b)
    BY <1>1, <1>2, HoldTyped DEF Hold
  <1>4. PICK stop \in BOOLEAN : stop = (error /\ hold.stops)
    OBVIOUS
  <1>5. PICK next : next = IF stop THEN Len(r.program.branches[b]) + 1 ELSE r.at[b] + 1
    OBVIOUS
  <1>6. PICK q : q = [r EXCEPT !.held = [r.held EXCEPT ![b] = 0], !.failed = r.failed \/ stop,
                               !.lost = r.lost \/ lost, !.at = [r.at EXCEPT ![b] = next]]
    OBVIOUS
  <1>7. call' = [call EXCEPT ![c] = q]
    BY <1>1, <1>2, <1>3, <1>4, <1>5, <1>6 DEF Advanced, CallTyped
  <1>8. Only(c) /\ call'[c] = q
    BY <1>2, <1>7 DEF Only
  <1>9. /\ q.held = [r.held EXCEPT ![b] = 0] /\ q.program = r.program /\ q.at = [r.at EXCEPT ![b] = next]
        /\ q.failed = (r.failed \/ stop) /\ q.lost = (r.lost \/ lost) /\ q.result = r.result /\ DOMAIN q = DOMAIN r
    BY <1>2, <1>6 DEF CallTyped
  <1>10. next \in Nat \ {0}
    <2>1. Len(r.program.branches[b]) \in Nat
      BY <1>2, BranchLength
    <2>2. r.at[b] \in Nat \ {0}
      BY <1>2 DEF CallTyped
    <2> QED
      BY <1>5, <2>1, <2>2
  <1>11. CallTyped(q)
    <2>1. /\ q.held \in [1..Len(q.program.branches) -> 0..MaxSessions]
          /\ q.at \in [1..Len(q.program.branches) -> Nat \ {0}]
      BY <1>2, <1>9, <1>10, PoolAssumption DEF CallTyped, PoolAssumption
    <2>2. ASSUME NEW a \in 1..Len(q.program.branches), q.held[a] # 0
          PROVE  q.at[a] <= Len(q.program.branches[a])
      BY <1>2, <1>9, <2>2 DEF CallTyped
    <2> QED
      BY <1>2, <1>9, <2>1, <2>2 DEF CallTyped
  <1> QED
    BY <1>1, <1>3, <1>4, <1>5, <1>8, <1>9, <1>11

-----------------------------------------------------------------------------
LEMMA FreshSettled == read_only \in BOOLEAN => Fresh \in Settled
  BY DEF Fresh, Settled

LEMMA PoolInitTypes == PoolInit => PoolTypes /\ Owned
  <1> SUFFICES ASSUME PoolInit PROVE PoolTypes /\ Owned
    OBVIOUS
  <1>1. /\ read_only \in BOOLEAN /\ 1 \in 1..MaxSessions /\ open \subseteq 1..MaxSessions /\ db \subseteq Calls
    BY PoolAssumption DEF PoolInit, PoolAssumption
  <1>2. session \in [1..MaxSessions -> Settled]
    BY <1>1, FreshSettled DEF PoolInit
  <1>3. idle \in Seq(1..MaxSessions) /\ Len(idle) = 1 /\ idle[1] = 1 /\ open = {1}
    BY <1>1 DEF PoolInit
  <1>4. PICK none : none = <<>>
    OBVIOUS
  <1>5. /\ none \in [1..0 -> Nat \ {0}] /\ none \in [1..0 -> 0..MaxSessions] /\ Len(none) = 0
        /\ none \in Seq(Seq(Holds(AllTexts)))
    BY <1>4, EmptySeq
  <1>6. PICK r : r = [program |-> Connected(none), at |-> none, held |-> none, failed |-> FALSE,
                       lost |-> FALSE, result |-> "new"]
    OBVIOUS
  <1>7. CallTyped(r) /\ Len(r.program.branches) = 0
    <2>1. PICK p : p = Connected(none)
      OBVIOUS
    <2>2. DOMAIN p = {"driver", "branches"} /\ p.branches = none
      BY <2>1 DEF Connected
    <2>3. /\ DOMAIN r = {"program", "at", "held", "failed", "lost", "result"} /\ r.program = p
          /\ r.at = none /\ r.held = none /\ r.failed = FALSE /\ r.lost = FALSE /\ r.result = "new"
      BY <1>6, <2>1
    <2>4. Formed(p)
      BY <1>5, <2>2 DEF Formed
    <2>5. Len(r.program.branches) = 0 /\ Formed(r.program)
      BY <1>5, <2>2, <2>3, <2>4
    <2>6. /\ r.at \in [1..Len(r.program.branches) -> Nat \ {0}]
          /\ r.held \in [1..Len(r.program.branches) -> 0..MaxSessions]
      BY <1>5, <2>3, <2>5
    <2>7. \A b \in 1..Len(r.program.branches) :
             r.held[b] # 0 => r.at[b] <= Len(r.program.branches[b])
      BY <2>5
    <2> QED
      BY <2>3, <2>5, <2>6, <2>7 DEF CallTyped
  <1>8. call = [c \in Calls |-> r]
    BY <1>4, <1>6 DEF PoolInit
  <1>9. PoolTypes
    BY <1>1, <1>2, <1>3, <1>7, <1>8 DEF PoolTypes
  <1>10. \A c \in Calls : Branches(c) = {}
    BY <1>7, <1>8 DEF Branches
  <1>11. Owned
    BY <1>3, <1>10 DEF Owned
  <1> QED
    BY <1>9, <1>11

\* A call that starts holds nothing.
LEMMA StartTyped ==
    ASSUME PoolTypes, NEW c \in Calls, StartCall(c)
    PROVE  /\ Only(c) /\ CallTyped(call'[c])
           /\ call'[c].program \in Programs
           /\ \A b \in 1..Len(call'[c].program.branches) : call'[c].held[b] = 0 /\ call'[c].at[b] = 1
           /\ ~call'[c].failed /\ ~call'[c].lost
           /\ call'[c].result = IF Refused(call'[c].program) THEN "read_only" ELSE "running"
           /\ UNCHANGED <<read_only, session, idle, open, db>>
  <1>1. PICK program \in Programs :
           call' = [call EXCEPT ![c] =
                     [program |-> program,
                      at |-> [b \in DOMAIN program.branches |-> 1],
                      held |-> [b \in DOMAIN program.branches |-> 0],
                      failed |-> FALSE, lost |-> FALSE,
                      result |-> IF Refused(program) THEN "read_only" ELSE "running"]]
    BY DEF StartCall
  <1>2. Formed(program)
    BY ProgramsFormed
  <1>3. DOMAIN program.branches = 1..Len(program.branches)
    BY <1>2 DEF Formed
  <1>4. PICK q : q = [program |-> program,
                      at |-> [b \in 1..Len(program.branches) |-> 1],
                      held |-> [b \in 1..Len(program.branches) |-> 0],
                      failed |-> FALSE, lost |-> FALSE,
                      result |-> IF Refused(program) THEN "read_only" ELSE "running"]
    OBVIOUS
  <1>5. call' = [call EXCEPT ![c] = q] /\ DOMAIN call = Calls
    BY <1>1, <1>3, <1>4 DEF PoolTypes
  <1>6. Only(c) /\ call'[c] = q
    BY <1>5 DEF Only
  <1>7. MaxSessions \in Nat
    BY PoolAssumption DEF PoolAssumption
  <1>8. CallTyped(q)
    BY <1>2, <1>4, <1>7 DEF CallTyped
  <1> QED
    BY <1>4, <1>6, <1>8 DEF StartCall

LEMMA SkippedOver ==
    ASSUME PoolTypes, NEW c \in Calls, NEW b \in Branches(c), Waiting(c, b),
           call' = [call EXCEPT ![c].at[b] = @ + 1]
    PROVE  /\ Only(c) /\ CallTyped(call'[c])
           /\ call'[c].at = [call[c].at EXCEPT ![b] = call[c].at[b] + 1]
           /\ call'[c].program = call[c].program /\ call'[c].held = call[c].held
           /\ call'[c].failed = call[c].failed /\ call'[c].lost = call[c].lost
           /\ call'[c].result = call[c].result
  <1>1. PICK r : r = call[c]
    OBVIOUS
  <1>2. CallTyped(r) /\ DOMAIN call = Calls /\ b \in 1..Len(r.program.branches) /\ r.held[b] = 0
    BY <1>1 DEF PoolTypes, Branches, Waiting
  <1>3. PICK q : q = [r EXCEPT !.at = [r.at EXCEPT ![b] = r.at[b] + 1]]
    OBVIOUS
  <1>4. call' = [call EXCEPT ![c] = q]
    BY <1>1, <1>2, <1>3 DEF CallTyped
  <1>5. Only(c) /\ call'[c] = q
    BY <1>2, <1>4 DEF Only
  <1>6. /\ q.held = r.held /\ q.program = r.program /\ q.at = [r.at EXCEPT ![b] = r.at[b] + 1]
        /\ q.failed = r.failed /\ q.lost = r.lost /\ q.result = r.result /\ DOMAIN q = DOMAIN r
    BY <1>2, <1>3 DEF CallTyped
  <1>7. CallTyped(q)
    BY <1>2, <1>6 DEF CallTyped
  <1> QED
    BY <1>1, <1>5, <1>6, <1>7

LEMMA Answered ==
    ASSUME PoolTypes, NEW c \in Calls, Answer(c)
    PROVE  /\ Only(c) /\ CallTyped(call'[c])
           /\ call'[c].at = call[c].at /\ call'[c].program = call[c].program
           /\ call'[c].held = call[c].held /\ call'[c].failed = call[c].failed
           /\ call'[c].lost = call[c].lost
           /\ call'[c].result = IF call[c].failed THEN "error" ELSE "ok"
           /\ UNCHANGED <<read_only, session, idle, open, db>>
  <1>1. PICK r : r = call[c]
    OBVIOUS
  <1>2. CallTyped(r) /\ DOMAIN call = Calls
    BY <1>1 DEF PoolTypes
  <1>3. PICK q : q = [r EXCEPT !.result = IF r.failed THEN "error" ELSE "ok"]
    OBVIOUS
  <1>4. call' = [call EXCEPT ![c] = q]
    BY <1>1, <1>3 DEF Answer
  <1>5. Only(c) /\ call'[c] = q
    BY <1>2, <1>4 DEF Only
  <1>6. /\ q.held = r.held /\ q.program = r.program /\ q.at = r.at
        /\ q.failed = r.failed /\ q.lost = r.lost /\ q.result = (IF r.failed THEN "error" ELSE "ok") /\ DOMAIN q = DOMAIN r
    BY <1>2, <1>3 DEF CallTyped
  <1>7. CallTyped(q)
    BY <1>2, <1>6 DEF CallTyped
  <1> QED
    BY <1>1, <1>5, <1>6, <1>7 DEF Answer

\* The rest of the queue.
LEMMA Rest ==
    ASSUME PoolTypes, idle # <<>>
    PROVE  /\ Len(idle) \in Nat /\ Len(idle) > 0 /\ Head(idle) = idle[1] /\ Head(idle) \in 1..MaxSessions
           /\ Tail(idle) \in Seq(1..MaxSessions) /\ Len(Tail(idle)) = Len(idle) - 1
           /\ \A i \in 1..Len(Tail(idle)) : Tail(idle)[i] = idle[i + 1]
  <1>1. idle \in Seq(1..MaxSessions)
    BY DEF PoolTypes
  <1>2. /\ Head(idle) \in 1..MaxSessions /\ Tail(idle) \in Seq(1..MaxSessions)
        /\ Len(Tail(idle)) = Len(idle) - 1
        /\ \A i \in 1..Len(Tail(idle)) : Tail(idle)[i] = idle[i + 1]
    BY <1>1, HeadTailProperties, Zenon
  <1>3. Len(idle) \in Nat /\ Len(idle) > 0 /\ Head(idle) = idle[1]
    BY <1>1
  <1> QED
    BY <1>2, <1>3

\* The call goes on, or has an error that the statements did not have.
Finishes(c, b, st) ==
    \E error \in BOOLEAN :
        (error = st.error \/ (error /\ TooLate(Hold(c, b), st))) /\ call' = Advanced(c, b, error, FALSE)

\* What the statements of a hold and the end of it change.
RunEffect(c, b, s, st) ==
    /\ s = call[c].held[b] /\ s # 0 /\ Hold(c, b) \in Holds(AllTexts)
    /\ call[c].at[b] <= Len(call[c].program.branches[b])
    /\ st \in Outcomes(c, s, Hold(c, b))
    /\ session' \in [1..MaxSessions -> Settled]
    /\ \A r \in (1..MaxSessions) \ {s} : session'[r] = session[r]
    /\ session'[s].tx = st.tx /\ session'[s].readonly = st.readonly
    /\ session'[s].default = st.default /\ session'[s].saved = st.saved
    /\ session'[s].pending = st.pending
    /\ db' = db \cup st.committed /\ idle' = Append(idle, s)
    /\ UNCHANGED <<read_only, open>> /\ Finishes(c, b, st)

LEMMA RunTyped ==
    ASSUME PoolTypes, NEW c \in Calls, NEW b \in Branches(c), Run(c, b)
    PROVE  \E s \in 1..MaxSessions, st \in Busy : RunEffect(c, b, s, st)
  <1>1. PICK r : r = call[c]
    OBVIOUS
  <1>2. CallTyped(r) /\ b \in 1..Len(r.program.branches) /\ r.held[b] # 0
    BY <1>1 DEF PoolTypes, Branches, Run, Holding
  <1>3. PICK s \in 1..MaxSessions : s = r.held[b] /\ s # 0
    <2>1. r.held[b] \in 0..MaxSessions /\ MaxSessions \in Nat
      BY <1>2, PoolAssumption DEF CallTyped, PoolAssumption
    <2> QED
      BY <1>2, <2>1
  <1>4. r.at[b] <= Len(r.program.branches[b])
    BY <1>2 DEF CallTyped
  <1>5. PICK st \in Outcomes(c, s, Hold(c, b)), error \in BOOLEAN :
           /\ error = st.error \/ (error /\ TooLate(Hold(c, b), st))
           /\ session' = [session EXCEPT ![s] = [f \in DOMAIN Fresh |-> st[f]]]
           /\ db' = db \cup st.committed /\ idle' = Append(idle, s)
           /\ call' = Advanced(c, b, error, FALSE) /\ UNCHANGED <<read_only, open>>
    BY <1>1, <1>3 DEF Run
  <1>6. Hold(c, b) \in Holds(AllTexts)
    BY <1>1, <1>2, <1>4, HoldTyped DEF Hold
  <1>7. st \in Busy
    BY <1>6, OutcomeTyped DEF PoolTypes
  <1>8. PICK kept \in Settled :
           /\ session' = [session EXCEPT ![s] = kept]
           /\ kept.tx = st.tx /\ kept.readonly = st.readonly /\ kept.default = st.default
           /\ kept.saved = st.saved /\ kept.pending = st.pending
    <2>1. PICK kept : kept = [f \in DOMAIN Fresh |-> st[f]]
      OBVIOUS
    <2> QED
      BY <1>5, <1>7, <2>1, Kept DEF PoolTypes
  <1>9. /\ session' \in [1..MaxSessions -> Settled] /\ session'[s] = kept
        /\ \A q \in (1..MaxSessions) \ {s} : session'[q] = session[q]
    BY <1>8 DEF PoolTypes
  <1>10. Finishes(c, b, st)
    BY <1>5, Zenon DEF Finishes
  <1> QED
    BY <1>1, <1>3, <1>4, <1>5, <1>6, <1>7, <1>8, <1>9, <1>10 DEF RunEffect

\* What a connection that ends under a hold changes.
LoseEffect(c, b, s, st) ==
    /\ s = call[c].held[b] /\ s # 0 /\ Hold(c, b) \in Holds(AllTexts)
    /\ call[c].at[b] <= Len(call[c].program.branches[b])
    /\ st \in Outcomes(c, s, Hold(c, b))
    /\ session' \in [1..MaxSessions -> Settled] /\ session'[s] = Fresh
    /\ \A r \in (1..MaxSessions) \ {s} : session'[r] = session[r]
    /\ db' = db \cup st.committed /\ open' = open \ {s}
    /\ UNCHANGED <<read_only, idle>> /\ call' = Advanced(c, b, TRUE, TRUE)

LEMMA LoseTyped ==
    ASSUME PoolTypes, NEW c \in Calls, NEW b \in Branches(c), Lose(c, b)
    PROVE  \E s \in 1..MaxSessions, st \in Busy : LoseEffect(c, b, s, st)
  <1>1. PICK r : r = call[c]
    OBVIOUS
  <1>2. CallTyped(r) /\ b \in 1..Len(r.program.branches) /\ r.held[b] # 0
    BY <1>1 DEF PoolTypes, Branches, Lose, Holding
  <1>3. PICK s \in 1..MaxSessions : s = r.held[b] /\ s # 0
    <2>1. r.held[b] \in 0..MaxSessions /\ MaxSessions \in Nat
      BY <1>2, PoolAssumption DEF CallTyped, PoolAssumption
    <2> QED
      BY <1>2, <2>1
  <1>4. r.at[b] <= Len(r.program.branches[b])
    BY <1>2 DEF CallTyped
  <1>5. PICK st \in Outcomes(c, s, Hold(c, b)) : db' = db \cup st.committed
    BY <1>1, <1>3 DEF Lose
  <1>6. /\ session' = [session EXCEPT ![s] = Fresh] /\ open' = open \ {s}
        /\ UNCHANGED <<read_only, idle>> /\ call' = Advanced(c, b, TRUE, TRUE)
    BY <1>1, <1>3 DEF Lose
  <1>7. Hold(c, b) \in Holds(AllTexts)
    BY <1>1, <1>2, <1>4, HoldTyped DEF Hold
  <1>8. st \in Busy
    BY <1>7, OutcomeTyped DEF PoolTypes
  <1>9. /\ session' \in [1..MaxSessions -> Settled] /\ session'[s] = Fresh
        /\ \A q \in (1..MaxSessions) \ {s} : session'[q] = session[q]
    BY <1>6, FreshSettled DEF PoolTypes
  <1> QED
    BY <1>1, <1>3, <1>4, <1>5, <1>6, <1>7, <1>8, <1>9 DEF LoseEffect

\* The session that the pool hands out next, or lets go.
LEMMA GetTyped ==
    ASSUME PoolTypes, Get
    PROVE  \E s \in 1..MaxSessions :
              /\ idle # <<>> /\ s = idle[1] /\ idle' = Tail(idle) /\ UNCHANGED <<read_only, db>>
              /\ session' \in [1..MaxSessions -> Settled]
              /\ \A r \in (1..MaxSessions) \ {s} : session'[r] = session[r]
              /\ \/ /\ read_only /\ session'[s] = Fresh
                    /\ open' = open \ {s} /\ call' = call
                 \/ /\ read_only => session[s].tx # "failed" /\ session'[s] = [session[s] EXCEPT !.default = TRUE]
                    /\ ~read_only => session'[s] = session[s]
                    /\ open' = open
                    /\ \E c \in Calls : \E b \in Branches(c) :
                          Waiting(c, b) /\ call' = [call EXCEPT ![c].held[b] = s]
  <1>1. /\ idle # <<>> /\ idle' = Tail(idle) /\ UNCHANGED <<read_only, db>>
    BY DEF Get, Recycle
  <1>2. PICK s \in 1..MaxSessions : s = idle[1] /\ Recycle(s)
    BY <1>1, Rest DEF Get
  <1>3. CASE read_only /\ session[s].tx = "failed"
    <2>1. session' = [session EXCEPT ![s] = Fresh] /\ open' = open \ {s} /\ call' = call
      BY <1>2, <1>3 DEF Recycle
    <2> QED
      BY <1>1, <1>2, <1>3, <2>1, FreshSettled DEF PoolTypes
  <1>4. CASE ~(read_only /\ session[s].tx = "failed")
    <2>1. /\ session' = IF read_only THEN [session EXCEPT ![s] = [session[s] EXCEPT !.default = TRUE]] ELSE session
          /\ open' = open
          /\ \E c \in Calls : \E b \in Branches(c) :
                Waiting(c, b) /\ call' = [call EXCEPT ![c].held[b] = s]
      BY <1>2, <1>4 DEF Recycle
    <2>2. session[s] \in Settled /\ [session[s] EXCEPT !.default = TRUE] \in Settled
      BY DEF PoolTypes, Settled
    <2>3. session' \in [1..MaxSessions -> Settled] /\ \A r \in (1..MaxSessions) \ {s} : session'[r] = session[r]
      BY <2>1, <2>2 DEF PoolTypes
    <2>4. session'[s] = IF read_only THEN [session[s] EXCEPT !.default = TRUE] ELSE session[s]
      BY <2>1 DEF PoolTypes
    <2> QED
      BY <1>1, <1>2, <1>4, <2>1, <2>3, <2>4
  <1> QED
    BY <1>3, <1>4

LEMMA OpenTyped ==
    ASSUME PoolTypes, NEW c \in Calls, NEW b \in Branches(c), Open(c, b)
    PROVE  \E s \in (1..MaxSessions) \ open :
              /\ Waiting(c, b) /\ idle = <<>> /\ UNCHANGED <<read_only, idle, db>>
              /\ open' = open \cup {s}
              /\ session' \in [1..MaxSessions -> Settled] /\ session'[s] = Fresh
              /\ \A r \in (1..MaxSessions) \ {s} : session'[r] = session[r]
              /\ call' = [call EXCEPT ![c].held[b] = s]
  <1>1. PICK s \in (1..MaxSessions) \ open :
           /\ open' = open \cup {s} /\ session' = [session EXCEPT ![s] = Fresh]
           /\ call' = [call EXCEPT ![c].held[b] = s]
    BY DEF Open
  <1>2. Waiting(c, b) /\ idle = <<>> /\ UNCHANGED <<read_only, idle, db>>
    BY DEF Open
  <1>3. /\ session' \in [1..MaxSessions -> Settled] /\ session'[s] = Fresh
        /\ \A r \in (1..MaxSessions) \ {s} : session'[r] = session[r]
    BY <1>1, FreshSettled DEF PoolTypes
  <1> QED
    BY <1>1, <1>2, <1>3

\* A step that leaves the session, but for one, and one call alone.
LEMMA TypesNext == PoolTypes /\ [PoolNext]_poolVars => PoolTypes'
  <1> SUFFICES ASSUME PoolTypes, [PoolNext]_poolVars PROVE PoolTypes'
    OBVIOUS
  <1>0. ASSUME NEW c \in Calls, Only(c), CallTyped(call'[c])
        PROVE  DOMAIN call' = Calls /\ \A d \in Calls : CallTyped(call[d])'
    <2>1. ASSUME NEW d \in Calls
          PROVE  CallTyped(call[d])'
      <3>1. CallTyped(call'[d])
        BY <1>0 DEF Only, PoolTypes
      <3> QED
        BY <3>1 DEF CallTyped
    <2> QED
      BY <1>0, <2>1 DEF Only
  <1>1. ASSUME NEW c \in Calls, StartCall(c)
        PROVE  PoolTypes'
    BY <1>0, <1>1, StartTyped DEF PoolTypes, Settled
  <1>2. CASE Get
    <2>1. PICK s \in 1..MaxSessions :
             /\ idle # <<>> /\ idle' = Tail(idle) /\ UNCHANGED <<read_only, db>>
             /\ session' \in [1..MaxSessions -> Settled]
             /\ \/ open' = open \ {s} /\ call' = call
                \/ /\ open' = open
                   /\ \E c \in Calls : \E b \in Branches(c) :
                         Waiting(c, b) /\ call' = [call EXCEPT ![c].held[b] = s]
      BY <1>2, GetTyped
    <2>2. idle' \in Seq(1..MaxSessions)
      BY <2>1, Rest
    <2>3. CASE open' = open \ {s} /\ call' = call
      BY <2>1, <2>2, <2>3 DEF PoolTypes, CallTyped
    <2>4. ASSUME open' = open, NEW c \in Calls, NEW b \in Branches(c), Waiting(c, b),
                 call' = [call EXCEPT ![c].held[b] = s]
          PROVE  PoolTypes'
      <3>1. Only(c) /\ CallTyped(call'[c])
        BY <2>4, HandedOut
      <3> QED
        BY <1>0, <2>1, <2>2, <2>4, <3>1 DEF PoolTypes
    <2> QED
      BY <2>1, <2>3, <2>4
  <1>3. ASSUME NEW c \in Calls, NEW b \in Branches(c), Open(c, b)
        PROVE  PoolTypes'
    <2>1. PICK s \in (1..MaxSessions) \ open :
             /\ Waiting(c, b) /\ UNCHANGED <<read_only, idle, db>> /\ open' = open \cup {s}
             /\ session' \in [1..MaxSessions -> Settled] /\ call' = [call EXCEPT ![c].held[b] = s]
      BY <1>3, OpenTyped
    <2>2. s \in 1..MaxSessions
      OBVIOUS
    <2>3. Only(c) /\ CallTyped(call'[c])
      BY <2>1, <2>2, HandedOut
    <2> QED
      BY <1>0, <2>1, <2>2, <2>3 DEF PoolTypes
  <1>4. ASSUME NEW c \in Calls, NEW b \in Branches(c), Run(c, b)
        PROVE  PoolTypes'
    <2>1. PICK s \in 1..MaxSessions, st \in Busy :
             /\ call[c].at[b] <= Len(call[c].program.branches[b])
             /\ session' \in [1..MaxSessions -> Settled]
             /\ db' = db \cup st.committed /\ idle' = Append(idle, s) /\ UNCHANGED <<read_only, open>>
             /\ Finishes(c, b, st)
      <3>1. PICK s \in 1..MaxSessions, st \in Busy : RunEffect(c, b, s, st)
        BY <1>4, RunTyped
      <3> QED
        BY <3>1 DEF RunEffect
    <2>2. Only(c) /\ CallTyped(call'[c])
      <3>1. PICK error \in BOOLEAN : call' = Advanced(c, b, error, FALSE)
        BY <2>1, Zenon DEF Finishes
      <3> QED
        BY <2>1, <3>1, MovedOn
    <2>3. idle' \in Seq(1..MaxSessions) /\ db' \subseteq Calls
      BY <2>1 DEF PoolTypes, Busy
    <2> QED
      BY <1>0, <2>1, <2>2, <2>3 DEF PoolTypes
  <1>5. ASSUME NEW c \in Calls, NEW b \in Branches(c), Skip(c, b)
        PROVE  PoolTypes'
    <2>1. Waiting(c, b) /\ UNCHANGED <<read_only, session, idle, open, db>>
      BY <1>5 DEF Skip
    <2>2. CASE call' = Advanced(c, b, TRUE, FALSE)
      BY <1>0, <2>1, <2>2, MovedOn DEF PoolTypes, Waiting, Settled
    <2>3. CASE call' = [call EXCEPT ![c].at[b] = @ + 1]
      BY <1>0, <2>1, <2>3, SkippedOver DEF PoolTypes, Settled
    <2> QED
      BY <1>5, <2>2, <2>3 DEF Skip
  <1>6. ASSUME NEW c \in Calls, Answer(c)
        PROVE  PoolTypes'
    BY <1>0, <1>6, Answered DEF PoolTypes, Settled
  <1>7. CASE UNCHANGED poolVars
    BY <1>7 DEF poolVars, PoolTypes, CallTyped
  <1>8. ASSUME NEW c \in Calls, NEW b \in Branches(c), Lose(c, b)
        PROVE  PoolTypes'
    <2>1. PICK s \in 1..MaxSessions, st \in Busy :
             /\ call[c].at[b] <= Len(call[c].program.branches[b])
             /\ session' \in [1..MaxSessions -> Settled]
             /\ db' = db \cup st.committed /\ open' = open \ {s}
             /\ UNCHANGED <<read_only, idle>> /\ call' = Advanced(c, b, TRUE, TRUE)
      <3>1. PICK s \in 1..MaxSessions, st \in Busy : LoseEffect(c, b, s, st)
        BY <1>8, LoseTyped
      <3> QED
        BY <3>1 DEF LoseEffect
    <2>2. Only(c) /\ CallTyped(call'[c])
      BY <2>1, MovedOn
    <2>3. db' \subseteq Calls
      BY <2>1 DEF PoolTypes, Busy
    <2> QED
      BY <1>0, <2>1, <2>2, <2>3 DEF PoolTypes
  <1> QED
    BY <1>1, <1>2, <1>3, <1>4, <1>5, <1>6, <1>7, <1>8 DEF PoolNext, CallStep, AllAnswered

-----------------------------------------------------------------------------
\* Who holds a session after a step that takes at most sessions from c.
LEMMA OwnedLess ==
    ASSUME PoolTypes, Owned, NEW c \in Calls, Only(c), UNCHANGED <<idle, open>>,
           \A b \in 1..Len(call'[c].program.branches) :
              call'[c].held[b] # 0 => b \in Branches(c) /\ call'[c].held[b] = call[c].held[b]
    PROVE  Owned'
  <1>1. ASSUME NEW d \in Calls, NEW a \in Branches(d)', call'[d].held[a] # 0
        PROVE  a \in Branches(d) /\ call'[d].held[a] = call[d].held[a]
    BY <1>1 DEF Only, Branches
  <1>2. /\ \A i \in 1..Len(idle) : idle'[i] \in open'
        /\ \A i, j \in 1..Len(idle) : idle'[i] = idle'[j] => i = j
    BY DEF Owned
  <1>3. ASSUME NEW d \in Calls, NEW a \in Branches(d)', call'[d].held[a] # 0
        PROVE  /\ call'[d].held[a] \in open'
               /\ \A i \in 1..Len(idle') : idle'[i] # call'[d].held[a]
    BY <1>1, <1>3 DEF Owned
  <1>4. ASSUME NEW d \in Calls, NEW e \in Calls, NEW a \in Branches(d)', NEW b \in Branches(e)',
               call'[d].held[a] # 0, call'[d].held[a] = call'[e].held[b]
        PROVE  d = e /\ a = b
    <2>1. /\ a \in Branches(d) /\ call'[d].held[a] = call[d].held[a]
          /\ b \in Branches(e) /\ call'[e].held[b] = call[e].held[b]
      BY <1>1, <1>4
    <2>2. call[d].held[a] # 0 /\ call[d].held[a] = call[e].held[b]
      BY <1>4, <2>1
    <2>3. a \in Branches(d) /\ b \in Branches(e)
      BY <2>1
    <2> QED
      BY <2>2, <2>3, Zenon DEF Owned
  <1> QED
    BY <1>2, <1>3, <1>4 DEF Owned

LEMMA OwnedNext == PoolTypes /\ Owned /\ [PoolNext]_poolVars => Owned'
  <1> SUFFICES ASSUME PoolTypes, Owned, [PoolNext]_poolVars PROVE Owned'
    OBVIOUS
  <1>1. ASSUME NEW c \in Calls, StartCall(c)
        PROVE  Owned'
    BY <1>1, StartTyped, OwnedLess
  <1>2. CASE Get
    <2>1. /\ idle # <<>> /\ idle' = Tail(idle)
      BY <1>2 DEF Get, Recycle
    <2>2. PICK s \in 1..MaxSessions : s = Head(idle) /\ s = idle[1] /\ Recycle(s)
      BY <1>2, <2>1, Rest DEF Get
    <2>3. Len(idle') \in Nat /\ \A i \in 1..Len(idle') : i + 1 \in 1..Len(idle) /\ idle'[i] = idle[i + 1]
      BY <2>1, Rest
    <2>4. 1 \in 1..Len(idle) /\ s \in open
      BY <2>1, <2>2, Rest DEF Owned
    <2>5. \A i, j \in 1..Len(idle') : idle'[i] = idle'[j] => i = j
      BY <2>3 DEF Owned
    <2>6. \A i \in 1..Len(idle') : idle'[i] \in open /\ idle'[i] # s
      BY <2>2, <2>3, <2>4 DEF Owned
    <2>7. \A d \in Calls : \A a \in Branches(d) : call[d].held[a] # s
      BY <2>2, <2>4 DEF Owned
    <2>8. CASE read_only /\ session[s].tx = "failed"
      <3>1. open' = open \ {s} /\ call' = call
        BY <2>2, <2>8 DEF Recycle
      <3>2. ASSUME NEW d \in Calls, NEW a \in Branches(d), call[d].held[a] # 0
            PROVE  call[d].held[a] \in open' /\ \A i \in 1..Len(idle') : idle'[i] # call[d].held[a]
        BY <2>3, <2>7, <3>1, <3>2 DEF Owned
      <3> QED
        BY <2>5, <2>6, <3>1, <3>2 DEF Owned, Branches
    <2>9. CASE ~(read_only /\ session[s].tx = "failed")
      <3>1. open' = open
        BY <2>2, <2>9 DEF Recycle
      <3>2. PICK c \in Calls : \E b \in Branches(c) : Waiting(c, b) /\ call' = [call EXCEPT ![c].held[b] = s]
        BY <2>2, <2>9 DEF Recycle
      <3>3. PICK b \in Branches(c) : Waiting(c, b) /\ call' = [call EXCEPT ![c].held[b] = s]
        BY <3>2
      <3>4. /\ Only(c) /\ call'[c].held = [call[c].held EXCEPT ![b] = s]
            /\ call'[c].program = call[c].program
        BY <3>3, HandedOut
      <3>5. DOMAIN call[c].held = Branches(c)
        BY DEF PoolTypes, CallTyped, Branches
      <3>6. ASSUME NEW d \in Calls, NEW a \in Branches(d)'
            PROVE  /\ a \in Branches(d)
                   /\ call'[d].held[a] = IF d = c /\ a = b THEN s ELSE call[d].held[a]
        <4>1. a \in Branches(d)
          BY <3>4 DEF Only, Branches
        <4> QED
          BY <3>4, <3>5, <4>1 DEF Only
      <3>7. ASSUME NEW d \in Calls, NEW a \in Branches(d)', call'[d].held[a] # 0
            PROVE  call'[d].held[a] \in open' /\ \A i \in 1..Len(idle') : idle'[i] # call'[d].held[a]
        <4>1. CASE d = c /\ a = b
          BY <2>4, <2>6, <3>1, <3>6, <4>1
        <4>2. CASE ~(d = c /\ a = b)
          BY <2>3, <3>1, <3>6, <3>7, <4>2 DEF Owned
        <4> QED
          BY <4>1, <4>2
      <3>8. ASSUME NEW d \in Calls, NEW e \in Calls, NEW x \in Branches(d)', NEW y \in Branches(e)',
                   call'[d].held[x] # 0, call'[d].held[x] = call'[e].held[y]
            PROVE  d = e /\ x = y
        BY <2>7, <3>6, <3>8 DEF Owned
      <3> QED
        BY <2>5, <2>6, <3>1, <3>7, <3>8 DEF Owned
    <2> QED
      BY <2>8, <2>9
  <1>3. ASSUME NEW c \in Calls, NEW b \in Branches(c), Open(c, b)
        PROVE  Owned'
    <2>1. PICK s \in 1..MaxSessions :
             s \notin open /\ open' = open \cup {s} /\ call' = [call EXCEPT ![c].held[b] = s]
      BY <1>3 DEF Open
    <2>2. Waiting(c, b) /\ idle = <<>> /\ idle' = idle /\ Len(idle') = 0
      BY <1>3 DEF Open
    <2>3. /\ Only(c) /\ call'[c].held = [call[c].held EXCEPT ![b] = s]
          /\ call'[c].program = call[c].program
      <3>1. Waiting(c, b) /\ call' = [call EXCEPT ![c].held[b] = s]
        BY <2>1, <2>2
      <3> QED
        BY <3>1, HandedOut
    <2>4. DOMAIN call[c].held = Branches(c)
      BY DEF PoolTypes, CallTyped, Branches
    <2>5. ASSUME NEW d \in Calls, NEW a \in Branches(d)'
          PROVE  /\ a \in Branches(d)
                 /\ call'[d].held[a] = IF d = c /\ a = b THEN s ELSE call[d].held[a]
      <3>1. a \in Branches(d)
        BY <2>3 DEF Only, Branches
      <3> QED
        BY <2>3, <2>4, <3>1 DEF Only
    <2>6. ASSUME NEW d \in Calls, NEW a \in Branches(d)', call'[d].held[a] # 0
          PROVE  call'[d].held[a] \in open'
      BY <2>1, <2>5, <2>6 DEF Owned
    <2>7. ASSUME NEW d \in Calls, NEW e \in Calls, NEW x \in Branches(d)', NEW y \in Branches(e)',
                 call'[d].held[x] # 0, call'[d].held[x] = call'[e].held[y]
          PROVE  d = e /\ x = y
      <3>1. \A f \in Calls : \A z \in Branches(f) : call[f].held[z] # 0 => call[f].held[z] # s
        BY <2>1 DEF Owned
      <3> QED
        BY <2>5, <2>7, <3>1 DEF Owned
    <2> QED
      BY <2>2, <2>6, <2>7 DEF Owned
  <1>4. ASSUME NEW c \in Calls, NEW b \in Branches(c), Run(c, b)
        PROVE  Owned'
    <2>1. PICK s \in 1..MaxSessions, st \in Busy :
             /\ s = call[c].held[b] /\ s # 0 /\ call[c].at[b] <= Len(call[c].program.branches[b])
             /\ idle' = Append(idle, s) /\ open' = open /\ Finishes(c, b, st)
      <3>1. PICK s \in 1..MaxSessions, st \in Busy : RunEffect(c, b, s, st)
        BY <1>4, RunTyped
      <3> QED
        BY <3>1 DEF RunEffect
    <2>6. /\ Only(c) /\ call'[c].held = [call[c].held EXCEPT ![b] = 0]
          /\ call'[c].program = call[c].program
      <3>1. PICK error \in BOOLEAN : call' = Advanced(c, b, error, FALSE)
        BY <2>1, Zenon DEF Finishes
      <3> QED
        BY <2>1, <3>1, MovedOn
    <2>7. DOMAIN call[c].held = Branches(c)
      BY DEF PoolTypes, CallTyped, Branches
    <2>8. ASSUME NEW d \in Calls, NEW a \in Branches(d)'
          PROVE  /\ a \in Branches(d)
                 /\ call'[d].held[a] = IF d = c /\ a = b THEN 0 ELSE call[d].held[a]
      <3>1. a \in Branches(d)
        BY <2>6 DEF Only, Branches
      <3> QED
        BY <2>6, <2>7, <3>1 DEF Only
    <2>9. /\ Len(idle) \in Nat /\ Len(idle') = Len(idle) + 1 /\ idle'[Len(idle) + 1] = s
          /\ \A i \in 1..Len(idle) : idle'[i] = idle[i]
      BY <2>1 DEF PoolTypes
    <2>10. s \in open /\ \A i \in 1..Len(idle) : idle[i] # s
      BY <2>1 DEF Owned
    <2>11. \A i \in 1..Len(idle') : idle'[i] \in open'
      BY <2>1, <2>9, <2>10 DEF Owned
    <2>12. \A i, j \in 1..Len(idle') : idle'[i] = idle'[j] => i = j
      BY <2>9, <2>10 DEF Owned
    <2>13. ASSUME NEW d \in Calls, NEW a \in Branches(d)', call'[d].held[a] # 0
           PROVE  /\ call'[d].held[a] \in open' /\ call'[d].held[a] = call[d].held[a]
                  /\ \A i \in 1..Len(idle') : idle'[i] # call'[d].held[a]
      <3>1. a \in Branches(d) /\ call'[d].held[a] = call[d].held[a] /\ ~(d = c /\ a = b)
        BY <2>8, <2>13
      <3>2. call[d].held[a] # s
        BY <2>1, <3>1 DEF Owned
      <3>3. call[d].held[a] \in open /\ \A i \in 1..Len(idle) : idle[i] # call[d].held[a]
        BY <2>13, <3>1 DEF Owned
      <3>4. \A i \in 1..Len(idle') : idle'[i] = s \/ \E j \in 1..Len(idle) : idle'[i] = idle[j]
        BY <2>9
      <3> QED
        BY <2>1, <3>1, <3>2, <3>3, <3>4
    <2>14. ASSUME NEW d \in Calls, NEW e \in Calls, NEW x \in Branches(d)', NEW y \in Branches(e)',
                  call'[d].held[x] # 0, call'[d].held[x] = call'[e].held[y]
           PROVE  d = e /\ x = y
      BY <2>8, <2>13, <2>14 DEF Owned
    <2> QED
      BY <2>11, <2>12, <2>13, <2>14 DEF Owned
  <1>5. ASSUME NEW c \in Calls, NEW b \in Branches(c), Skip(c, b)
        PROVE  Owned'
    <2>1. /\ Waiting(c, b) /\ UNCHANGED <<idle, open>>
          /\ call[c].at[b] <= Len(call[c].program.branches[b])
      BY <1>5 DEF Skip, Waiting
    <2>2. PICK held : held = call'[c].held /\ Only(c) /\ call'[c].program = call[c].program
                      /\ \A a \in Branches(c) : held[a] # 0 => held[a] = call[c].held[a]
      <3>1. DOMAIN call[c].held = Branches(c)
        BY DEF PoolTypes, CallTyped, Branches
      <3>2. CASE call' = Advanced(c, b, TRUE, FALSE)
        <4>1. /\ Only(c) /\ call'[c].program = call[c].program
              /\ call'[c].held = [call[c].held EXCEPT ![b] = 0]
          BY <2>1, <3>2, MovedOn
        <4> QED
          BY <3>1, <4>1
      <3>3. CASE call' = [call EXCEPT ![c].at[b] = @ + 1]
        BY <2>1, <3>3, SkippedOver
      <3> QED
        BY <1>5, <3>2, <3>3 DEF Skip
    <2> QED
      BY <2>1, <2>2, OwnedLess DEF Branches
  <1>6. ASSUME NEW c \in Calls, Answer(c)
        PROVE  Owned'
    BY <1>6, Answered, OwnedLess DEF Branches
  <1>7. CASE UNCHANGED poolVars
    BY <1>7 DEF poolVars, Owned, Branches
  <1>8. ASSUME NEW c \in Calls, NEW b \in Branches(c), Lose(c, b)
        PROVE  Owned'
    <2>1. PICK s \in 1..MaxSessions :
             /\ s = call[c].held[b] /\ s # 0 /\ call[c].at[b] <= Len(call[c].program.branches[b])
             /\ idle' = idle /\ open' = open \ {s} /\ call' = Advanced(c, b, TRUE, TRUE)
      <3>1. PICK s \in 1..MaxSessions, st \in Busy : LoseEffect(c, b, s, st)
        BY <1>8, LoseTyped
      <3> QED
        BY <3>1 DEF LoseEffect
    <2>2. /\ Only(c) /\ call'[c].held = [call[c].held EXCEPT ![b] = 0]
          /\ call'[c].program = call[c].program
      BY <2>1, MovedOn
    <2>3. DOMAIN call[c].held = Branches(c)
      BY DEF PoolTypes, CallTyped, Branches
    <2>4. ASSUME NEW d \in Calls, NEW a \in Branches(d)', call'[d].held[a] # 0
          PROVE  a \in Branches(d) /\ call'[d].held[a] = call[d].held[a] /\ ~(d = c /\ a = b)
      <3>1. a \in Branches(d)
        BY <2>2 DEF Only, Branches
      <3> QED
        BY <2>2, <2>3, <2>4, <3>1 DEF Only
    <2>5. \A i \in 1..Len(idle') : idle'[i] \in open'
      BY <2>1 DEF Owned
    <2>6. ASSUME NEW d \in Calls, NEW a \in Branches(d)', call'[d].held[a] # 0
          PROVE  call'[d].held[a] \in open' /\ \A i \in 1..Len(idle') : idle'[i] # call'[d].held[a]
      <3>1. a \in Branches(d) /\ call'[d].held[a] = call[d].held[a] /\ ~(d = c /\ a = b)
        BY <2>4, <2>6
      <3>2. call[d].held[a] # s
        BY <2>1, <3>1 DEF Owned
      <3>3. call[d].held[a] \in open /\ \A i \in 1..Len(idle) : idle[i] # call[d].held[a]
        BY <2>6, <3>1 DEF Owned
      <3> QED
        BY <2>1, <3>1, <3>2, <3>3
    <2>7. ASSUME NEW d \in Calls, NEW e \in Calls, NEW x \in Branches(d)', NEW y \in Branches(e)',
                 call'[d].held[x] # 0, call'[d].held[x] = call'[e].held[y]
          PROVE  d = e /\ x = y
      BY <2>4, <2>7 DEF Owned
    <2>8. \A i, j \in 1..Len(idle') : idle'[i] = idle'[j] => i = j
      BY <2>1 DEF Owned
    <2> QED
      BY <2>5, <2>6, <2>7, <2>8 DEF Owned
  <1> QED
    BY <1>1, <1>2, <1>3, <1>4, <1>5, <1>6, <1>7, <1>8 DEF PoolNext, CallStep, AllAnswered

-----------------------------------------------------------------------------
\* A text that the read-only setting holds for to its end: VACUUM runs in spite
\* of it, and a function that turns it off takes what follows along.
TextsAreHarmless ==
    \A sql \in Scripts : \A i \in 1..Len(sql) :
        sql[i] # "vacuum" /\ (sql[i] = "turn_off" => i = Len(sql))

Tame(p) == \A b \in 1..Len(p.branches) : \A k \in 1..Len(p.branches[b]) : Harmless(p.branches[b][k].sql)

LEMMA ReadersTame ==
    ASSUME NEW p, Reader(p)
    PROVE  Tame(p)
  <1>1. PICK S : S = Seq(ReadHolds)
    OBVIOUS
  <1>2. PICK branches \in Seq(S) : p = Connected(branches)
    BY <1>1 DEF Reader
  <1>3. p.branches = branches
    BY <1>2 DEF Connected
  <1>4. \A sql \in ReadTexts : Harmless(sql)
    BY DEF ReadTexts, Harmless
  <1>5. ASSUME NEW b \in 1..Len(branches), NEW k \in 1..Len(branches[b])
        PROVE  Harmless(branches[b][k].sql)
    <2>1. branches[b] \in S
      BY <1>2
    <2>2. branches[b][k] \in ReadHolds
      BY <1>1, <2>1
    <2> QED
      BY <1>4, <2>2 DEF ReadHolds, Holds
  <1> QED
    BY <1>3, <1>5 DEF Tame

LEMMA ProgramsTame ==
    ASSUME TextsAreHarmless, read_only, NEW p \in Programs, ~Refused(p)
    PROVE  Tame(p)
  <1>1. CASE Writer(p)
    BY <1>1, WriterFormed DEF Refused
  <1>2. CASE p = Connected(<<validate_function>>)
    <2>1. \A sql \in {<<"begin">>, <<"write">>, <<"rollback">>} : Harmless(sql)
      BY DEF Harmless
    <2> QED
      BY <1>2, <2>1, ValidateFormed, Zenon DEF Tame
  <1>3. ASSUME NEW sql \in Scripts, p = Editor(sql)
        PROVE  Tame(p)
    <2>1. /\ Formed(p) /\ Len(p.branches) = 1 /\ Len(p.branches[1]) = 1 /\ p.branches[1][1].sql = sql
      BY <1>3, EditorFormed, Zenon
    <2>2. 1 \in DOMAIN p.branches /\ 1 \in DOMAIN p.branches[1]
      <3>1. PICK T : T = Seq(Holds(AllTexts))
        OBVIOUS
      <3>2. p.branches \in Seq(T) /\ 1 \in 1..Len(p.branches)
        BY <2>1, <3>1 DEF Formed
      <3>3. p.branches[1] \in T
        BY <3>2
      <3> QED
        BY <2>1, <3>1, <3>2, <3>3
    <2>3. ASSUME NEW i \in 1..Len(sql) PROVE sql[i] # "set_read_write"
      <3>1. i \in DOMAIN sql
        BY TextLengths DEF AllTexts
      <3> QED
        BY <2>1, <2>2, <3>1, Zenon DEF Refused
    <2>4. Harmless(sql)
      BY <2>3 DEF Harmless, TextsAreHarmless
    <2>5. ASSUME NEW b \in 1..Len(p.branches), NEW k \in 1..Len(p.branches[b])
          PROVE  p.branches[b][k].sql = sql
      <3>1. b = 1
        BY <2>1
      <3> QED
        BY <2>1, <3>1
    <2> QED
      BY <2>4, <2>5 DEF Tame
  <1> QED
    BY <1>1, <1>2, <1>3, ProgramKinds, ReadersTame, Zenon

\* A read-only driver's sessions: what they may be between two statements, and
\* that a session in use is read-only still.
CalmPool ==
    read_only =>
        /\ db = {}
        /\ \A s \in 1..MaxSessions : Calm(session[s])
        /\ \A c \in Calls : call[c].result = "running" => Tame(call[c].program)
        /\ \A c \in Calls : \A b \in Branches(c) :
              call[c].held[b] # 0 => session[call[c].held[b]].default

LEMMA FreshCalm ==
    ASSUME read_only
    PROVE  Calm(Fresh) /\ Fresh.default
  BY DEF Calm, Fresh

LEMMA CalmLess ==
    ASSUME PoolTypes, CalmPool, NEW c \in Calls, Only(c), UNCHANGED <<read_only, session, db>>,
           \A b \in 1..Len(call'[c].program.branches) :
              call'[c].held[b] # 0 => b \in Branches(c) /\ call'[c].held[b] = call[c].held[b],
           read_only /\ call'[c].result = "running" => Tame(call'[c].program)
    PROVE  CalmPool'
  <1> SUFFICES ASSUME read_only PROVE CalmPool'
    BY DEF CalmPool
  <1>1. ASSUME NEW d \in Calls, NEW a \in Branches(d)', call'[d].held[a] # 0
        PROVE  session'[call'[d].held[a]].default
    <2>1. a \in Branches(d) /\ call'[d].held[a] = call[d].held[a]
      BY <1>1 DEF Only, Branches
    <2> QED
      BY <1>1, <2>1 DEF CalmPool
  <1>2. ASSUME NEW d \in Calls, call'[d].result = "running"
        PROVE  Tame(call[d].program)'
    <2>1. Tame(call'[d].program)
      BY <1>2 DEF Only, CalmPool
    <2> QED
      BY <2>1 DEF Tame, Harmless
  <1>3. db' = {} /\ \A s \in 1..MaxSessions : Calm(session[s])'
    BY DEF CalmPool, Calm
  <1> QED
    BY <1>1, <1>2, <1>3 DEF CalmPool

LEMMA HeldIsHarmless ==
    ASSUME PoolTypes, CalmPool, read_only, NEW c \in Calls, NEW b \in Branches(c), Holding(c, b),
           call[c].at[b] <= Len(call[c].program.branches[b])
    PROVE  Harmless(Hold(c, b).sql)
  <1>1. Tame(call[c].program)
    BY DEF CalmPool, Holding
  <1>2. b \in 1..Len(call[c].program.branches) /\ call[c].at[b] \in Nat \ {0}
    BY DEF PoolTypes, CallTyped, Branches
  <1>3. PICK k : k = call[c].at[b]
    OBVIOUS
  <1>4. k \in 1..Len(call[c].program.branches[b])
    <2>1. CallTyped(call[c])
      BY DEF PoolTypes
    <2>2. Len(call[c].program.branches[b]) \in Nat
      BY <1>2, <2>1, BranchLength
    <2> QED
      BY <1>2, <1>3, <2>2
  <1> QED
    BY <1>1, <1>2, <1>3, <1>4 DEF Tame, Hold

LEMMA CalmNext ==
    ASSUME TextsAreHarmless, PoolTypes, Owned, CalmPool, [PoolNext]_poolVars
    PROVE  CalmPool'
  <1>0. ASSUME NEW s \in 1..MaxSessions, UNCHANGED <<read_only, db>>,
               \A r \in (1..MaxSessions) \ {s} : session'[r] = session[r],
               read_only => Calm(session'[s]) /\ session'[s].default
        PROVE  /\ read_only' => db' = {} /\ \A r \in 1..MaxSessions : Calm(session[r])'
               /\ read_only' => \A d \in Calls : \A a \in Branches(d) :
                     call[d].held[a] # 0 => session'[call[d].held[a]].default
    <2> SUFFICES ASSUME read_only
                 PROVE  /\ db' = {} /\ \A r \in 1..MaxSessions : Calm(session[r])'
                        /\ \A d \in Calls : \A a \in Branches(d) :
                              call[d].held[a] # 0 => session'[call[d].held[a]].default
      BY <1>0
    <2>1. ASSUME NEW r \in 1..MaxSessions
          PROVE  Calm(session[r])'
      <3>1. Calm(session'[r])
        BY <1>0 DEF CalmPool
      <3> QED
        BY <3>1 DEF Calm
    <2>2. ASSUME NEW d \in Calls, NEW a \in Branches(d), call[d].held[a] # 0
          PROVE  session'[call[d].held[a]].default
      <3>1. PICK r \in 1..MaxSessions : r = call[d].held[a]
        BY <2>2, PoolAssumption DEF PoolTypes, CallTyped, Branches, PoolAssumption
      <3> QED
        BY <1>0, <2>2, <3>1 DEF CalmPool
    <2> QED
      BY <1>0, <2>1, <2>2 DEF CalmPool
  <1>1. ASSUME NEW c \in Calls, StartCall(c)
        PROVE  CalmPool'
    <2>1. /\ Only(c) /\ call'[c].program \in Programs
          /\ \A b \in 1..Len(call'[c].program.branches) : call'[c].held[b] = 0
          /\ call'[c].result = IF Refused(call'[c].program) THEN "read_only" ELSE "running"
          /\ UNCHANGED <<read_only, session, idle, open, db>>
      BY <1>1, StartTyped
    <2>2. read_only /\ call'[c].result = "running" => Tame(call'[c].program)
      BY <2>1, ProgramsTame
    <2> QED
      BY <2>1, <2>2, CalmLess
  <1>2. CASE Get
    <2>1. PICK s \in 1..MaxSessions :
             /\ UNCHANGED <<read_only, db>>
             /\ \A r \in (1..MaxSessions) \ {s} : session'[r] = session[r]
             /\ \/ /\ read_only /\ session'[s] = Fresh /\ call' = call
                \/ /\ read_only => session'[s] = [session[s] EXCEPT !.default = TRUE]
                   /\ \E c \in Calls : \E b \in Branches(c) :
                         Waiting(c, b) /\ call' = [call EXCEPT ![c].held[b] = s]
      BY <1>2, GetTyped
    <2>2. read_only => Calm(session'[s]) /\ session'[s].default
      <3> SUFFICES ASSUME read_only PROVE Calm(session'[s]) /\ session'[s].default
        OBVIOUS
      <3>1. session[s] \in Settled /\ Calm(session[s])
        BY DEF PoolTypes, CalmPool
      <3>2. PICK r : r = [session[s] EXCEPT !.default = TRUE]
        OBVIOUS
      <3>3. Calm(r) /\ r.default
        BY <3>1, <3>2 DEF Settled, Calm
      <3> QED
        BY <2>1, <3>2, <3>3, FreshCalm
    <2>3. /\ read_only' => db' = {} /\ \A r \in 1..MaxSessions : Calm(session[r])'
          /\ read_only' => \A d \in Calls : \A a \in Branches(d) :
                call[d].held[a] # 0 => session'[call[d].held[a]].default
      BY <1>0, <2>1, <2>2
    <2>4. CASE call' = call
      <3>1. ASSUME read_only, NEW d \in Calls, call'[d].result = "running"
            PROVE  Tame(call[d].program)'
        <4>1. Tame(call'[d].program)
          BY <2>4, <3>1 DEF CalmPool
        <4> QED
          BY <4>1 DEF Tame, Harmless
      <3>2. ASSUME read_only, NEW d \in Calls, NEW a \in Branches(d)', call'[d].held[a] # 0
            PROVE  session'[call'[d].held[a]].default
        BY <2>1, <2>3, <2>4, <3>2 DEF Branches
      <3> QED
        BY <2>1, <2>3, <3>1, <3>2 DEF CalmPool
    <2>5. ASSUME NEW c \in Calls, NEW b \in Branches(c), Waiting(c, b),
                 call' = [call EXCEPT ![c].held[b] = s]
          PROVE  CalmPool'
      <3>1. /\ Only(c) /\ call'[c].held = [call[c].held EXCEPT ![b] = s]
            /\ call'[c].program = call[c].program /\ call'[c].result = call[c].result
        BY <2>5, HandedOut
      <3>2. ASSUME read_only, NEW d \in Calls, call'[d].result = "running"
            PROVE  Tame(call[d].program)'
        <4>1. Tame(call'[d].program)
          BY <3>1, <3>2 DEF Only, CalmPool
        <4> QED
          BY <4>1 DEF Tame, Harmless
      <3>3. ASSUME read_only, NEW d \in Calls, NEW a \in Branches(d)', call'[d].held[a] # 0
            PROVE  session'[call'[d].held[a]].default
        <4>1. a \in Branches(d)
          BY <3>1 DEF Only, Branches
        <4>2. call'[d].held[a] = s \/ call'[d].held[a] = call[d].held[a]
          <5>1. DOMAIN call[c].held = Branches(c)
            BY DEF PoolTypes, CallTyped, Branches
          <5> QED
            BY <3>1, <4>1, <5>1 DEF Only
        <4> QED
          BY <2>1, <2>2, <2>3, <3>3, <4>1, <4>2
      <3> QED
        BY <2>1, <2>3, <3>2, <3>3 DEF CalmPool
    <2> QED
      BY <2>1, <2>4, <2>5
  <1>3. ASSUME NEW c \in Calls, NEW b \in Branches(c), Open(c, b)
        PROVE  CalmPool'
    <2>1. PICK s \in 1..MaxSessions :
             /\ Waiting(c, b) /\ UNCHANGED <<read_only, db>> /\ session'[s] = Fresh
             /\ \A r \in (1..MaxSessions) \ {s} : session'[r] = session[r]
             /\ call' = [call EXCEPT ![c].held[b] = s]
      BY <1>3, OpenTyped
    <2>2. /\ Only(c) /\ call'[c].held = [call[c].held EXCEPT ![b] = s]
          /\ call'[c].program = call[c].program /\ call'[c].result = call[c].result
      BY <2>1, HandedOut
    <2>3. read_only => Calm(session'[s]) /\ session'[s].default
      BY <2>1, FreshCalm
    <2>4. /\ read_only' => db' = {} /\ \A r \in 1..MaxSessions : Calm(session[r])'
          /\ read_only' => \A d \in Calls : \A a \in Branches(d) :
                call[d].held[a] # 0 => session'[call[d].held[a]].default
      BY <1>0, <2>1, <2>3
    <2>5. ASSUME read_only, NEW d \in Calls, call'[d].result = "running"
          PROVE  Tame(call[d].program)'
      <3>1. Tame(call'[d].program)
        BY <2>2, <2>5 DEF Only, CalmPool
      <3> QED
        BY <3>1 DEF Tame, Harmless
    <2>6. ASSUME read_only, NEW d \in Calls, NEW a \in Branches(d)', call'[d].held[a] # 0
          PROVE  session'[call'[d].held[a]].default
      <3>1. a \in Branches(d)
        BY <2>2 DEF Only, Branches
      <3>3. DOMAIN call[c].held = Branches(c)
        BY DEF PoolTypes, CallTyped, Branches
      <3>2. call'[d].held[a] = s \/ call'[d].held[a] = call[d].held[a]
        BY <2>2, <3>1, <3>3 DEF Only
      <3> QED
        BY <2>1, <2>3, <2>4, <2>6, <3>1, <3>2
    <2> QED
      BY <2>1, <2>4, <2>5, <2>6 DEF CalmPool
  <1>4. ASSUME NEW c \in Calls, NEW b \in Branches(c), Run(c, b)
        PROVE  CalmPool'
    <2>1. PICK s \in 1..MaxSessions, st \in Busy :
             /\ s = call[c].held[b] /\ s # 0 /\ Hold(c, b) \in Holds(AllTexts)
             /\ call[c].at[b] <= Len(call[c].program.branches[b])
             /\ st \in Outcomes(c, s, Hold(c, b))
             /\ \A r \in (1..MaxSessions) \ {s} : session'[r] = session[r]
             /\ session'[s].tx = st.tx /\ session'[s].readonly = st.readonly
             /\ session'[s].saved = st.saved /\ session'[s].pending = st.pending
             /\ db' = db \cup st.committed /\ UNCHANGED read_only /\ Finishes(c, b, st)
      <3>1. PICK s \in 1..MaxSessions, st \in Busy : RunEffect(c, b, s, st)
        BY <1>4, RunTyped
      <3> QED
        BY <3>1 DEF RunEffect
    <2>2. /\ Only(c) /\ call'[c].held = [call[c].held EXCEPT ![b] = 0]
          /\ call'[c].program = call[c].program /\ call'[c].result = call[c].result
      <3>1. PICK error \in BOOLEAN : call' = Advanced(c, b, error, FALSE)
        BY <2>1, Zenon DEF Finishes
      <3> QED
        BY <2>1, <3>1, MovedOn
    <2> SUFFICES ASSUME read_only PROVE CalmPool'
      BY <2>1 DEF CalmPool
    <2>4. Harmless(Hold(c, b).sql)
      BY <1>4, <2>1, HeldIsHarmless DEF Run
    <2>5. session[s] \in Settled /\ Calm(session[s]) /\ session[s].default
      BY <2>1 DEF PoolTypes, CalmPool
    <2>6. Calm(st) /\ st.committed = {}
      BY <2>1, <2>4, <2>5, OutcomeCalm
    <2>7. db' = {} /\ Calm(session'[s])
      BY <2>1, <2>6 DEF CalmPool, Calm
    <2>8. ASSUME NEW r \in 1..MaxSessions
          PROVE  Calm(session[r])'
      <3>1. Calm(session'[r])
        BY <2>1, <2>7 DEF CalmPool
      <3> QED
        BY <3>1 DEF Calm
    <2>9. ASSUME NEW d \in Calls, call'[d].result = "running"
          PROVE  Tame(call[d].program)'
      <3>1. Tame(call'[d].program)
        BY <2>2, <2>9 DEF Only, CalmPool
      <3> QED
        BY <3>1 DEF Tame, Harmless
    <2>10. ASSUME NEW d \in Calls, NEW a \in Branches(d)', call'[d].held[a] # 0
           PROVE  session'[call'[d].held[a]].default
      <3>1. a \in Branches(d)
        BY <2>2 DEF Only, Branches
      <3>2. DOMAIN call[c].held = Branches(c)
        BY DEF PoolTypes, CallTyped, Branches
      <3>3. call'[d].held[a] = call[d].held[a] /\ ~(d = c /\ a = b)
        BY <2>2, <2>10, <3>1, <3>2 DEF Only
      <3>4. call[d].held[a] # s
        BY <2>1, <2>10, <3>1, <3>3 DEF Owned
      <3>5. call[d].held[a] \in (1..MaxSessions) \ {s}
        <4>1. call[d].held[a] \in 0..MaxSessions /\ MaxSessions \in Nat
          BY <3>1, PoolAssumption DEF PoolTypes, CallTyped, Branches, PoolAssumption
        <4> QED
          BY <2>10, <3>3, <3>4, <4>1
      <3> QED
        BY <2>1, <2>10, <3>1, <3>3, <3>5 DEF CalmPool
    <2> QED
      BY <2>7, <2>8, <2>9, <2>10 DEF CalmPool
  <1>5. ASSUME NEW c \in Calls, NEW b \in Branches(c), Skip(c, b)
        PROVE  CalmPool'
    <2>1. /\ Waiting(c, b) /\ UNCHANGED <<read_only, session, db>>
          /\ call[c].at[b] <= Len(call[c].program.branches[b])
      BY <1>5 DEF Skip, Waiting
    <2>2. PICK held : held = call'[c].held /\ Only(c) /\ call'[c].program = call[c].program
                      /\ call'[c].result = call[c].result
                      /\ \A a \in Branches(c) : held[a] # 0 => held[a] = call[c].held[a]
      <3>1. DOMAIN call[c].held = Branches(c)
        BY DEF PoolTypes, CallTyped, Branches
      <3>2. CASE call' = Advanced(c, b, TRUE, FALSE)
        <4>1. /\ Only(c) /\ call'[c].program = call[c].program /\ call'[c].result = call[c].result
              /\ call'[c].held = [call[c].held EXCEPT ![b] = 0]
          BY <2>1, <3>2, MovedOn
        <4> QED
          BY <3>1, <4>1
      <3>3. CASE call' = [call EXCEPT ![c].at[b] = @ + 1]
        BY <2>1, <3>3, SkippedOver
      <3> QED
        BY <1>5, <3>2, <3>3 DEF Skip
    <2>3. read_only /\ call'[c].result = "running" => Tame(call'[c].program)
      BY <2>2 DEF CalmPool
    <2> QED
      BY <2>1, <2>2, <2>3, CalmLess DEF Branches
  <1>6. ASSUME NEW c \in Calls, Answer(c)
        PROVE  CalmPool'
    <2>1. /\ Only(c) /\ call'[c].program = call[c].program /\ call'[c].held = call[c].held
          /\ call'[c].result \in {"error", "ok"} /\ UNCHANGED <<read_only, session, db>>
      BY <1>6, Answered
    <2> QED
      BY <2>1, CalmLess DEF Branches
  <1>7. CASE UNCHANGED poolVars
    <2>1. UNCHANGED <<read_only, session, db, call>>
      BY <1>7 DEF poolVars
    <2>2. ASSUME read_only, NEW d \in Calls, call'[d].result = "running"
          PROVE  Tame(call[d].program)'
      <3>1. Tame(call'[d].program)
        BY <2>1, <2>2 DEF CalmPool
      <3> QED
        BY <3>1 DEF Tame, Harmless
    <2>3. ASSUME read_only, NEW r \in 1..MaxSessions
          PROVE  Calm(session[r])'
      <3>1. Calm(session'[r])
        BY <2>1, <2>3 DEF CalmPool
      <3> QED
        BY <3>1 DEF Calm
    <2> QED
      BY <2>1, <2>2, <2>3 DEF CalmPool, Branches
  <1>8. ASSUME NEW c \in Calls, NEW b \in Branches(c), Lose(c, b)
        PROVE  CalmPool'
    <2>1. PICK s \in 1..MaxSessions, st \in Busy :
             /\ s = call[c].held[b] /\ s # 0 /\ Hold(c, b) \in Holds(AllTexts)
             /\ call[c].at[b] <= Len(call[c].program.branches[b])
             /\ st \in Outcomes(c, s, Hold(c, b)) /\ session'[s] = Fresh
             /\ \A r \in (1..MaxSessions) \ {s} : session'[r] = session[r]
             /\ db' = db \cup st.committed /\ UNCHANGED read_only /\ call' = Advanced(c, b, TRUE, TRUE)
      <3>1. PICK s \in 1..MaxSessions, st \in Busy : LoseEffect(c, b, s, st)
        BY <1>8, LoseTyped
      <3> QED
        BY <3>1 DEF LoseEffect
    <2>2. /\ Only(c) /\ call'[c].held = [call[c].held EXCEPT ![b] = 0]
          /\ call'[c].program = call[c].program /\ call'[c].result = call[c].result
      BY <2>1, MovedOn
    <2> SUFFICES ASSUME read_only PROVE CalmPool'
      BY <2>1 DEF CalmPool
    <2>3. session[s] \in Settled /\ Calm(session[s]) /\ session[s].default
      BY <2>1 DEF PoolTypes, CalmPool
    <2>4. Harmless(Hold(c, b).sql)
      BY <1>8, <2>1, HeldIsHarmless DEF Lose
    <2>5. db' = db
      BY <2>1, <2>3, <2>4, OutcomeCalm
    <2>6. /\ db' = {} /\ \A r \in 1..MaxSessions : Calm(session[r])'
          /\ \A d \in Calls : \A a \in Branches(d) :
                call[d].held[a] # 0 => session'[call[d].held[a]].default
      BY <1>0, <2>1, <2>5, FreshCalm
    <2>7. ASSUME NEW d \in Calls, call'[d].result = "running"
          PROVE  Tame(call[d].program)'
      <3>1. Tame(call'[d].program)
        BY <2>2, <2>7 DEF Only, CalmPool
      <3> QED
        BY <3>1 DEF Tame, Harmless
    <2>8. ASSUME NEW d \in Calls, NEW a \in Branches(d)', call'[d].held[a] # 0
          PROVE  session'[call'[d].held[a]].default
      <3>1. a \in Branches(d)
        BY <2>2 DEF Only, Branches
      <3>2. DOMAIN call[c].held = Branches(c)
        BY DEF PoolTypes, CallTyped, Branches
      <3>3. call'[d].held[a] = call[d].held[a]
        BY <2>2, <2>8, <3>1, <3>2 DEF Only
      <3> QED
        BY <2>6, <2>8, <3>1, <3>3
    <2> QED
      BY <2>6, <2>7, <2>8 DEF CalmPool
  <1> QED
    BY <1>1, <1>2, <1>3, <1>4, <1>5, <1>6, <1>7, <1>8 DEF PoolNext, CallStep, AllAnswered

LEMMA CalmInit == PoolInit => CalmPool
  <1> SUFFICES ASSUME PoolInit, read_only PROVE CalmPool
    BY DEF CalmPool
  <1>1. PoolTypes
    BY PoolInitTypes
  <1>2. \A s \in 1..MaxSessions : Calm(session[s])
    BY FreshCalm DEF PoolInit
  <1>3. \A c \in Calls : call[c].result = "new" /\ Branches(c) = {}
    <2>1. PICK none : none = <<>>
      OBVIOUS
    <2>2. PICK p : p = Connected(none)
      OBVIOUS
    <2>3. Len(p.branches) = 0
      BY <2>1, <2>2 DEF Connected
    <2> QED
      BY <2>1, <2>2, <2>3 DEF PoolInit, Branches
  <1> QED
    BY <1>2, <1>3 DEF PoolInit, CalmPool

\* Whatever the user runs in the SQL editor, whichever commands are called and
\* whichever sessions they get, a read-only connection changes nothing: no text
\* but one that turns the setting off and goes on, or that runs VACUUM, changes
\* the database.
THEOREM ReadOnlyChangesNothingHolds ==
    ASSUME TextsAreHarmless
    PROVE  PoolSpec => []ReadOnlyChangesNothing
  <1>1. PoolInit => PoolTypes /\ Owned /\ CalmPool
    BY PoolInitTypes, CalmInit
  <1>2. PoolTypes /\ Owned /\ CalmPool /\ [PoolNext]_poolVars => (PoolTypes /\ Owned /\ CalmPool)'
    BY TypesNext, OwnedNext, CalmNext
  <1>3. CalmPool => ReadOnlyChangesNothing
    BY DEF CalmPool, ReadOnlyChangesNothing
  <1> QED
    BY <1>1, <1>2, <1>3, PTL DEF PoolSpec

-----------------------------------------------------------------------------
\* What a hold of one of the commands leaves: a session with nothing to lose, a
\* transaction under way, a statement that failed, and a change that is made.
Clean(st) == st.pending = {} /\ st.tx \in {"none", "failed"}
InBlock(st, pending) == ~st.error /\ st.committed = {} /\ st.tx = "open" /\ st.pending = pending
Spoiled(st) == st.error /\ st.committed = {} /\ Clean(st)
Ready(st) == ~st.error /\ st.committed = {} /\ Clean(st)
Made(st, c) == ~st.error /\ st.tx = "none" /\ st.pending \cup st.committed = {c}

LEMMA Spoils ==
    ASSUME NEW st \in Busy, NEW pending, Ready(st) \/ InBlock(st, pending), NEW kind
    PROVE  Failed(st, kind) \in Busy /\ Spoiled(Failed(st, kind))
  <1>1. PICK ud \in Busy : ud = Undone(st)
    BY UndoneTyped
  <1>2. ud.committed = {} /\ Clean(ud)
    BY <1>1 DEF Undone, Ready, InBlock, Clean, Busy
  <1> QED
    BY <1>1, <1>2, FailedTyped DEF Failed, Spoiled, Ready, InBlock, Clean, Busy

LEMMA Stays ==
    ASSUME NEW st \in Busy, Spoiled(st), NEW c, NEW kind, NEW rollback
    PROVE  Statement(c, st, kind) = st /\ Ended(st, rollback) \in Busy /\ Spoiled(Ended(st, rollback))
  <1>1. Statement(c, st, kind) = st
    BY DEF Statement, Spoiled
  <1>2. PICK end \in Busy : end = EndOfMessage(st) /\ Spoiled(end)
    <2>1. PICK end \in Busy : end = EndOfMessage(st)
      BY EndTyped
    <2>2. Spoiled(end)
      BY <2>1 DEF EndOfMessage, Spoiled, Clean, Busy
    <2> QED
      BY <2>1, <2>2
  <1>3. PICK ud \in Busy : ud = Undone(end) /\ Spoiled(ud)
    <2>1. PICK ud \in Busy : ud = Undone(end)
      BY UndoneTyped
    <2>2. Spoiled(ud)
      BY <1>2, <2>1 DEF Undone, Spoiled, Clean, Busy
    <2> QED
      BY <2>1, <2>2
  <1> QED
    BY <1>1, <1>2, <1>3 DEF Ended

LEMMA Begins ==
    ASSUME NEW st \in Busy, Ready(st), NEW c \in Calls, NEW kind \in {"begin", "begin_read_only"}
    PROVE  LET next == Statement(c, st, kind) IN next \in Busy /\ (Spoiled(next) \/ InBlock(next, {}))
  <1>1. CASE st.tx = "failed"
    BY <1>1, Spoils DEF Statement, Ready
  <1>2. CASE st.tx = "none"
    BY <1>2, StatementTyped DEF Statement, Accepted, Ready, InBlock, Clean, Busy
  <1> QED
    BY <1>1, <1>2 DEF Ready, Clean

LEMMA Within ==
    ASSUME NEW st \in Busy, NEW pending, InBlock(st, pending), NEW c \in Calls
    PROVE  /\ LET next == Statement(c, st, "write") IN
              next \in Busy /\ (Spoiled(next) \/ InBlock(next, pending \cup {c}))
           /\ Statement(c, st, "read") = st
           /\ LET next == Statement(c, st, "rollback") IN
              next \in Busy /\ Ready(next)
           /\ LET next == Statement(c, st, "commit") IN
              next \in Busy /\ (pending = {c} => Made(next, c))
  <1>1. \A kind : Statement(c, st, kind) = Accepted(c, st, kind)
    BY DEF Statement, InBlock
  <1>2. /\ Accepted(c, st, "read") = st /\ Accepted(c, st, "rollback") = Undone(st)
        /\ Accepted(c, st, "commit") = [st EXCEPT !.tx = "none", !.pending = {}, !.committed = st.committed \cup st.pending]
        /\ Accepted(c, st, "write") = IF MayWrite(st) THEN [st EXCEPT !.pending = st.pending \cup {c}]
                                      ELSE Failed(st, "write")
    BY DEF Accepted
  <1>3. PICK written : written = [st EXCEPT !.pending = st.pending \cup {c}]
    OBVIOUS
  <1>4. InBlock(written, pending \cup {c})
    BY <1>3 DEF InBlock, Busy
  <1>5. PICK made : made = [st EXCEPT !.tx = "none", !.pending = {}, !.committed = st.committed \cup st.pending]
    OBVIOUS
  <1>6. pending = {c} => Made(made, c)
    BY <1>5 DEF InBlock, Made, Busy
  <1>7. Ready(Undone(st))
    BY DEF Undone, InBlock, Ready, Clean, Busy
  <1>8. \A kind : Statement(c, st, kind) \in Busy
    BY StatementTyped
  <1>9. Spoiled(Failed(st, "write"))
    BY Spoils
  <1> QED
    BY <1>1, <1>2, <1>3, <1>4, <1>5, <1>6, <1>7, <1>8, <1>9

\* A single statement.
LEMMA Single ==
    ASSUME NEW st \in Busy, Ready(st), NEW c \in Calls
    PROVE  /\ \A kind \in {"write", "vacuum"} :
                 LET next == Statement(c, st, kind) IN next \in Busy /\ (Spoiled(next) \/ Made(next, c))
           /\ LET next == Statement(c, st, "read") IN next \in Busy /\ (Spoiled(next) \/ Ready(next))
  <1>1. \A kind : Statement(c, st, kind) \in Busy /\ Spoiled(Failed(st, kind))
    BY StatementTyped, Spoils
  <1>2. CASE st.tx = "failed"
    BY <1>1, <1>2 DEF Statement, Ready
  <1>3. CASE st.tx = "none"
    <2>1. \A kind : Statement(c, st, kind) = Accepted(c, st, kind)
      BY <1>3 DEF Statement, Ready
    <2>2. /\ Accepted(c, st, "read") = st
          /\ Accepted(c, st, "write") = IF MayWrite(st) THEN [st EXCEPT !.pending = st.pending \cup {c}]
                                        ELSE Failed(st, "write")
          /\ Accepted(c, st, "vacuum") = [st EXCEPT !.committed = st.committed \cup {c}]
      BY <1>3 DEF Accepted
    <2>3. PICK written : written = [st EXCEPT !.pending = st.pending \cup {c}]
      OBVIOUS
    <2>4. PICK cleaned : cleaned = [st EXCEPT !.committed = st.committed \cup {c}]
      OBVIOUS
    <2>5. Made(written, c) /\ Made(cleaned, c)
      BY <1>3, <2>3, <2>4 DEF Ready, Clean, Made, Busy
    <2> QED
      BY <1>1, <2>1, <2>2, <2>3, <2>4, <2>5
  <1> QED
    BY <1>2, <1>3 DEF Ready, Clean

\* Where a message ended: at a statement that failed, or behind the last.
LEMMA RawOf ==
    ASSUME NEW c, NEW s, NEW hold, NEW st, NEW f, NEW n, NEW raw,
           Path(c, s, hold, st, f, n, raw), Len(hold.sql) \in Nat,
           \A k \in 0..Len(hold.sql) - 1 :
              f[k] \in Busy /\ (Spoiled(f[k]) \/ Ready(f[k]) \/ \E pending : InBlock(f[k], pending))
    PROVE  (raw \in Busy /\ Spoiled(raw)) \/ raw = f[Len(hold.sql)]
  <1>1. CASE n = Len(hold.sql)
    BY <1>1 DEF Path
  <1>2. CASE n # Len(hold.sql)
    <2>1. n \in 0..Len(hold.sql) - 1
      BY <1>2 DEF Path
    <2>2. CASE raw = f[n] /\ f[n].error
      BY <2>1, <2>2 DEF Ready, InBlock
    <2>3. CASE ~f[n].error /\ raw = Failed(f[n], hold.sql[n + 1])
      <3>1. f[n] \in Busy /\ (Ready(f[n]) \/ \E pending : InBlock(f[n], pending))
        BY <2>1, <2>3 DEF Spoiled
      <3> QED
        BY <2>3, <3>1, Spoils
    <2> QED
      BY <1>2, <2>2, <2>3 DEF Path
  <1> QED
    BY <1>1, <1>2

\* A hold that changes nothing leaves nothing to lose.
LEMMA ReadOutcome ==
    ASSUME NEW c \in Calls, NEW s, session[s] \in Settled, Clean(session[s]),
           NEW hold \in ReadHolds, NEW st \in Outcomes(c, s, hold)
    PROVE  st \in Busy /\ Clean(st) /\ st.committed = {}
  <1>1. hold \in Holds(AllTexts) /\ hold.sql \in ReadTexts /\ Len(hold.sql) \in Nat
    BY TextsAreTexts, TextLengths DEF ReadHolds, Holds, AllTexts
  <1>2. PICK f, n, raw : Path(c, s, hold, st, f, n, raw)
    BY <1>1, OutcomeOf
  <1>3. f[0] \in Busy /\ Ready(f[0])
    <2>1. f[0] = Started(session[s])
      BY <1>2 DEF Path
    <2>2. Started(session[s]) \in Busy /\ Ready(Started(session[s]))
      BY StartedTyped DEF Started, Ready, Clean
    <2> QED
      BY <2>1, <2>2
  <1>4. \A k \in 1..Len(hold.sql) : f[k] = Statement(c, f[k - 1], hold.sql[k])
    BY <1>2 DEF Path
  <1>5. raw \in Busy /\ (Spoiled(raw) \/ Ready(raw))
    <2>1. CASE hold.sql = <<"read">>
      <3>1. Len(hold.sql) = 1 /\ f[1] = Statement(c, f[0], "read")
        BY <1>4, <2>1
      <3>2. f[1] \in Busy /\ (Spoiled(f[1]) \/ Ready(f[1]))
        BY <1>3, <3>1, Single
      <3>3. \A k \in 0..Len(hold.sql) - 1 : k = 0
        BY <3>1
      <3> QED
        BY <1>1, <1>2, <1>3, <3>1, <3>2, <3>3, RawOf
    <2>2. CASE hold.sql = <<"begin_read_only", "read", "rollback">>
      <3>1. /\ Len(hold.sql) = 3 /\ f[1] = Statement(c, f[0], "begin_read_only")
            /\ f[2] = Statement(c, f[1], "read") /\ f[3] = Statement(c, f[2], "rollback")
        BY <1>4, <2>2
      <3>2. f[1] \in Busy /\ (Spoiled(f[1]) \/ InBlock(f[1], {}))
        BY <1>3, <3>1, Begins
      <3>3. f[2] = f[1]
        <4>1. CASE Spoiled(f[1])
          BY <3>1, <3>2, <4>1, Stays, Zenon
        <4>2. CASE InBlock(f[1], {})
          BY <3>1, <3>2, <4>2, Within, Zenon
        <4> QED
          BY <3>2, <4>1, <4>2
      <3>4. f[3] \in Busy /\ (Spoiled(f[3]) \/ Ready(f[3]))
        <4>1. CASE Spoiled(f[1])
          <5>1. Statement(c, f[2], "rollback") = f[2]
            BY <3>2, <3>3, <4>1, Stays, Zenon
          <5> QED
            BY <3>1, <3>2, <3>3, <4>1, <5>1
        <4>2. CASE InBlock(f[1], {})
          BY <3>1, <3>2, <3>3, <4>2, Within
        <4> QED
          BY <3>2, <4>1, <4>2
      <3>5. \A k \in 0..Len(hold.sql) - 1 : k = 0 \/ k = 1 \/ k = 2
        BY <3>1
      <3>6. \A k \in 0..Len(hold.sql) - 1 :
               f[k] \in Busy /\ (Spoiled(f[k]) \/ Ready(f[k]) \/ \E pending : InBlock(f[k], pending))
        BY <1>3, <3>2, <3>3, <3>5
      <3> QED
        BY <1>1, <1>2, <3>1, <3>4, <3>6, RawOf
    <2> QED
      BY <1>1, <2>1, <2>2 DEF ReadTexts
  <1>6. st = Ended(raw, hold.rollback)
    BY <1>2 DEF Path
  <1>7. CASE Spoiled(raw)
    BY <1>5, <1>6, <1>7, Stays DEF Spoiled
  <1>8. CASE Ready(raw)
    <2>1. PICK end : end = EndOfMessage(raw)
      OBVIOUS
    <2>2. end \in Busy
      BY <1>5, <2>1, EndTyped
    <2>3. Ready(end)
      BY <1>5, <1>8, <2>1 DEF EndOfMessage, Ready, Clean, Busy
    <2> QED
      BY <1>6, <2>1, <2>2, <2>3 DEF Ended, Ready
  <1> QED
    BY <1>5, <1>7, <1>8

\* A hold that changes something does so unless it fails, and leaves nothing to lose.
LEMMA ChangeOutcome ==
    ASSUME NEW c \in Calls, NEW s, session[s] \in Settled, Clean(session[s]),
           NEW hold \in ChangeHolds, NEW st \in Outcomes(c, s, hold)
    PROVE  st \in Busy /\ Clean(st) /\ st.committed = IF st.error THEN {} ELSE {c}
  <1>1. hold \in Holds(AllTexts) /\ hold.sql \in ChangeTexts /\ Len(hold.sql) \in Nat
    BY TextsAreTexts, TextLengths DEF ChangeHolds, Holds, AllTexts
  <1>2. PICK f, n, raw : Path(c, s, hold, st, f, n, raw)
    BY <1>1, OutcomeOf
  <1>3. f[0] \in Busy /\ Ready(f[0])
    <2>1. f[0] = Started(session[s])
      BY <1>2 DEF Path
    <2>2. Started(session[s]) \in Busy /\ Ready(Started(session[s]))
      BY StartedTyped DEF Started, Ready, Clean
    <2> QED
      BY <2>1, <2>2
  <1>4. \A k \in 1..Len(hold.sql) : f[k] = Statement(c, f[k - 1], hold.sql[k])
    BY <1>2 DEF Path
  <1>5. raw \in Busy /\ (Spoiled(raw) \/ Made(raw, c))
    <2>1. CASE hold.sql \in {<<"write">>, <<"vacuum">>}
      <3>1. PICK kind \in {"write", "vacuum"} : hold.sql = <<kind>>
        BY <2>1
      <3>2. Len(hold.sql) = 1 /\ f[1] = Statement(c, f[0], kind)
        BY <1>4, <3>1
      <3>3. f[1] \in Busy /\ (Spoiled(f[1]) \/ Made(f[1], c))
        BY <1>3, <3>2, Single
      <3>4. \A k \in 0..Len(hold.sql) - 1 : k = 0
        BY <3>2
      <3> QED
        BY <1>1, <1>2, <1>3, <3>2, <3>3, <3>4, RawOf
    <2>2. CASE hold.sql = <<"begin", "write", "write", "commit">>
      <3>1. /\ Len(hold.sql) = 4 /\ f[1] = Statement(c, f[0], "begin")
            /\ f[2] = Statement(c, f[1], "write") /\ f[3] = Statement(c, f[2], "write")
            /\ f[4] = Statement(c, f[3], "commit")
        BY <1>4, <2>2
      <3>2. f[1] \in Busy /\ (Spoiled(f[1]) \/ InBlock(f[1], {}))
        BY <1>3, <3>1, Begins
      <3>3. f[2] \in Busy /\ (Spoiled(f[2]) \/ InBlock(f[2], {c}))
        <4>1. {} \cup {c} = {c}
          OBVIOUS
        <4> QED
          BY <3>1, <3>2, <4>1, Stays, Within
      <3>4. f[3] \in Busy /\ (Spoiled(f[3]) \/ InBlock(f[3], {c}))
        <4>1. {c} \cup {c} = {c}
          OBVIOUS
        <4> QED
          BY <3>1, <3>3, <4>1, Stays, Within
      <3>5. f[4] \in Busy /\ (Spoiled(f[4]) \/ Made(f[4], c))
        BY <3>1, <3>4, Stays, Within
      <3>6. \A k \in 0..Len(hold.sql) - 1 : k = 0 \/ k = 1 \/ k = 2 \/ k = 3
        BY <3>1
      <3>7. \A k \in 0..Len(hold.sql) - 1 :
               f[k] \in Busy /\ (Spoiled(f[k]) \/ Ready(f[k]) \/ \E pending : InBlock(f[k], pending))
        BY <1>3, <3>2, <3>3, <3>4, <3>6
      <3> QED
        BY <1>1, <1>2, <3>1, <3>5, <3>7, RawOf
    <2> QED
      BY <1>1, <2>1, <2>2 DEF ChangeTexts
  <1>6. st = Ended(raw, hold.rollback)
    BY <1>2 DEF Path
  <1>7. CASE Spoiled(raw)
    BY <1>5, <1>6, <1>7, Stays DEF Spoiled
  <1>8. CASE Made(raw, c)
    <2>1. PICK end : end = EndOfMessage(raw)
      OBVIOUS
    <2>2. end \in Busy
      BY <1>5, <2>1, EndTyped
    <2>3. ~end.error /\ end.committed = {c} /\ Clean(end)
      BY <1>5, <1>8, <2>1 DEF EndOfMessage, Made, Clean, Busy
    <2> QED
      BY <1>6, <2>1, <2>2, <2>3 DEF Ended
  <1> QED
    BY <1>5, <1>7, <1>8

-----------------------------------------------------------------------------
\* A command that reads, and one that reads and then changes.
ReadsOnly(p) ==
    /\ p.driver = "connected"
    /\ \A b \in 1..Len(p.branches) : \A k \in 1..Len(p.branches[b]) : p.branches[b][k] \in ReadHolds

Last(p) == p.branches[1][Len(p.branches[1])]
EndsInChange(p) ==
    /\ p.driver = "writable" /\ Len(p.branches) = 1
    /\ Len(p.branches[1]) \in Nat \ {0}
    /\ \A k \in 1..Len(p.branches[1]) - 1 : p.branches[1][k] \in ReadHolds
    /\ Last(p) \in ChangeHolds /\ (Last(p).optional => p = OwnCommands["alter_table"])

LEMMA ReaderReads ==
    ASSUME NEW p, Reader(p)
    PROVE  ReadsOnly(p)
  <1>1. PICK S : S = Seq(ReadHolds)
    OBVIOUS
  <1>2. PICK branches \in Seq(S) : p = Connected(branches)
    BY <1>1 DEF Reader
  <1>3. p.branches = branches /\ p.driver = "connected"
    BY <1>2 DEF Connected
  <1>4. ASSUME NEW b \in 1..Len(branches), NEW k \in 1..Len(branches[b])
        PROVE  branches[b][k] \in ReadHolds
    <2>1. branches[b] \in S
      BY <1>2
    <2> QED
      BY <1>1, <2>1
  <1> QED
    BY <1>3, <1>4 DEF ReadsOnly

LEMMA WriterEnds ==
    ASSUME NEW p, Writer(p)
    PROVE  EndsInChange(p)
  <1>1. PICK reads \in Seq(ReadHolds), h \in ChangeHolds :
           p = Writable(reads \o <<h>>) /\ (h.optional => p = OwnCommands["alter_table"])
    BY DEF Writer
  <1>2. PICK T : T = Holds(AllTexts)
    OBVIOUS
  <1>3. PICK last : last = <<h>>
    OBVIOUS
  <1>4. /\ reads \in Seq(T) /\ last \in Seq(T) /\ Len(last) = 1 /\ last[1] = h
        /\ Len(reads) \in Nat /\ \A k \in 1..Len(reads) : reads[k] \in ReadHolds
    <2>1. reads \in Seq(T)
      BY <1>2, TextsAreTexts, SeqMonotonic, Zenon
    <2>2. h \in T
      BY <1>2, TextsAreTexts
    <2> QED
      BY <1>3, <2>1, <2>2
  <1>5. PICK holds : holds = reads \o last
    OBVIOUS
  <1>6. /\ holds \in Seq(T) /\ Len(holds) = Len(reads) + Len(last)
        /\ \A i \in 1..(Len(reads) + Len(last)) :
              holds[i] = IF i <= Len(reads) THEN reads[i] ELSE last[i - Len(reads)]
    BY <1>4, <1>5, ConcatProperties, Zenon
  <1>7. /\ Len(holds) = Len(reads) + 1 /\ holds[Len(reads) + 1] = h
        /\ \A k \in 1..Len(holds) - 1 : holds[k] \in ReadHolds
    BY <1>4, <1>6
  <1>8. PICK branches : branches = <<holds>>
    OBVIOUS
  <1>9. Len(branches) = 1 /\ branches[1] = holds
    BY <1>8
  <1>10. p.driver = "writable" /\ p.branches = branches
    BY <1>1, <1>3, <1>5, <1>8 DEF Writable
  <1>11. Last(p) = h /\ Len(p.branches[1]) = Len(reads) + 1 /\ Len(p.branches[1]) \in Nat \ {0}
    BY <1>4, <1>7, <1>9, <1>10 DEF Last
  <1> QED
    BY <1>1, <1>7, <1>9, <1>10, <1>11 DEF EndsInChange

\* Where the commands stand while nobody may leave a transaction open: what a command has in
\* the database, it put there with its last hold, and it ended well.
Over(r) == r.at[1] > Len(r.program.branches[1])
Stands(r, made) ==
    /\ r.result # "new" => ReadsOnly(r.program) \/ EndsInChange(r.program)
    /\ made => EndsInChange(r.program) /\ Over(r)
    /\ EndsInChange(r.program) /\ Over(r) /\ ~r.failed => made \/ r.program = OwnCommands["alter_table"]
    /\ EndsInChange(r.program) /\ r.failed => Over(r)
    /\ r.result = "error" => r.failed
    /\ r.result = "ok" => ~r.failed
    /\ r.result = "ok" => \A b \in 1..Len(r.program.branches) : r.at[b] > Len(r.program.branches[b])
Standing(c) == Stands(call[c], c \in db)

Unstarted == \A c \in Calls : call[c].result = "new" => Len(call[c].program.branches) = 0 /\ ~call[c].lost
CommandsStand ==
    /\ Unstarted
    /\ ~LooseEnds => /\ \A s \in 1..MaxSessions : Clean(session[s])
                     /\ \A c \in Calls : Standing(c)

LEMMA StandsNow ==
    ASSUME NEW c, NEW r, r = call'[c], Stands(r, c \in db')
    PROVE  Standing(c)'
  <1>1. ReadsOnly(call[c].program)' <=> ReadsOnly(r.program)
    BY DEF ReadsOnly
  <1>2. EndsInChange(call[c].program)' <=> EndsInChange(r.program)
    BY DEF EndsInChange, Last
  <1>3. Over(call[c])' <=> Over(r)
    BY DEF Over
  <1> QED
    BY <1>1, <1>2, <1>3 DEF Standing, Stands

\* A step of c that puts no other call's changes in the database.
LEMMA OthersStand ==
    ASSUME NEW c \in Calls, Only(c), NEW made \in SUBSET {c}, db' = db \cup made,
           NEW d \in Calls, d # c, Standing(d)
    PROVE  Standing(d)'
  <1>1. call'[d] = call[d] /\ (d \in db' <=> d \in db)
    BY DEF Only
  <1>2. PICK r : r = call[d]
    OBVIOUS
  <1>3. Stands(r, d \in db')
    BY <1>1, <1>2 DEF Standing, Stands
  <1> QED
    BY <1>1, <1>2, <1>3, StandsNow

\* A step of c that changes only where its sessions are.
LEMMA StandsStill ==
    ASSUME NEW c \in Calls, Standing(c), UNCHANGED db,
           call'[c].program = call[c].program, call'[c].at = call[c].at,
           call'[c].failed = call[c].failed, call'[c].result = call[c].result
    PROVE  Standing(c)'
  <1>1. PICK r : r = call'[c]
    OBVIOUS
  <1>2. Stands(r, c \in db')
    BY <1>1 DEF Standing, Stands, Over
  <1> QED
    BY <1>1, <1>2, StandsNow

\* A call that was started keeps its program.
LEMMA ProgramKept ==
    ASSUME PoolTypes, [PoolNext]_poolVars, NEW c \in Calls, call[c].result # "new"
    PROVE  call'[c].program = call[c].program
  <1>1. ASSUME NEW d \in Calls, Only(d), call'[d].program = call[d].program
        PROVE  call'[c].program = call[c].program
    BY <1>1 DEF Only
  <1>2. ASSUME NEW d \in Calls, StartCall(d)
        PROVE  call'[c].program = call[c].program
    <2>1. d # c
      BY <1>2 DEF StartCall
    <2> QED
      BY <1>2, <2>1, StartTyped DEF Only
  <1>3. CASE Get
    <2>1. \/ call' = call
          \/ \E s \in 1..MaxSessions : \E d \in Calls : \E b \in Branches(d) :
                Waiting(d, b) /\ call' = [call EXCEPT ![d].held[b] = s]
      BY <1>3, GetTyped
    <2> QED
      BY <1>1, <2>1, HandedOut
  <1>4. ASSUME NEW d \in Calls, NEW b \in Branches(d), Open(d, b)
        PROVE  call'[c].program = call[c].program
    <2>1. \E s \in 1..MaxSessions : Waiting(d, b) /\ call' = [call EXCEPT ![d].held[b] = s]
      BY <1>4, OpenTyped
    <2> QED
      BY <1>1, <2>1, HandedOut
  <1>5. ASSUME NEW d \in Calls, NEW b \in Branches(d), Run(d, b)
        PROVE  call'[c].program = call[c].program
    <2>1. PICK s \in 1..MaxSessions, st \in Busy : RunEffect(d, b, s, st)
      BY <1>5, RunTyped
    <2>2. /\ call[d].at[b] <= Len(call[d].program.branches[b])
          /\ \E error \in BOOLEAN : call' = Advanced(d, b, error, FALSE)
      <3>1. call[d].at[b] <= Len(call[d].program.branches[b]) /\ Finishes(d, b, st)
        BY <2>1 DEF RunEffect
      <3>2. \E error \in BOOLEAN : call' = Advanced(d, b, error, FALSE)
        BY <3>1, Zenon DEF Finishes
      <3> QED
        BY <3>1, <3>2
    <2>3. PICK error \in BOOLEAN : call' = Advanced(d, b, error, FALSE)
      BY <2>2
    <2>4. Only(d) /\ call'[d].program = call[d].program
      BY <2>2, <2>3, MovedOn
    <2> QED
      BY <1>1, <2>4
  <1>6. ASSUME NEW d \in Calls, NEW b \in Branches(d), Skip(d, b)
        PROVE  call'[c].program = call[c].program
    <2>1. Waiting(d, b) /\ call[d].at[b] <= Len(call[d].program.branches[b])
      BY <1>6 DEF Skip, Waiting
    <2>2. CASE call' = Advanced(d, b, TRUE, FALSE)
      BY <1>1, <2>1, <2>2, MovedOn
    <2>3. CASE call' = [call EXCEPT ![d].at[b] = @ + 1]
      BY <1>1, <2>1, <2>3, SkippedOver
    <2> QED
      BY <1>6, <2>2, <2>3 DEF Skip
  <1>7. ASSUME NEW d \in Calls, Answer(d)
        PROVE  call'[c].program = call[c].program
    BY <1>1, <1>7, Answered
  <1>8. CASE UNCHANGED poolVars
    BY <1>8 DEF poolVars
  <1>9. ASSUME NEW d \in Calls, NEW b \in Branches(d), Lose(d, b)
        PROVE  call'[c].program = call[c].program
    <2>1. PICK s \in 1..MaxSessions, st \in Busy : LoseEffect(d, b, s, st)
      BY <1>9, LoseTyped
    <2>2. /\ call[d].at[b] <= Len(call[d].program.branches[b])
          /\ call' = Advanced(d, b, TRUE, TRUE)
      BY <2>1 DEF LoseEffect
    <2>3. Only(d) /\ call'[d].program = call[d].program
      BY <2>2, MovedOn
    <2> QED
      BY <1>1, <2>3
  <1> QED
    BY <1>2, <1>3, <1>4, <1>5, <1>6, <1>7, <1>8, <1>9 DEF PoolNext, CallStep, AllAnswered

\* A call of the editor, or a validation, stays one.
LEMMA LooseStill ==
    ASSUME PoolTypes, Unstarted, [PoolNext]_poolVars, LooseEnds
    PROVE  LooseEnds'
  <1>1. PICK c \in Calls : Edits(c) \/ call[c].program = Connected(<<validate_function>>)
    BY DEF LooseEnds
  <1>2. Len(call[c].program.branches) # 0
    BY <1>1, EditorFormed, ValidateFormed DEF Edits
  <1>3. call'[c].program = call[c].program
    BY <1>2, ProgramKept DEF Unstarted
  <1> QED
    BY <1>1, <1>3 DEF LooseEnds, Edits

\* The steps of one call, on the call alone.
LEMMA StartStands ==
    ASSUME PoolTypes, Unstarted, NEW c \in Calls, StartCall(c), Standing(c), ~LooseEnds'
    PROVE  Standing(c)'
  <1>1. PICK r : r = call'[c]
    OBVIOUS
  <1>2. /\ r.program \in Programs /\ \A b \in 1..Len(r.program.branches) : r.at[b] = 1
        /\ ~r.failed /\ r.result \in {"read_only", "running"} /\ db' = db
    BY <1>1, StartTyped
  <1>3. /\ \A sql \in Scripts : r.program # Editor(sql)
        /\ r.program # Connected(<<validate_function>>)
    BY <1>1 DEF LooseEnds, Edits
  <1>4. Reader(r.program) \/ Writer(r.program)
    BY <1>2, <1>3, ProgramKinds
  <1>5. ReadsOnly(r.program) \/ EndsInChange(r.program)
    BY <1>4, ReaderReads, WriterEnds
  <1>6. c \notin db
    <2>1. Len(call[c].program.branches) = 0
      BY DEF StartCall, Unstarted
    <2> QED
      BY <2>1 DEF Standing, Stands, EndsInChange
  <1>7. EndsInChange(r.program) => ~Over(r)
    <2> SUFFICES ASSUME EndsInChange(r.program) PROVE ~Over(r)
      OBVIOUS
    <2>1. Len(r.program.branches) = 1 /\ Len(r.program.branches[1]) \in Nat \ {0}
      BY DEF EndsInChange
    <2>2. r.at[1] = 1
      BY <1>2, <2>1
    <2> QED
      BY <2>1, <2>2 DEF Over
  <1> QED
    BY <1>1, <1>2, <1>5, <1>6, <1>7, StandsNow DEF Stands

\* A call with a hold before it has not ended.
LEMMA Midway ==
    ASSUME PoolTypes, NEW c \in Calls, Standing(c), NEW b \in Branches(c), call[c].result = "running",
           call[c].at[b] <= Len(call[c].program.branches[b])
    PROVE  /\ c \notin db
           /\ ReadsOnly(call[c].program) \/ EndsInChange(call[c].program)
           /\ ReadsOnly(call[c].program) => Hold(c, b) \in ReadHolds
           /\ EndsInChange(call[c].program) =>
                 /\ b = 1 /\ ~call[c].failed /\ call[c].at[1] \in 1..Len(call[c].program.branches[1])
                 /\ call[c].at[1] < Len(call[c].program.branches[1]) => Hold(c, b) \in ReadHolds
                 /\ call[c].at[1] = Len(call[c].program.branches[1]) =>
                       Hold(c, b) \in ChangeHolds /\ Hold(c, b) = Last(call[c].program)
  <1>1. PICK r : r = call[c]
    OBVIOUS
  <1>2. /\ CallTyped(r) /\ b \in 1..Len(r.program.branches) /\ r.at[b] <= Len(r.program.branches[b])
        /\ Stands(r, c \in db) /\ r.result = "running"
    BY <1>1 DEF PoolTypes, Branches, Standing
  <1>3. r.at[b] \in Nat \ {0} /\ Len(r.program.branches[b]) \in Nat
    <2>1. Len(r.program.branches[b]) \in Nat
      BY <1>2, BranchLength
    <2>2. r.at[b] \in Nat \ {0}
      BY <1>2 DEF CallTyped
    <2> QED
      BY <2>1, <2>2
  <1>4. PICK k \in 1..Len(r.program.branches[b]) : k = r.at[b] /\ Hold(c, b) = r.program.branches[b][k]
    <2>1. r.at[b] \in 1..Len(r.program.branches[b])
      BY <1>2, <1>3
    <2> QED
      BY <1>1, <2>1 DEF Hold
  <1>5. ReadsOnly(r.program) \/ EndsInChange(r.program)
    BY <1>2 DEF Stands
  <1>6. ReadsOnly(r.program) => Hold(c, b) \in ReadHolds
    BY <1>2, <1>4 DEF ReadsOnly
  <1>7. ASSUME EndsInChange(r.program)
        PROVE  /\ b = 1 /\ ~Over(r) /\ r.at[1] \in 1..Len(r.program.branches[1])
               /\ r.at[1] < Len(r.program.branches[1]) => Hold(c, b) \in ReadHolds
               /\ r.at[1] = Len(r.program.branches[1]) =>
                     Hold(c, b) \in ChangeHolds /\ Hold(c, b) = Last(r.program)
    <2>1. b = 1
      BY <1>2, <1>7 DEF EndsInChange
    <2>2. ~Over(r)
      BY <1>2, <1>3, <2>1 DEF Over
    <2>3. k < Len(r.program.branches[1]) => Hold(c, b) \in ReadHolds
      <3>1. k < Len(r.program.branches[1]) => k \in 1..Len(r.program.branches[1]) - 1
        BY <1>3, <2>1
      <3> QED
        BY <1>4, <1>7, <2>1, <3>1 DEF EndsInChange
    <2>4. k = Len(r.program.branches[1]) => Hold(c, b) = Last(r.program)
      BY <1>4, <2>1 DEF Last
    <2> QED
      BY <1>4, <1>7, <2>1, <2>2, <2>3, <2>4 DEF EndsInChange
  <1>8. c \notin db /\ (EndsInChange(r.program) => ~r.failed)
    BY <1>2, <1>7 DEF Stands
  <1> QED
    BY <1>1, <1>5, <1>6, <1>7, <1>8

LEMMA RunStands ==
    ASSUME PoolTypes, \A s \in 1..MaxSessions : Clean(session[s]),
           NEW c \in Calls, Standing(c), NEW b \in Branches(c), Run(c, b)
    PROVE  /\ Standing(c)' /\ Only(c)
           /\ \A s \in 1..MaxSessions : Clean(session[s])'
           /\ \E made \in SUBSET {c} : db' = db \cup made
  <1>1. PICK s \in 1..MaxSessions, st \in Busy :
           /\ Hold(c, b) \in Holds(AllTexts)
           /\ call[c].at[b] <= Len(call[c].program.branches[b])
           /\ st \in Outcomes(c, s, Hold(c, b))
           /\ \A r \in (1..MaxSessions) \ {s} : session'[r] = session[r]
           /\ session'[s].tx = st.tx /\ session'[s].pending = st.pending
           /\ db' = db \cup st.committed /\ Finishes(c, b, st)
    <2>1. PICK s \in 1..MaxSessions, st \in Busy : RunEffect(c, b, s, st)
      BY RunTyped
    <2> QED
      BY <2>1 DEF RunEffect
  <1>2. PICK error \in BOOLEAN : call' = Advanced(c, b, error, FALSE) /\ (st.error => error)
    <2>1. st.error \in BOOLEAN
      BY DEF Busy
    <2>2. PICK error \in BOOLEAN :
             (error = st.error \/ (error /\ TooLate(Hold(c, b), st))) /\ call' = Advanced(c, b, error, FALSE)
      BY <1>1, Zenon DEF Finishes
    <2>3. st.error => error
      BY <2>2
    <2> QED
      BY <2>2, <2>3
  <1>3. PICK hold : hold = Hold(c, b)
    OBVIOUS
  <1>4. PICK old : old = call[c]
    OBVIOUS
  <1>5. PICK r : r = call'[c]
    OBVIOUS
  <1>0. PICK stop \in BOOLEAN : stop <=> error /\ hold.stops
    OBVIOUS
  <1>6. /\ Only(c) /\ r.program = old.program /\ r.result = old.result
        /\ r.failed <=> old.failed \/ stop
        /\ r.at = [old.at EXCEPT ![b] = IF stop THEN Len(old.program.branches[b]) + 1
                                        ELSE old.at[b] + 1]
    <2>1. call' = Advanced(c, b, error, FALSE) /\ call[c].at[b] <= Len(call[c].program.branches[b])
      BY <1>1, <1>2
    <2>2. /\ Only(c) /\ call'[c].program = call[c].program /\ call'[c].result = call[c].result
          /\ call'[c].failed = (call[c].failed \/ (error /\ Hold(c, b).stops))
          /\ call'[c].at = [call[c].at EXCEPT ![b] = IF error /\ Hold(c, b).stops
                                                      THEN Len(call[c].program.branches[b]) + 1
                                                      ELSE call[c].at[b] + 1]
      BY <2>1, MovedOn
    <2>3. r.failed <=> old.failed \/ stop
      BY <1>0, <1>3, <1>4, <1>5, <2>2
    <2> QED
      BY <1>0, <1>3, <1>4, <1>5, <2>2, <2>3
  <1>7. /\ old.result = "running" /\ b \in DOMAIN old.at /\ old.at \in [DOMAIN old.at -> Nat]
    BY <1>4 DEF Run, Holding, PoolTypes, CallTyped, Branches
  <1>8. /\ c \notin db
        /\ ReadsOnly(old.program) \/ EndsInChange(old.program)
        /\ ReadsOnly(old.program) => hold \in ReadHolds
        /\ EndsInChange(old.program) =>
              /\ b = 1 /\ ~old.failed /\ old.at[1] \in 1..Len(old.program.branches[1])
              /\ old.at[1] < Len(old.program.branches[1]) => hold \in ReadHolds
              /\ old.at[1] = Len(old.program.branches[1]) => hold \in ChangeHolds /\ hold = Last(old.program)
    BY <1>1, <1>3, <1>4, <1>7, Midway
  <1>9. session[s] \in Settled /\ Clean(session[s])
    BY DEF PoolTypes
  <1>10. hold \in ReadHolds => Clean(st) /\ st.committed = {}
    BY <1>1, <1>3, <1>9, ReadOutcome
  <1>11. hold \in ChangeHolds => Clean(st) /\ st.committed = IF st.error THEN {} ELSE {c}
    <2>1. ASSUME hold \in ChangeHolds
          PROVE  Clean(st) /\ st.committed = IF st.error THEN {} ELSE {c}
      <3>1. st \in Outcomes(c, s, hold)
        BY <1>1, <1>3
      <3> QED
        BY <1>9, <2>1, <3>1, ChangeOutcome, Zenon
    <2> QED
      BY <1>2, <2>1
  <1>12. hold \in ReadHolds \/ hold \in ChangeHolds
    BY <1>8
  <1>13. Clean(st) /\ st.committed \in SUBSET {c}
    BY <1>10, <1>11, <1>12
  <1>14. ASSUME NEW q \in 1..MaxSessions
         PROVE  Clean(session[q])'
    <2>1. Clean(session'[q])
      BY <1>1, <1>13 DEF Clean
    <2> QED
      BY <2>1 DEF Clean
  <1>15. Stands(r, c \in db')
    <2>1. CASE ReadsOnly(old.program)
      <3>1. db' = db /\ ~EndsInChange(old.program)
        BY <1>1, <1>8, <1>10, <2>1 DEF ReadsOnly, EndsInChange
      <3> QED
        BY <1>6, <1>7, <1>8, <2>1, <3>1 DEF Stands
    <2>2. CASE EndsInChange(old.program)
      <3>1. Len(old.program.branches[1]) \in Nat /\ b = 1 /\ ~old.failed
        BY <1>8, <2>2 DEF EndsInChange
      <3>2. CASE old.at[1] < Len(old.program.branches[1])
        <4>1. hold \in ReadHolds /\ db' = db
          BY <1>1, <1>8, <1>10, <2>2, <3>2
        <4>2. r.at[1] = IF stop THEN Len(old.program.branches[1]) + 1 ELSE old.at[1] + 1
          BY <1>6, <1>7, <3>1
        <4>3. (stop => Over(r)) /\ (~stop => ~Over(r))
          BY <1>6, <1>8, <2>2, <3>1, <3>2, <4>2 DEF Over
        <4> QED
          BY <1>6, <1>7, <1>8, <2>2, <4>1, <4>3 DEF Stands
      <3>3. CASE old.at[1] = Len(old.program.branches[1])
        <4>1. hold \in ChangeHolds /\ hold.stops
          BY <1>8, <2>2, <3>3 DEF ChangeHolds
        <4>2. r.at[1] = Len(old.program.branches[1]) + 1 /\ (r.failed <=> error)
          <5>1. stop <=> error
            BY <1>0, <4>1
          <5>2. r.failed <=> error
            BY <1>6, <3>1, <5>1
          <5>3. r.at[1] = Len(old.program.branches[1]) + 1
            BY <1>6, <1>7, <3>1, <3>3
          <5> QED
            BY <5>2, <5>3
        <4>3. Over(r)
          BY <1>6, <3>1, <4>2 DEF Over
        <4>4. ~error => c \in db'
          BY <1>1, <1>2, <1>8, <1>11, <4>1
        <4> QED
          BY <1>6, <1>7, <2>2, <4>2, <4>3, <4>4 DEF Stands
      <3> QED
        BY <1>8, <2>2, <3>1, <3>2, <3>3
    <2> QED
      BY <1>8, <2>1, <2>2
  <1> QED
    BY <1>1, <1>5, <1>6, <1>13, <1>14, <1>15, StandsNow

LEMMA LoseStands ==
    ASSUME PoolTypes, \A s \in 1..MaxSessions : Clean(session[s]),
           NEW c \in Calls, Standing(c), NEW b \in Branches(c), Lose(c, b)
    PROVE  /\ Standing(c)' /\ Only(c)
           /\ \A s \in 1..MaxSessions : Clean(session[s])'
           /\ \E made \in SUBSET {c} : db' = db \cup made
  <1>1. PICK s \in 1..MaxSessions, st \in Busy : LoseEffect(c, b, s, st)
    BY LoseTyped
  <1>2. /\ Hold(c, b) \in Holds(AllTexts)
        /\ call[c].at[b] <= Len(call[c].program.branches[b])
        /\ st \in Outcomes(c, s, Hold(c, b)) /\ session'[s] = Fresh
        /\ \A r \in (1..MaxSessions) \ {s} : session'[r] = session[r]
        /\ db' = db \cup st.committed /\ call' = Advanced(c, b, TRUE, TRUE)
    BY <1>1 DEF LoseEffect
  <1>3. PICK hold, old, r : hold = Hold(c, b) /\ old = call[c] /\ r = call'[c]
    OBVIOUS
  <1>4. PICK stop \in BOOLEAN : stop <=> hold.stops
    OBVIOUS
  <1>5. /\ Only(c) /\ r.program = old.program /\ r.result = old.result
        /\ r.failed <=> old.failed \/ stop
        /\ r.at = [old.at EXCEPT ![b] = IF stop THEN Len(old.program.branches[b]) + 1 ELSE old.at[b] + 1]
    <2>1. /\ Only(c) /\ call'[c].program = call[c].program /\ call'[c].result = call[c].result
          /\ call'[c].failed = (call[c].failed \/ (TRUE /\ Hold(c, b).stops))
          /\ call'[c].at = [call[c].at EXCEPT ![b] = IF TRUE /\ Hold(c, b).stops
                                                      THEN Len(call[c].program.branches[b]) + 1
                                                      ELSE call[c].at[b] + 1]
      BY <1>2, MovedOn
    <2> QED
      BY <1>3, <1>4, <2>1
  <1>6. old.result = "running" /\ b \in DOMAIN old.at /\ old.at \in [DOMAIN old.at -> Nat]
    BY <1>3 DEF Lose, Holding, PoolTypes, CallTyped, Branches
  <1>7. /\ c \notin db
        /\ ReadsOnly(old.program) \/ EndsInChange(old.program)
        /\ ReadsOnly(old.program) => hold \in ReadHolds
        /\ EndsInChange(old.program) =>
              /\ b = 1 /\ ~old.failed /\ old.at[1] \in 1..Len(old.program.branches[1])
              /\ old.at[1] < Len(old.program.branches[1]) => hold \in ReadHolds
              /\ old.at[1] = Len(old.program.branches[1]) => hold \in ChangeHolds /\ hold = Last(old.program)
    BY <1>2, <1>3, <1>6, Midway
  <1>8. session[s] \in Settled /\ Clean(session[s])
    BY DEF PoolTypes
  <1>9. hold \in ReadHolds => st.committed = {}
    BY <1>2, <1>3, <1>8, ReadOutcome
  <1>10. hold \in ChangeHolds => st.committed \in SUBSET {c}
    <2>1. ASSUME hold \in ChangeHolds
          PROVE  st.committed = IF st.error THEN {} ELSE {c}
      <3>1. st \in Outcomes(c, s, hold)
        BY <1>2, <1>3
      <3> QED
        BY <1>8, <2>1, <3>1, ChangeOutcome, Zenon
    <2> QED
      BY <2>1
  <1>11. st.committed \in SUBSET {c}
    BY <1>7, <1>9, <1>10
  <1>12. ASSUME NEW q \in 1..MaxSessions
         PROVE  Clean(session[q])'
    <2>1. Clean(session'[q])
      BY <1>2 DEF Clean, Fresh
    <2> QED
      BY <2>1 DEF Clean
  <1>13. Stands(r, c \in db')
    <2>1. CASE ReadsOnly(old.program)
      <3>1. db' = db /\ ~EndsInChange(old.program)
        BY <1>2, <1>7, <1>9, <2>1 DEF ReadsOnly, EndsInChange
      <3> QED
        BY <1>5, <1>6, <1>7, <2>1, <3>1 DEF Stands
    <2>2. CASE EndsInChange(old.program)
      <3>1. Len(old.program.branches[1]) \in Nat /\ b = 1 /\ ~old.failed
        BY <1>7, <2>2 DEF EndsInChange
      <3>2. r.at[1] = IF stop THEN Len(old.program.branches[1]) + 1 ELSE old.at[1] + 1
        BY <1>5, <1>6, <3>1
      <3>3. CASE old.at[1] < Len(old.program.branches[1])
        <4>1. hold \in ReadHolds /\ db' = db
          BY <1>2, <1>7, <1>9, <2>2, <3>3
        <4>2. (stop => Over(r)) /\ (~stop => ~Over(r))
          BY <1>5, <1>7, <2>2, <3>1, <3>2, <3>3 DEF Over
        <4> QED
          BY <1>5, <1>6, <1>7, <2>2, <4>1, <4>2 DEF Stands
      <3>4. CASE old.at[1] = Len(old.program.branches[1])
        <4>1. stop /\ r.failed
          BY <1>4, <1>5, <1>7, <2>2, <3>4 DEF ChangeHolds
        <4>2. Over(r)
          BY <1>5, <3>1, <3>2, <4>1 DEF Over
        <4> QED
          BY <1>5, <1>6, <2>2, <4>1, <4>2 DEF Stands
      <3> QED
        BY <1>7, <2>2, <3>1, <3>3, <3>4
    <2> QED
      BY <1>7, <2>1, <2>2
  <1> QED
    BY <1>2, <1>3, <1>5, <1>11, <1>12, <1>13, StandsNow

LEMMA SkipStands ==
    ASSUME PoolTypes, NEW c \in Calls, Standing(c), NEW b \in Branches(c), Skip(c, b)
    PROVE  Standing(c)' /\ Only(c)
  <1>1. PICK old : old = call[c]
    OBVIOUS
  <1>2. PICK r : r = call'[c]
    OBVIOUS
  <1>3. PICK hold : hold = Hold(c, b)
    OBVIOUS
  <1>4. /\ Waiting(c, b) /\ call[c].at[b] <= Len(call[c].program.branches[b]) /\ db' = db
        /\ old.result = "running" /\ b \in DOMAIN old.at /\ old.at \in [DOMAIN old.at -> Nat]
    BY <1>1 DEF Skip, Waiting, PoolTypes, CallTyped, Branches
  <1>5. /\ c \notin db
        /\ ReadsOnly(old.program) \/ EndsInChange(old.program)
        /\ EndsInChange(old.program) =>
              /\ b = 1 /\ ~old.failed /\ old.at[1] \in 1..Len(old.program.branches[1])
              /\ old.at[1] = Len(old.program.branches[1]) => hold = Last(old.program)
    BY <1>1, <1>3, <1>4, Midway
  <1>6. CASE hold.optional /\ call' = [call EXCEPT ![c].at[b] = @ + 1]
    <2>1. /\ Only(c) /\ r.program = old.program /\ r.result = old.result /\ r.failed = old.failed
          /\ r.at = [old.at EXCEPT ![b] = old.at[b] + 1]
      <3>1. Waiting(c, b) /\ call' = [call EXCEPT ![c].at[b] = @ + 1]
        BY <1>4, <1>6
      <3>2. /\ Only(c) /\ call'[c].program = call[c].program /\ call'[c].result = call[c].result
            /\ call'[c].failed = call[c].failed
            /\ call'[c].at = [call[c].at EXCEPT ![b] = call[c].at[b] + 1]
        BY <3>1, SkippedOver
      <3> QED
        BY <1>1, <1>2, <3>2
    <2>2. EndsInChange(old.program) /\ Over(r) => old.program = OwnCommands["alter_table"]
      <3> SUFFICES ASSUME EndsInChange(old.program), Over(r) PROVE old.program = OwnCommands["alter_table"]
        OBVIOUS
      <3>1. r.at[1] = old.at[1] + 1 /\ Len(old.program.branches[1]) \in Nat
        BY <1>4, <1>5, <2>1 DEF EndsInChange
      <3>2. old.at[1] = Len(old.program.branches[1])
        BY <1>5, <2>1, <3>1 DEF Over
      <3> QED
        BY <1>5, <1>6, <3>2 DEF EndsInChange
    <2>3. Stands(r, c \in db')
      BY <1>4, <1>5, <2>1, <2>2 DEF Stands
    <2> QED
      BY <1>2, <2>1, <2>3, StandsNow
  <1>7. CASE hold.stops /\ call' = Advanced(c, b, TRUE, FALSE)
    <2>1. /\ Only(c) /\ r.program = old.program /\ r.result = old.result /\ r.failed
          /\ r.at = [old.at EXCEPT ![b] = Len(old.program.branches[b]) + 1]
      BY <1>1, <1>2, <1>3, <1>4, <1>7, MovedOn
    <2>2. EndsInChange(old.program) => Over(r)
      BY <1>4, <1>5, <2>1 DEF Over, EndsInChange
    <2>3. Stands(r, c \in db')
      BY <1>4, <1>5, <2>1, <2>2 DEF Stands
    <2> QED
      BY <1>2, <2>1, <2>3, StandsNow
  <1> QED
    BY <1>3, <1>6, <1>7 DEF Skip

LEMMA AnswerStands ==
    ASSUME PoolTypes, NEW c \in Calls, Standing(c), Answer(c)
    PROVE  Standing(c)' /\ Only(c)
  <1>1. PICK old : old = call[c]
    OBVIOUS
  <1>2. PICK r : r = call'[c]
    OBVIOUS
  <1>3. /\ Only(c) /\ r.program = old.program /\ r.at = old.at /\ r.failed = old.failed
        /\ r.result = (IF old.failed THEN "error" ELSE "ok") /\ db' = db
    BY <1>1, <1>2, Answered
  <1>4. old.result = "running" /\ CallTyped(old)
    BY <1>1 DEF Answer, PoolTypes
  <1>5. ASSUME NEW b \in 1..Len(old.program.branches)
        PROVE  old.at[b] > Len(old.program.branches[b])
    <2>1. ~Waiting(c, b) /\ ~Holding(c, b) /\ b \in Branches(c)
      BY <1>1 DEF Answer, Branches
    <2>2. ~(old.at[b] <= Len(old.program.branches[b]))
      BY <1>1, <1>4, <2>1 DEF Waiting, Holding
    <2>3. old.at[b] \in Nat /\ Len(old.program.branches[b]) \in Nat
      BY <1>4, BranchLength DEF CallTyped
    <2> QED
      BY <2>2, <2>3
  <1>6. Stands(r, c \in db')
    BY <1>1, <1>3, <1>4, <1>5 DEF Standing, Stands, Over
  <1> QED
    BY <1>2, <1>3, <1>6, StandsNow

LEMMA StandNext ==
    ASSUME PoolTypes, CommandsStand, [PoolNext]_poolVars
    PROVE  CommandsStand'
  <1>0. ASSUME NEW c \in Calls, Only(c), Unstarted, call'[c].result # "new"
        PROVE  Unstarted'
    BY <1>0 DEF Only, Unstarted
  <1>1. ASSUME NEW c \in Calls, Only(c), UNCHANGED db, \A d \in Calls : Standing(d), Standing(c)'
        PROVE  \A d \in Calls : Standing(d)'
    <2>1. {} \in SUBSET {c} /\ db' = db \cup {}
      BY <1>1
    <2> QED
      BY <1>1, <2>1, OthersStand
  <1> DEFINE Good == (\A s \in 1..MaxSessions : Clean(session[s])) /\ \A c \in Calls : Standing(c)
  <1>2. Unstarted /\ (~LooseEnds' => Good)
    BY LooseStill DEF CommandsStand
  <1>3. \A s \in 1..MaxSessions : session'[s] = session[s] => (Clean(session[s]) => Clean(session[s])')
    BY DEF Clean
  <1>4. Clean(Fresh)
    BY DEF Clean, Fresh
  <1> HIDE DEF Good
  <1>5. SUFFICES Unstarted' /\ (~LooseEnds' => Good')
    BY DEF CommandsStand, Good
  <1>6. ASSUME NEW c \in Calls, StartCall(c)
        PROVE  Unstarted' /\ (~LooseEnds' => Good')
    <2>1. Only(c) /\ call'[c].result # "new" /\ UNCHANGED <<session, db>>
      BY <1>6, StartTyped
    <2>2. ASSUME ~LooseEnds'
          PROVE  Good'
      <3>1. Standing(c)'
        BY <1>2, <1>6, <2>2, StartStands DEF Good
      <3>2. \A s \in 1..MaxSessions : Clean(session[s])'
        BY <1>2, <1>3, <2>1, <2>2 DEF Good
      <3>3. \A d \in Calls : Standing(d)'
        BY <1>1, <1>2, <2>1, <2>2, <3>1 DEF Good
      <3> QED
        BY <3>2, <3>3 DEF Good
    <2> QED
      BY <1>0, <1>2, <2>1, <2>2
  <1>7. ASSUME NEW s \in 1..MaxSessions, NEW c \in Calls, NEW b \in Branches(c), Waiting(c, b), UNCHANGED db,
               call' = [call EXCEPT ![c].held[b] = s],
               \A r \in (1..MaxSessions) \ {s} : session'[r] = session[r],
               Good => Clean(session'[s])
        PROVE  Unstarted' /\ (~LooseEnds' => Good')
    <2>1. /\ Only(c) /\ call'[c].program = call[c].program /\ call'[c].at = call[c].at
          /\ call'[c].failed = call[c].failed /\ call'[c].result = call[c].result
      BY <1>7, HandedOut
    <2>2. call'[c].result # "new"
      BY <1>7, <2>1 DEF Waiting
    <2>3. ASSUME Good
          PROVE  Good'
      <3>1. Standing(c)'
        BY <1>7, <2>1, <2>3, StandsStill DEF Good
      <3>2. \A d \in Calls : Standing(d)'
        BY <1>1, <1>7, <2>1, <2>3, <3>1 DEF Good
      <3>3. ASSUME NEW r \in 1..MaxSessions
            PROVE  Clean(session[r])'
        <4>1. CASE r = s
          BY <1>7, <2>3, <4>1 DEF Clean
        <4>2. CASE r # s
          BY <1>3, <1>7, <2>3, <4>2 DEF Good
        <4> QED
          BY <4>1, <4>2
      <3> QED
        BY <3>2, <3>3 DEF Good
    <2> QED
      BY <1>0, <1>2, <2>1, <2>2, <2>3
  <1>8. CASE Get
    <2>1. PICK s \in 1..MaxSessions :
             /\ UNCHANGED db
             /\ \A r \in (1..MaxSessions) \ {s} : session'[r] = session[r]
             /\ \/ session'[s] = Fresh /\ call' = call
                \/ /\ session'[s] = [session[s] EXCEPT !.default = TRUE] \/ session'[s] = session[s]
                   /\ \E c \in Calls : \E b \in Branches(c) :
                         Waiting(c, b) /\ call' = [call EXCEPT ![c].held[b] = s]
      BY <1>8, GetTyped DEF PoolTypes
    <2>2. Good => Clean(session'[s])
      <3> SUFFICES ASSUME Good PROVE Clean(session'[s])
        OBVIOUS
      <3>1. Clean(session[s]) /\ session[s] \in Settled
        BY DEF Good, PoolTypes
      <3>2. Clean([session[s] EXCEPT !.default = TRUE])
        BY <3>1 DEF Clean, Settled
      <3> QED
        BY <1>4, <2>1, <3>1, <3>2
    <2>3. CASE session'[s] = Fresh /\ call' = call
      <3>1. Unstarted'
        BY <1>2, <2>3 DEF Unstarted
      <3>2. ASSUME Good, NEW d \in Calls
            PROVE  Standing(d)'
        <4>1. PICK r : r = call[d]
          OBVIOUS
        <4>2. Stands(r, d \in db') /\ r = call'[d]
          BY <2>1, <2>3, <3>2, <4>1 DEF Good, Standing, Stands
        <4> QED
          BY <4>2, StandsNow
      <3>3. ASSUME Good, NEW r \in 1..MaxSessions
            PROVE  Clean(session[r])'
        <4>1. CASE r = s
          BY <2>2, <3>3, <4>1 DEF Clean
        <4>2. CASE r # s
          BY <1>3, <2>1, <3>3, <4>2 DEF Good
        <4> QED
          BY <4>1, <4>2
      <3> QED
        BY <1>2, <3>1, <3>2, <3>3 DEF Good
    <2> QED
      BY <1>7, <2>1, <2>2, <2>3
  <1>9. ASSUME NEW c \in Calls, NEW b \in Branches(c), Open(c, b)
        PROVE  Unstarted' /\ (~LooseEnds' => Good')
    <2>1. PICK s \in 1..MaxSessions :
             /\ Waiting(c, b) /\ UNCHANGED db /\ session'[s] = Fresh
             /\ \A r \in (1..MaxSessions) \ {s} : session'[r] = session[r]
             /\ call' = [call EXCEPT ![c].held[b] = s]
      BY <1>9, OpenTyped
    <2> QED
      BY <1>4, <1>7, <2>1
  <1>10. ASSUME NEW c \in Calls, NEW b \in Branches(c), Run(c, b)
         PROVE  Unstarted' /\ (~LooseEnds' => Good')
    <2>1. Only(c) /\ call'[c].result # "new"
      <3>1. PICK s \in 1..MaxSessions, st \in Busy : RunEffect(c, b, s, st)
        BY <1>10, RunTyped
      <3>2. /\ call[c].at[b] <= Len(call[c].program.branches[b])
            /\ \E error \in BOOLEAN : call' = Advanced(c, b, error, FALSE)
        <4>1. call[c].at[b] <= Len(call[c].program.branches[b]) /\ Finishes(c, b, st)
          BY <3>1 DEF RunEffect
        <4> QED
          BY <4>1, Zenon DEF Finishes
      <3>3. Only(c) /\ call'[c].result = call[c].result
        <4>1. PICK error \in BOOLEAN : call' = Advanced(c, b, error, FALSE)
          BY <3>2, Zenon
        <4> QED
          BY <3>2, <4>1, MovedOn, Zenon
      <3> QED
        BY <1>10, <3>3 DEF Run, Holding
    <2>2. ASSUME Good
          PROVE  Good'
      <3>1. /\ Standing(c)' /\ \A s \in 1..MaxSessions : Clean(session[s])'
            /\ \E made \in SUBSET {c} : db' = db \cup made
        BY <1>10, <2>2, RunStands DEF Good
      <3>2. ASSUME NEW d \in Calls, d # c
            PROVE  Standing(d)'
        BY <2>1, <2>2, <3>1, <3>2, OthersStand DEF Good
      <3> QED
        BY <3>1, <3>2 DEF Good
    <2> QED
      BY <1>0, <1>2, <2>1, <2>2
  <1>11. ASSUME NEW c \in Calls, NEW b \in Branches(c), Skip(c, b)
         PROVE  Unstarted' /\ (~LooseEnds' => Good')
    <2>1. UNCHANGED <<session, db>> /\ call[c].result = "running"
      BY <1>11 DEF Skip, Waiting
    <2>2. Only(c) /\ call'[c].result # "new"
      <3>1. Waiting(c, b) /\ call[c].at[b] <= Len(call[c].program.branches[b])
        BY <1>11 DEF Skip, Waiting
      <3>2. CASE call' = Advanced(c, b, TRUE, FALSE)
        BY <2>1, <3>1, <3>2, MovedOn
      <3>3. CASE call' = [call EXCEPT ![c].at[b] = @ + 1]
        BY <2>1, <3>1, <3>3, SkippedOver
      <3> QED
        BY <1>11, <3>2, <3>3 DEF Skip
    <2>3. ASSUME Good
          PROVE  Good'
      <3>1. Standing(c)'
        BY <1>11, <2>3, SkipStands DEF Good
      <3>2. \A s \in 1..MaxSessions : Clean(session[s])'
        BY <1>3, <2>1, <2>3 DEF Good
      <3> QED
        BY <1>1, <2>1, <2>2, <2>3, <3>1, <3>2 DEF Good
    <2> QED
      BY <1>0, <1>2, <2>2, <2>3
  <1>12. ASSUME NEW c \in Calls, Answer(c)
         PROVE  Unstarted' /\ (~LooseEnds' => Good')
    <2>1. Only(c) /\ call'[c].result # "new" /\ UNCHANGED <<session, db>>
      BY <1>12, Answered
    <2>2. ASSUME Good
          PROVE  Good'
      <3>1. Standing(c)'
        BY <1>12, <2>2, AnswerStands DEF Good
      <3>2. \A s \in 1..MaxSessions : Clean(session[s])'
        BY <1>3, <2>1, <2>2 DEF Good
      <3> QED
        BY <1>1, <2>1, <2>2, <3>1, <3>2 DEF Good
    <2> QED
      BY <1>0, <1>2, <2>1, <2>2
  <1>13. CASE UNCHANGED poolVars
    <2>1. UNCHANGED <<session, db, call>>
      BY <1>13 DEF poolVars
    <2>2. ASSUME Good, NEW d \in Calls
          PROVE  Standing(d)'
      <3>1. PICK r : r = call[d]
        OBVIOUS
      <3>2. Stands(r, d \in db') /\ r = call'[d]
        BY <2>1, <2>2, <3>1 DEF Good, Standing, Stands
      <3> QED
        BY <3>2, StandsNow
    <2>3. Unstarted' /\ (Good => \A s \in 1..MaxSessions : Clean(session[s])')
      BY <1>2, <1>3, <2>1 DEF Unstarted, Good
    <2> QED
      BY <1>2, <2>2, <2>3 DEF Good
  <1>14. ASSUME NEW c \in Calls, NEW b \in Branches(c), Lose(c, b)
         PROVE  Unstarted' /\ (~LooseEnds' => Good')
    <2>1. Only(c) /\ call'[c].result # "new"
      <3>1. PICK s \in 1..MaxSessions, st \in Busy : LoseEffect(c, b, s, st)
        BY <1>14, LoseTyped
      <3>2. /\ call[c].at[b] <= Len(call[c].program.branches[b])
            /\ call' = Advanced(c, b, TRUE, TRUE)
        BY <3>1 DEF LoseEffect
      <3>3. Only(c) /\ call'[c].result = call[c].result
        BY <3>2, MovedOn
      <3> QED
        BY <1>14, <3>3 DEF Lose, Holding
    <2>2. ASSUME Good
          PROVE  Good'
      <3>1. /\ Standing(c)' /\ \A s \in 1..MaxSessions : Clean(session[s])'
            /\ \E made \in SUBSET {c} : db' = db \cup made
        BY <1>14, <2>2, LoseStands DEF Good
      <3>2. ASSUME NEW d \in Calls, d # c
            PROVE  Standing(d)'
        BY <2>1, <2>2, <3>1, <3>2, OthersStand DEF Good
      <3> QED
        BY <3>1, <3>2 DEF Good
    <2> QED
      BY <1>0, <1>2, <2>1, <2>2
  <1> QED
    BY <1>6, <1>8, <1>9, <1>10, <1>11, <1>12, <1>13, <1>14 DEF PoolNext, CallStep, AllAnswered

LEMMA StandInit == PoolInit => CommandsStand
  <1> SUFFICES ASSUME PoolInit PROVE CommandsStand
    OBVIOUS
  <1>1. PICK none : none = <<>>
    OBVIOUS
  <1>2. PICK p : p = Connected(none)
    OBVIOUS
  <1>3. Len(p.branches) = 0
    BY <1>1, <1>2 DEF Connected
  <1>4. ASSUME NEW c \in Calls
        PROVE  Standing(c) /\ Len(call[c].program.branches) = 0 /\ ~call[c].lost
    <2>1. /\ call[c].program = p /\ call[c].result = "new" /\ ~call[c].failed /\ ~call[c].lost
          /\ c \notin db
      BY <1>1, <1>2 DEF PoolInit
    <2> QED
      BY <1>3, <2>1 DEF Standing, Stands, EndsInChange
  <1>5. \A s \in 1..MaxSessions : Clean(session[s])
    BY DEF PoolInit, Fresh, Clean
  <1> QED
    BY <1>4, <1>5 DEF CommandsStand, Unstarted

LEMMA CommandsAlwaysStand == PoolSpec => [](PoolTypes /\ CommandsStand)
  <1>1. PoolInit => PoolTypes /\ CommandsStand
    BY PoolInitTypes, StandInit
  <1>2. PoolTypes /\ CommandsStand /\ [PoolNext]_poolVars => (PoolTypes /\ CommandsStand)'
    BY TypesNext, StandNext
  <1> QED
    BY <1>1, <1>2, PTL DEF PoolSpec

\* A change that was reported as done is committed: no session the command got
\* had a transaction of somebody else that it could have been left to.
THEOREM ReportedIsCommittedHolds == PoolSpec => []ReportedIsCommitted
  <1>1. ASSUME PoolTypes, CommandsStand, ~LooseEnds, NEW c \in Calls,
               call[c].result = "ok", call[c].program.driver = "writable"
        PROVE  /\ \A s \in 1..MaxSessions : c \notin session[s].pending
               /\ c \in db \/ call[c].program = OwnCommands["alter_table"]
    <2>1. Stands(call[c], c \in db) /\ \A s \in 1..MaxSessions : Clean(session[s])
      BY <1>1 DEF CommandsStand, Standing
    <2>2. EndsInChange(call[c].program)
      BY <1>1, <2>1 DEF Stands, ReadsOnly
    <2>3. Over(call[c])
      <3>1. 1 \in 1..Len(call[c].program.branches)
        BY <2>2 DEF EndsInChange
      <3> QED
        BY <1>1, <2>1, <3>1 DEF Stands, Over
    <2>4. c \in db \/ call[c].program = OwnCommands["alter_table"]
      BY <1>1, <2>1, <2>2, <2>3 DEF Stands
    <2> QED
      BY <2>1, <2>4 DEF Clean
  <1>2. PoolTypes /\ CommandsStand => ReportedIsCommitted
    BY <1>1 DEF ReportedIsCommitted
  <1> QED
    BY <1>2, CommandsAlwaysStand, PTL

-----------------------------------------------------------------------------
\* What a hold does to a session with anything in it.  The changes a session
\* carries are those that wait in it and those the hold has made permanent.
Carried(st) == st.pending \cup st.committed
Writes(sql) == \E i \in 1..Len(sql) : sql[i] \in {"write", "vacuum"}

LEMMA EndsCarry ==
    ASSUME NEW st \in Busy, NEW W, Carried(st) \subseteq W, NEW kind
    PROVE  /\ Carried(Undone(st)) \subseteq W /\ Carried(Failed(st, kind)) \subseteq W
           /\ Carried(EndOfMessage(st)) \subseteq W
  <1>1. PICK ud \in Busy : ud = Undone(st)
    BY UndoneTyped
  <1>2. Carried(ud) \subseteq W
    BY <1>1 DEF Carried, Undone, Busy
  <1>3. Carried(Failed(st, kind)) \subseteq W
    BY <1>1, <1>2 DEF Carried, Failed, Busy
  <1>4. Carried(EndOfMessage(st)) \subseteq W
    BY DEF Carried, EndOfMessage, Busy
  <1> QED
    BY <1>1, <1>2, <1>3, <1>4

\* A statement adds nothing but a change of its own call.
LEMMA StatementCarries ==
    ASSUME NEW st \in Busy, NEW W, Carried(st) \subseteq W, NEW c, NEW kind,
           kind \in {"write", "vacuum"} => c \in W
    PROVE  Carried(Statement(c, st, kind)) \subseteq W
  <1>1. PICK ac : ac = Accepted(c, st, kind)
    OBVIOUS
  <1>2. Carried(ac) \subseteq W
    <2>1. CASE kind \in {"write", "vacuum"}
      BY <1>1, <2>1, EndsCarry DEF Accepted, Carried, Busy
    <2>2. CASE kind \in {"begin", "begin_read_only"}
      BY <1>1, <2>2 DEF Accepted, Carried, Busy
    <2>3. CASE kind \in {"commit", "set_read_write", "turn_off"}
      BY <1>1, <2>3 DEF Accepted, Carried, Busy
    <2>4. CASE kind = "rollback"
      BY <1>1, <2>4, EndsCarry DEF Accepted
    <2>5. CASE kind \notin {"write", "vacuum", "begin", "begin_read_only", "commit", "rollback",
                            "set_read_write", "turn_off"}
      BY <1>1, <2>5 DEF Accepted
    <2> QED
      BY <2>1, <2>2, <2>3, <2>4, <2>5
  <1> QED
    BY <1>1, <1>2, EndsCarry DEF Statement

LEMMA OutcomeCarries ==
    ASSUME NEW c \in Calls, NEW s, session[s] \in Settled, NEW W, session[s].pending \subseteq W,
           NEW hold \in Holds(AllTexts), Writes(hold.sql) => c \in W, NEW st \in Outcomes(c, s, hold)
    PROVE  Carried(st) \subseteq W
  <1>1. PICK f, n, raw : Path(c, s, hold, st, f, n, raw)
    BY OutcomeOf
  <1>2. /\ n \in 0..Len(hold.sql)
        /\ f[0] = Started(session[s])
        /\ \A k \in 1..Len(hold.sql) : f[k] = Statement(c, f[k - 1], hold.sql[k])
        /\ raw = f[n] \/ raw = Failed(f[n], hold.sql[n + 1])
        /\ st = Ended(raw, hold.rollback)
    BY <1>1 DEF Path
  <1>3. Len(hold.sql) \in Nat
    BY TextLengths DEF Holds
  <1> DEFINE Good(k) == f[k] \in Busy /\ Carried(f[k]) \subseteq W
             S == {k \in 0..Len(hold.sql) : ~Good(k)}
  <1>4. S = {}
    <2>1. SUFFICES ASSUME S # {} PROVE FALSE
      OBVIOUS
    <2>2. PICK k \in S : \A j \in S : k <= j
      <3> HIDE DEF S
      <3>1. S \in SUBSET Nat
        BY <1>3 DEF S
      <3> QED
        BY <2>1, <3>1, LeastOf
    <2>3. CASE k = 0
      <3>1. Started(session[s]) \in Busy
        BY StartedTyped
      <3>2. Carried(Started(session[s])) \subseteq W
        BY DEF Carried, Started
      <3> QED
        BY <1>2, <2>2, <2>3, <3>1, <3>2
    <2>4. CASE k # 0
      <3>1. k - 1 \in 0..Len(hold.sql) /\ k \in 1..Len(hold.sql) /\ k - 1 < k
        BY <1>3, <2>2, <2>4
      <3>2. PICK g \in Busy : g = f[k - 1] /\ Carried(g) \subseteq W
        BY <2>2, <3>1
      <3>3. PICK kind : kind = hold.sql[k] /\ (kind \in {"write", "vacuum"} => c \in W)
        BY <3>1 DEF Writes
      <3>4. f[k] = Statement(c, g, kind)
        BY <1>2, <3>1, <3>2, <3>3
      <3>5. f[k] \in Busy /\ Carried(f[k]) \subseteq W
        <4>1. Statement(c, g, kind) \in Busy
          BY StatementTyped
        <4>2. Carried(Statement(c, g, kind)) \subseteq W
          BY <3>2, <3>3, StatementCarries
        <4> QED
          BY <3>4, <4>1, <4>2
      <3> QED
        BY <2>2, <3>5
    <2> QED
      BY <2>3, <2>4
  <1>5. f[n] \in Busy /\ Carried(f[n]) \subseteq W
    BY <1>2, <1>4
  <1>6. raw \in Busy /\ Carried(raw) \subseteq W
    BY <1>2, <1>5, EndsCarry, FailedTyped
  <1>7. PICK over \in Busy : over = EndOfMessage(raw) /\ Carried(over) \subseteq W
    BY <1>6, EndsCarry, EndTyped
  <1> QED
    BY <1>2, <1>7, EndsCarry DEF Ended

\* A message that failed carries nothing, and one that goes on has committed nothing.
Halted(st) == st.error /\ Carried(st) = {}
Going(st) == ~st.error /\ st.committed = {}

LEMMA Halts ==
    ASSUME NEW st \in Busy, Going(st), NEW kind, kind # "commit" \/ st.tx = "open"
    PROVE  Failed(st, kind) \in Busy /\ Halted(Failed(st, kind))
  <1>1. CASE kind = "commit"
    <2>1. PICK ud : ud = [st EXCEPT !.tx = "none", !.pending = {}, !.default = st.saved]
      OBVIOUS
    <2>2. ud = Undone(st) /\ ud \in Busy /\ Carried(ud) = {}
      BY <1>1, <2>1 DEF Undone, Going, Carried, Busy
    <2> QED
      BY <1>1, <2>2 DEF Failed, Halted, Carried, Busy
  <1>2. CASE kind # "commit"
    BY <1>2 DEF Failed, Going, Halted, Carried, Busy
  <1> QED
    BY <1>1, <1>2

LEMMA StaysHalted ==
    ASSUME NEW st \in Busy, Halted(st), NEW c, NEW kind, NEW rollback
    PROVE  Statement(c, st, kind) = st /\ Halted(Ended(st, rollback))
  <1>1. Statement(c, st, kind) = st
    BY DEF Statement, Halted
  <1>2. PICK end \in Busy : end = EndOfMessage(st)
    BY EndTyped
  <1>3. Halted(end)
    BY <1>2 DEF EndOfMessage, Halted, Carried, Busy
  <1>4. Halted(Undone(end))
    BY <1>3 DEF Undone, Halted, Carried, Busy
  <1> QED
    BY <1>1, <1>2, <1>3, <1>4 DEF Ended

LEMMA GoesOn ==
    ASSUME NEW st \in Busy, Going(st), NEW c \in Calls
    PROVE  /\ \A kind \in {"write", "vacuum"} :
                 LET next == Statement(c, st, kind) IN next \in Busy /\ (Halted(next) \/ ~next.error)
           /\ LET next == Statement(c, st, "begin") IN
              next \in Busy /\ (Halted(next) \/ (Going(next) /\ next.tx = "open"))
           /\ st.tx = "open" =>
                 /\ LET next == Statement(c, st, "write") IN
                    next \in Busy /\ (Halted(next) \/ (Going(next) /\ next.tx = "open"))
                 /\ LET next == Statement(c, st, "commit") IN next \in Busy /\ ~next.error
  <1>1. \A kind : Statement(c, st, kind) \in Busy /\ (kind # "commit" => Halted(Failed(st, kind)))
    BY StatementTyped, Halts
  <1>2. CASE st.tx = "failed"
    <2>1. Statement(c, st, "write") = Failed(st, "write") /\ Statement(c, st, "vacuum") = Failed(st, "vacuum")
          /\ Statement(c, st, "begin") = Failed(st, "begin")
      BY <1>2 DEF Statement, Going
    <2> QED
      BY <1>1, <1>2, <2>1
  <1>3. CASE st.tx # "failed"
    <2>1. \A kind : Statement(c, st, kind) = Accepted(c, st, kind)
      BY <1>3 DEF Statement, Going
    <2>2. PICK written : written = [st EXCEPT !.pending = st.pending \cup {c}]
      OBVIOUS
    <2>3. Going(written) /\ written.tx = st.tx
      BY <2>2 DEF Going, Busy
    <2>4. Accepted(c, st, "write") = IF MayWrite(st) THEN written ELSE Failed(st, "write")
      BY <2>2 DEF Accepted
    <2>5. PICK cleaned : cleaned = [st EXCEPT !.committed = st.committed \cup {c}]
      OBVIOUS
    <2>6. ~cleaned.error
      BY <2>5 DEF Going, Busy
    <2>7. Accepted(c, st, "vacuum") = IF st.tx = "none" THEN cleaned ELSE Failed(st, "vacuum")
      BY <2>5 DEF Accepted
    <2>8. PICK begun : begun = Accepted(c, st, "begin")
      OBVIOUS
    <2>9. Going(begun) /\ begun.tx = "open"
      BY <1>3, <2>8 DEF Accepted, Going, Busy
    <2>10. PICK made : made = [st EXCEPT !.tx = "none", !.pending = {}, !.committed = st.committed \cup st.pending]
      OBVIOUS
    <2>11. ~made.error /\ Accepted(c, st, "commit") = made
      BY <2>10 DEF Accepted, Going, Busy
    <2>12. Halted(Statement(c, st, "write")) \/ ~Statement(c, st, "write").error
      <3>1. Statement(c, st, "write") = written \/ Statement(c, st, "write") = Failed(st, "write")
        BY <2>1, <2>4
      <3> QED
        BY <1>1, <2>3, <3>1 DEF Going
    <2>13. Halted(Statement(c, st, "vacuum")) \/ ~Statement(c, st, "vacuum").error
      <3>1. Statement(c, st, "vacuum") = cleaned \/ Statement(c, st, "vacuum") = Failed(st, "vacuum")
        BY <2>1, <2>7
      <3> QED
        BY <1>1, <2>6, <3>1
    <2>14. st.tx = "open" => Halted(Statement(c, st, "write"))
                             \/ (Going(Statement(c, st, "write")) /\ Statement(c, st, "write").tx = "open")
      <3>1. Statement(c, st, "write") = written \/ Statement(c, st, "write") = Failed(st, "write")
        BY <2>1, <2>4
      <3> QED
        BY <1>1, <2>3, <3>1
    <2> QED
      BY <1>1, <2>1, <2>8, <2>9, <2>11, <2>12, <2>13, <2>14
  <1> QED
    BY <1>2, <1>3

\* Of a hold that changes something and fails, nothing is left.
LEMMA FailureCarriesNothing ==
    ASSUME NEW c \in Calls, NEW s, session[s] \in Settled,
           NEW hold \in ChangeHolds, NEW st \in Outcomes(c, s, hold), st.error
    PROVE  Carried(st) = {}
  <1>1. hold \in Holds(AllTexts) /\ hold.sql \in ChangeTexts /\ Len(hold.sql) \in Nat
    BY TextsAreTexts, TextLengths DEF ChangeHolds, Holds, AllTexts
  <1>2. PICK f, n, raw : Path(c, s, hold, st, f, n, raw)
    BY <1>1, OutcomeOf
  <1>3. /\ n \in 0..Len(hold.sql)
        /\ \A k \in 1..Len(hold.sql) : f[k] = Statement(c, f[k - 1], hold.sql[k])
        /\ \/ raw = f[n] /\ (n = Len(hold.sql) \/ f[n].error)
           \/ n < Len(hold.sql) /\ ~f[n].error /\ raw = Failed(f[n], hold.sql[n + 1])
        /\ st = Ended(raw, hold.rollback)
    BY <1>2 DEF Path
  <1>4. f[0] \in Busy /\ Going(f[0])
    <2>1. f[0] = Started(session[s])
      BY <1>2 DEF Path
    <2>2. Started(session[s]) \in Busy /\ Going(Started(session[s]))
      BY StartedTyped DEF Started, Going
    <2> QED
      BY <2>1, <2>2
  <1>5. raw \in Busy /\ (Halted(raw) \/ ~raw.error)
    <2>1. CASE hold.sql \in {<<"write">>, <<"vacuum">>}
      <3>1. PICK kind \in {"write", "vacuum"} : hold.sql = <<kind>>
        BY <2>1
      <3>2. Len(hold.sql) = 1 /\ f[1] = Statement(c, f[0], kind) /\ hold.sql[1] = kind
        BY <1>3, <3>1
      <3>3. f[1] \in Busy /\ (Halted(f[1]) \/ ~f[1].error)
        BY <1>4, <3>2, GoesOn
      <3>4. Failed(f[0], kind) \in Busy /\ Halted(Failed(f[0], kind))
        BY <1>4, Halts
      <3>5. n = 0 \/ n = 1
        BY <1>3, <3>2
      <3> QED
        BY <1>3, <1>4, <3>2, <3>3, <3>4, <3>5 DEF Going
    <2>2. CASE hold.sql = <<"begin", "write", "write", "commit">>
      <3>1. /\ Len(hold.sql) = 4 /\ f[1] = Statement(c, f[0], "begin")
            /\ f[2] = Statement(c, f[1], "write") /\ f[3] = Statement(c, f[2], "write")
            /\ f[4] = Statement(c, f[3], "commit")
        BY <1>3, <2>2
      <3>2. f[1] \in Busy /\ (Halted(f[1]) \/ (Going(f[1]) /\ f[1].tx = "open"))
        BY <1>4, <3>1, GoesOn
      <3>3. f[2] \in Busy /\ (Halted(f[2]) \/ (Going(f[2]) /\ f[2].tx = "open"))
        BY <3>1, <3>2, GoesOn, StaysHalted
      <3>4. f[3] \in Busy /\ (Halted(f[3]) \/ (Going(f[3]) /\ f[3].tx = "open"))
        BY <3>1, <3>3, GoesOn, StaysHalted
      <3>5. f[4] \in Busy /\ (Halted(f[4]) \/ ~f[4].error)
        BY <3>1, <3>4, GoesOn, StaysHalted
      <3>6. ASSUME NEW m, f[m] \in Busy, Halted(f[m]) \/ (Going(f[m]) /\ f[m].tx = "open"), n = m, n # 4
            PROVE  raw \in Busy /\ Halted(raw)
        BY <1>3, <3>1, <3>6, Halts DEF Halted, Going
      <3>7. n = 0 => raw \in Busy /\ Halted(raw)
        <4>1. hold.sql[1] = "begin" /\ Failed(f[0], "begin") \in Busy /\ Halted(Failed(f[0], "begin"))
          BY <1>4, <2>2, Halts
        <4> QED
          BY <1>3, <1>4, <3>1, <4>1 DEF Going
      <3>8. n = 0 \/ n = 1 \/ n = 2 \/ n = 3 \/ n = 4
        BY <1>3, <3>1
      <3>9. n = 4 => raw = f[4]
        BY <1>3, <3>1
      <3> QED
        BY <3>2, <3>3, <3>4, <3>5, <3>6, <3>7, <3>8, <3>9
    <2> QED
      BY <1>1, <2>1, <2>2 DEF ChangeTexts
  <1>6. PICK end \in Busy : end = EndOfMessage(raw) /\ end.error = raw.error
    <2>1. PICK end \in Busy : end = EndOfMessage(raw)
      BY <1>5, EndTyped
    <2> QED
      BY <1>5, <2>1 DEF EndOfMessage, Busy
  <1>7. raw.error
    <2>1. Undone(end).error = end.error
      BY DEF Undone, Busy
    <2> QED
      BY <1>3, <1>6, <2>1 DEF Ended
  <1> QED
    BY <1>3, <1>5, <1>7, StaysHalted DEF Halted

-----------------------------------------------------------------------------
\* A command that has changed something does not stop at what comes behind, and a
\* change it stops at is a hold that fails as a whole.
Orderly(p) ==
    \A b \in 1..Len(p.branches) : \A k \in 1..Len(p.branches[b]) : Writes(p.branches[b][k].sql) =>
        /\ Len(p.branches) = 1
        /\ p.branches[b][k].stops => p.branches[b][k] \in ChangeHolds
        /\ \A j \in 1..Len(p.branches[b]) : j > k => ~p.branches[b][j].stops

LEMMA ReadersAreOrderly ==
    ASSUME NEW p, ReadsOnly(p)
    PROVE  Orderly(p)
  <1>1. \A sql \in ReadTexts : ~Writes(sql)
    <2>1. ~Writes(<<"read">>)
      BY DEF Writes
    <2>2. ~Writes(<<"begin_read_only", "read", "rollback">>)
      BY DEF Writes
    <2> QED
      BY <2>1, <2>2 DEF ReadTexts
  <1> QED
    BY <1>1 DEF ReadsOnly, ReadHolds, Holds, Orderly

LEMMA WritersAreOrderly ==
    ASSUME NEW p, EndsInChange(p)
    PROVE  Orderly(p)
  <1>1. \A sql \in ReadTexts : ~Writes(sql)
    <2>1. ~Writes(<<"read">>)
      BY DEF Writes
    <2>2. ~Writes(<<"begin_read_only", "read", "rollback">>)
      BY DEF Writes
    <2> QED
      BY <2>1, <2>2 DEF ReadTexts
  <1>2. ASSUME NEW b \in 1..Len(p.branches), NEW k \in 1..Len(p.branches[b]), Writes(p.branches[b][k].sql)
        PROVE  /\ Len(p.branches) = 1
               /\ p.branches[b][k] \in ChangeHolds
               /\ \A j \in 1..Len(p.branches[b]) : ~(j > k)
    <2>1. Len(p.branches) = 1 /\ b = 1 /\ Len(p.branches[1]) \in Nat \ {0}
      BY DEF EndsInChange
    <2>2. k \notin 1..Len(p.branches[1]) - 1
      <3> SUFFICES ASSUME k \in 1..Len(p.branches[1]) - 1 PROVE FALSE
        OBVIOUS
      <3>1. p.branches[1][k] \in ReadHolds
        BY DEF EndsInChange
      <3> QED
        BY <1>1, <1>2, <2>1, <3>1 DEF ReadHolds, Holds
    <2>3. k = Len(p.branches[1])
      BY <2>1, <2>2
    <2> QED
      BY <2>1, <2>3 DEF EndsInChange, Last
  <1> QED
    BY <1>2 DEF Orderly

LEMMA ValidationIsOrderly == Orderly(Connected(<<validate_function>>))
  <1>1. PICK p : p = Connected(<<validate_function>>)
    OBVIOUS
  <1>2. /\ Len(p.branches) = 1 /\ Len(p.branches[1]) = 3
        /\ p.branches[1][1].sql = <<"begin">> /\ ~p.branches[1][2].stops /\ ~p.branches[1][3].stops
    BY <1>1, ValidateFormed
  <1>3. ~Writes(p.branches[1][1].sql)
    BY <1>2 DEF Writes
  <1>4. ASSUME NEW b \in 1..Len(p.branches), NEW k \in 1..Len(p.branches[b]), Writes(p.branches[b][k].sql)
        PROVE  /\ ~p.branches[b][k].stops
               /\ \A j \in 1..Len(p.branches[b]) : j > k => ~p.branches[b][j].stops
    <2>1. b = 1 /\ k \in {2, 3}
      BY <1>2, <1>3, <1>4
    <2> QED
      BY <1>2, <2>1
  <1> QED
    BY <1>1, <1>2, <1>4 DEF Orderly

\* A change of c is in the database without a connection having ended under it,
\* or may get there; and a call of which one is there only if it went past the
\* hold that made it without an error.
Touched(c) == (c \in db /\ ~call[c].lost) \/ \E s \in 1..MaxSessions : c \in session[s].pending
Blameless(r, touched) ==
    /\ Orderly(r.program)
    /\ touched => /\ ~r.failed /\ Len(r.program.branches) = 1
                  /\ \E k \in 1..Len(r.program.branches[1]) :
                        Writes(r.program.branches[1][k].sql) /\ k < r.at[1]
    /\ r.failed /\ Len(r.program.branches) = 1 => Over(r)
    /\ r.result = "error" => r.failed
Excused(c) == Edits(c) \/ MayBeTooLate(call[c].program)
Traceless == Unstarted /\ \A c \in Calls : Excused(c) \/ Blameless(call[c], Touched(c))

LEMMA BlamelessNow ==
    ASSUME NEW c, NEW r, r = call'[c], NEW touched \in BOOLEAN, Touched(c)' => touched, Blameless(r, touched)
    PROVE  Blameless(call[c], Touched(c))'
  <1>1. Orderly(call[c].program)' <=> Orderly(r.program)
    BY DEF Orderly
  <1>2. Over(call[c])' <=> Over(r)
    BY DEF Over
  <1> QED
    BY <1>1, <1>2 DEF Blameless

\* A step that leaves the call at its holds.
LEMMA BlamelessStill ==
    ASSUME NEW old, NEW r, NEW touched, Blameless(old, touched),
           r.program = old.program, r.at = old.at, r.failed = old.failed,
           r.result = "error" => r.failed
    PROVE  Blameless(r, touched)
  BY DEF Blameless, Over

\* A step that takes a branch behind a hold, or to its end.
MovesOn(old, r, b, hold, stop) ==
    /\ old.result = "running" /\ CallTyped(old) /\ b \in 1..Len(old.program.branches)
    /\ old.at[b] <= Len(old.program.branches[b]) /\ hold = old.program.branches[b][old.at[b]]
    /\ stop => hold.stops
    /\ r.program = old.program /\ r.result = old.result /\ r.failed = (old.failed \/ stop)
    /\ r.at = [old.at EXCEPT ![b] = IF stop THEN Len(old.program.branches[b]) + 1 ELSE old.at[b] + 1]

\* What it leaves behind then: what was there, or what the hold changed.
MarksOn(touched, now, hold, stop) ==
    now => touched \/ (Writes(hold.sql) /\ ~(stop /\ hold \in ChangeHolds))

LEMMA BlamelessOn ==
    ASSUME NEW old, NEW r, NEW b, NEW hold, NEW stop \in BOOLEAN, MovesOn(old, r, b, hold, stop),
           NEW touched \in BOOLEAN, Blameless(old, touched),
           NEW now \in BOOLEAN, MarksOn(touched, now, hold, stop)
    PROVE  Blameless(r, now)
  <1>0. /\ old.result = "running" /\ CallTyped(old) /\ b \in 1..Len(old.program.branches)
        /\ old.at[b] <= Len(old.program.branches[b]) /\ hold = old.program.branches[b][old.at[b]]
        /\ stop => hold.stops
        /\ r.program = old.program /\ r.result = old.result /\ r.failed = (old.failed \/ stop)
        /\ r.at = [old.at EXCEPT ![b] = IF stop THEN Len(old.program.branches[b]) + 1 ELSE old.at[b] + 1]
        /\ now => touched \/ (Writes(hold.sql) /\ ~(stop /\ hold \in ChangeHolds))
    BY DEF MovesOn, MarksOn
  <1>1. PICK p : p = old.program
    OBVIOUS
  <1>2. /\ old.at[b] \in Nat \ {0} /\ Len(p.branches[b]) \in Nat /\ b \in 1..Len(p.branches)
        /\ b \in DOMAIN old.at
    BY <1>0, <1>1, BranchLength DEF CallTyped
  <1>3. PICK i \in 1..Len(p.branches[b]) : i = old.at[b] /\ hold = p.branches[b][i]
    <2>1. old.at[b] \in 1..Len(p.branches[b])
      BY <1>0, <1>1, <1>2
    <2> QED
      BY <1>0, <1>1, <2>1
  <1>4. Len(p.branches) = 1 => b = 1
    BY <1>0, <1>2
  <1>5. r.at[b] = IF stop THEN Len(p.branches[b]) + 1 ELSE i + 1
    BY <1>0, <1>1, <1>2, <1>3
  <1>6. Orderly(p)
    BY <1>0, <1>1 DEF Blameless
  <1>7. touched => Len(p.branches) = 1 /\ ~old.failed /\ ~stop
    <2> SUFFICES ASSUME touched PROVE Len(p.branches) = 1 /\ ~old.failed /\ ~stop
      OBVIOUS
    <2>1. PICK k \in 1..Len(p.branches[1]) : Writes(p.branches[1][k].sql) /\ k < old.at[1]
      BY <1>0, <1>1 DEF Blameless
    <2>2. Len(p.branches) = 1 /\ ~old.failed /\ b = 1
      BY <1>0, <1>1, <1>4 DEF Blameless
    <2>3. k < i
      BY <1>0, <1>3, <2>1, <2>2
    <2>4. ~hold.stops
      BY <1>0, <1>2, <1>3, <1>6, <2>1, <2>2, <2>3 DEF Orderly
    <2> QED
      BY <1>0, <2>2, <2>4
  <1>8. Len(p.branches) = 1 => ~old.failed
    <2> SUFFICES ASSUME Len(p.branches) = 1, old.failed PROVE FALSE
      BY <1>0, <1>1, <1>2
    <2>1. Over(old)
      BY <1>0, <1>1 DEF Blameless
    <2> QED
      BY <1>0, <1>1, <1>2, <1>4, <2>1 DEF Over
  <1>9. Writes(hold.sql) => Len(p.branches) = 1 /\ (hold.stops => hold \in ChangeHolds)
    BY <1>0, <1>2, <1>3, <1>6 DEF Orderly
  <1>10. now => /\ ~r.failed /\ Len(p.branches) = 1
                /\ \E k \in 1..Len(p.branches[1]) : Writes(p.branches[1][k].sql) /\ k < r.at[1]
    <2> SUFFICES ASSUME now
                 PROVE  /\ ~r.failed /\ Len(p.branches) = 1
                        /\ \E k \in 1..Len(p.branches[1]) : Writes(p.branches[1][k].sql) /\ k < r.at[1]
      OBVIOUS
    <2>1. ~stop /\ Len(p.branches) = 1 /\ b = 1
      BY <1>0, <1>4, <1>7, <1>9
    <2>2. ~r.failed
      BY <1>0, <1>8, <2>1
    <2>3. r.at[1] = i + 1
      BY <1>5, <2>1
    <2>4. CASE touched
      <3>1. PICK k \in 1..Len(p.branches[1]) : Writes(p.branches[1][k].sql) /\ k < old.at[1]
        BY <1>0, <1>1, <2>4 DEF Blameless
      <3>2. k < r.at[1]
        BY <1>0, <1>3, <2>1, <2>3, <3>1
      <3> QED
        BY <2>1, <2>2, <3>1, <3>2
    <2>5. CASE Writes(hold.sql)
      <3>1. i < r.at[1] /\ Writes(p.branches[1][i].sql) /\ i \in 1..Len(p.branches[1])
        BY <1>0, <1>3, <2>1, <2>3, <2>5
      <3> QED
        BY <2>1, <2>2, <3>1
    <2> QED
      BY <1>0, <2>4, <2>5
  <1>11. r.failed /\ Len(p.branches) = 1 => Over(r)
    <2> SUFFICES ASSUME r.failed, Len(p.branches) = 1 PROVE Over(r)
      OBVIOUS
    <2>1. stop /\ b = 1
      BY <1>0, <1>4, <1>8
    <2>2. r.at[1] = Len(p.branches[1]) + 1 /\ Len(p.branches[1]) \in Nat /\ r.program = p
      BY <1>0, <1>1, <1>2, <1>5, <2>1
    <2> QED
      BY <2>2 DEF Over
  <1>12. r.program = p /\ r.result # "error"
    BY <1>0, <1>1
  <1> QED
    BY <1>6, <1>10, <1>11, <1>12, Zenon DEF Blameless

-----------------------------------------------------------------------------
\* The steps of one call, on what is left of it and of the others.
Unmarked(c) == \A d \in Calls : Touched(d)' => Touched(d) \/ d = c
Cleared == \A d \in Calls : Touched(d)' => Touched(d)

LEMMA ExcusedStill ==
    ASSUME NEW c, Excused(c), call'[c].program = call[c].program
    PROVE  Excused(c)'
  BY DEF Excused, Edits, MayBeTooLate

\* A program without a hold cannot have been too late.
LEMMA NothingToExcuse ==
    ASSUME PoolTypes, NEW c \in Calls, Len(call[c].program.branches) = 0
    PROVE  ~Excused(c)
  <1>1. ~Edits(c)
    BY EditorFormed DEF Edits
  <1>2. DOMAIN call[c].program.branches = 1..0
    BY DEF PoolTypes, CallTyped, Formed
  <1> QED
    BY <1>1, <1>2 DEF Excused, MayBeTooLate

LEMMA NothingCarried ==
    ASSUME db' = db, \A c \in Calls : call[c].lost => call'[c].lost,
           \A s \in 1..MaxSessions : session'[s].pending \subseteq session[s].pending
    PROVE  Cleared
  BY DEF Cleared, Touched

LEMMA TracelessStep ==
    ASSUME Traceless, NEW c \in Calls, Only(c), Unmarked(c), call'[c].result # "new",
           Excused(c)' \/ Blameless(call[c], Touched(c))'
    PROVE  Traceless'
  <1>1. Unstarted'
    BY DEF Only, Unstarted, Traceless
  <1>2. ASSUME NEW d \in Calls, d # c
        PROVE  Excused(d)' \/ Blameless(call[d], Touched(d))'
    <2>1. call'[d] = call[d] /\ call'[d].program = call[d].program /\ (Touched(d)' => Touched(d))
      BY <1>2 DEF Only, Unmarked
    <2>2. CASE Excused(d)
      BY <2>1, <2>2, ExcusedStill
    <2>3. CASE Blameless(call[d], Touched(d))
      <3>1. PICK r : r = call[d]
        OBVIOUS
      <3>2. PICK touched \in BOOLEAN : touched = Touched(d)
        BY DEF Touched
      <3>3. Blameless(r, touched)
        BY <2>3, <3>1, <3>2
      <3> QED
        BY <2>1, <3>1, <3>2, <3>3, BlamelessNow
    <2> QED
      BY <2>2, <2>3 DEF Traceless
  <1> QED
    BY <1>1, <1>2 DEF Traceless

LEMMA StartTraces ==
    ASSUME PoolTypes, Traceless, NEW c \in Calls, StartCall(c)
    PROVE  Traceless'
  <1>1. PICK r : r = call'[c]
    OBVIOUS
  <1>2. /\ Only(c) /\ r.program \in Programs /\ ~r.failed /\ r.result \in {"read_only", "running"}
        /\ UNCHANGED <<session, db>>
    BY <1>1, StartTyped
  <1>3. Cleared
    <2>1. ASSUME NEW d \in Calls, call[d].lost
          PROVE  call'[d].lost
      <3>1. CASE d = c
        BY <2>1, <3>1 DEF StartCall, Traceless, Unstarted
      <3>2. CASE d # c
        BY <1>2, <2>1, <3>2 DEF Only
      <3> QED
        BY <3>1, <3>2
    <2> QED
      BY <1>2, <2>1, NothingCarried
  <1>4. ~Touched(c)
    <2>1. call[c].result = "new" /\ Len(call[c].program.branches) = 0
      BY DEF StartCall, Traceless, Unstarted
    <2>2. ~Excused(c)
      BY <2>1, NothingToExcuse
    <2> QED
      BY <2>1, <2>2 DEF Traceless, Blameless
  <1>5. Excused(c)' \/ Blameless(call[c], Touched(c))'
    <2>1. CASE \E sql \in Scripts : r.program = Editor(sql)
      BY <1>1, <2>1 DEF Excused, Edits
    <2>2. CASE ~\E sql \in Scripts : r.program = Editor(sql)
      <3>1. Reader(r.program) \/ Writer(r.program) \/ r.program = Connected(<<validate_function>>)
        BY <1>2, <2>2, ProgramKinds
      <3>2. Orderly(r.program)
        BY <3>1, ReaderReads, ReadersAreOrderly, WriterEnds, WritersAreOrderly, ValidationIsOrderly
      <3>3. Blameless(r, FALSE)
        BY <1>2, <3>2 DEF Blameless
      <3> QED
        BY <1>1, <1>3, <1>4, <3>3, BlamelessNow DEF Cleared
    <2> QED
      BY <2>1, <2>2
  <1> QED
    BY <1>1, <1>2, <1>3, <1>5, TracelessStep DEF Cleared, Unmarked

\* A session handed out, the old one's changes lost or kept.
LEMMA HandedTraces ==
    ASSUME PoolTypes, Traceless, NEW s \in 1..MaxSessions, NEW c \in Calls, NEW b \in Branches(c), Waiting(c, b),
           call' = [call EXCEPT ![c].held[b] = s], Cleared
    PROVE  Traceless'
  <1>1. /\ Only(c) /\ call'[c].program = call[c].program /\ call'[c].at = call[c].at
        /\ call'[c].failed = call[c].failed /\ call'[c].result = "running"
    BY HandedOut DEF Waiting
  <1>2. Excused(c)' \/ Blameless(call[c], Touched(c))'
    <2>1. CASE Excused(c)
      BY <1>1, <2>1, ExcusedStill
    <2>2. CASE Blameless(call[c], Touched(c))
      <3>1. PICK old, r : old = call[c] /\ r = call'[c]
        OBVIOUS
      <3>2. PICK touched \in BOOLEAN : touched = Touched(c)
        BY DEF Touched
      <3>3. Blameless(old, touched)
        BY <2>2, <3>1, <3>2
      <3>4. Blameless(r, touched)
        BY <1>1, <3>1, <3>3, BlamelessStill
      <3> QED
        BY <3>1, <3>2, <3>4, BlamelessNow DEF Cleared
    <2> QED
      BY <2>1, <2>2 DEF Traceless
  <1> QED
    BY <1>1, <1>2, TracelessStep DEF Cleared, Unmarked

LEMMA RunTraces ==
    ASSUME PoolTypes, Traceless, NEW c \in Calls, NEW b \in Branches(c), Run(c, b)
    PROVE  Traceless'
  <1>1. PICK s \in 1..MaxSessions, st \in Busy :
           /\ Hold(c, b) \in Holds(AllTexts)
           /\ call[c].at[b] <= Len(call[c].program.branches[b])
           /\ st \in Outcomes(c, s, Hold(c, b))
           /\ \A q \in (1..MaxSessions) \ {s} : session'[q] = session[q]
           /\ session'[s].pending = st.pending
           /\ db' = db \cup st.committed /\ Finishes(c, b, st)
    <2>1. PICK s \in 1..MaxSessions, st \in Busy : RunEffect(c, b, s, st)
      BY RunTyped
    <2> QED
      BY <2>1 DEF RunEffect
  <1>2. PICK hold : hold = Hold(c, b)
    OBVIOUS
  <1>3. PICK old, r : old = call[c] /\ r = call'[c]
    OBVIOUS
  <1>0. PICK error \in BOOLEAN :
           call' = Advanced(c, b, error, FALSE) /\ (error = st.error \/ TooLate(Hold(c, b), st))
    BY <1>1, Zenon DEF Finishes
  <1>4. PICK stop \in BOOLEAN : stop <=> error /\ hold.stops
    OBVIOUS
  <1>5. PICK pending : pending = session[s].pending /\ session[s] \in Settled
    BY DEF PoolTypes
  <1>6. Carried(st) \subseteq pending \cup {c}
    BY <1>1, <1>2, <1>5, OutcomeCarries
  <1>7. ~Writes(hold.sql) => Carried(st) \subseteq pending
    BY <1>1, <1>2, <1>5, OutcomeCarries
  <1>8. st.error /\ hold \in ChangeHolds => Carried(st) = {}
    BY <1>1, <1>2, <1>5, FailureCarriesNothing
  <1>12. /\ Only(c) /\ r.lost = old.lost /\ r.program = old.program /\ r.result = old.result
         /\ r.failed = (old.failed \/ stop)
         /\ r.at = [old.at EXCEPT ![b] = IF stop THEN Len(old.program.branches[b]) + 1 ELSE old.at[b] + 1]
    <2>2. /\ Only(c) /\ call'[c].program = call[c].program /\ call'[c].result = call[c].result
          /\ call'[c].failed = (call[c].failed \/ (error /\ Hold(c, b).stops))
          /\ call'[c].lost = (call[c].lost \/ FALSE)
          /\ call'[c].at = [call[c].at EXCEPT ![b] = IF error /\ Hold(c, b).stops
                                                      THEN Len(call[c].program.branches[b]) + 1
                                                      ELSE call[c].at[b] + 1]
      BY <1>0, <1>1, MovedOn
    <2>3. stop <=> error /\ Hold(c, b).stops
      BY <1>2, <1>4
    <2>4. (call[c].failed \/ (error /\ Hold(c, b).stops)) = (call[c].failed \/ stop)
      BY <2>3
    <2>5. call[c].lost \in BOOLEAN
      BY DEF PoolTypes, CallTyped
    <2> QED
      BY <1>3, <2>2, <2>3, <2>4, <2>5
  <1>9. ASSUME NEW d \in Calls, Touched(d)'
        PROVE  Touched(d) \/ d \in Carried(st)
    <2>1. CASE d \in db' /\ ~call'[d].lost
      <3>1. call'[d].lost = call[d].lost
        BY <1>3, <1>12 DEF Only
      <3> QED
        BY <1>1, <2>1, <3>1 DEF Touched, Carried
    <2>2. ASSUME NEW q \in 1..MaxSessions, d \in session'[q].pending
          PROVE  Touched(d) \/ d \in Carried(st)
      <3>1. CASE q = s
        BY <1>1, <2>2, <3>1 DEF Carried
      <3>2. CASE q # s
        BY <1>1, <2>2, <3>2 DEF Touched
      <3> QED
        BY <3>1, <3>2
    <2> QED
      BY <1>9, <2>1, <2>2 DEF Touched
  <1>10. \A d \in pending : Touched(d)
    BY <1>5 DEF Touched
  <1>11. Unmarked(c)
    BY <1>6, <1>9, <1>10 DEF Unmarked
  <1>13. old.result = "running" /\ CallTyped(old) /\ b \in 1..Len(old.program.branches)
         /\ hold = old.program.branches[b][old.at[b]]
    BY <1>2, <1>3 DEF Run, Holding, PoolTypes, Branches, Hold
  <1>14. PICK touched \in BOOLEAN, now \in BOOLEAN : touched = Touched(c) /\ (now <=> Touched(c)')
    BY DEF Touched
  <1>15. ~MayBeTooLate(old.program) => MarksOn(touched, now, hold, stop)
    <2>1. SUFFICES ASSUME ~MayBeTooLate(old.program) PROVE MarksOn(touched, now, hold, stop)
      OBVIOUS
    <2>2. hold.late = "no"
      <3>1. /\ DOMAIN old.program.branches = 1..Len(old.program.branches)
            /\ DOMAIN old.program.branches[b] = 1..Len(old.program.branches[b])
            /\ old.at[b] \in 1..Len(old.program.branches[b])
        <4>1. PICK HS : HS = Holds(AllTexts)
          OBVIOUS
        <4>2. old.program.branches \in Seq(Seq(HS)) /\ old.at[b] \in Nat \ {0}
          BY <1>13, <4>1 DEF CallTyped, Formed
        <4>3. old.program.branches[b] \in Seq(HS)
          BY <1>13, <4>2
        <4>4. old.at[b] <= Len(old.program.branches[b])
          BY <1>1, <1>3
        <4> QED
          BY <4>2, <4>3, <4>4
      <3>2. b \in DOMAIN old.program.branches /\ old.at[b] \in DOMAIN old.program.branches[b]
        BY <1>13, <3>1
      <3> QED
        BY <1>13, <2>1, <3>2, Zenon DEF MayBeTooLate
    <2>3. ~TooLate(Hold(c, b), st)
      BY <1>2, <2>2 DEF TooLate
    <2>4. stop => st.error
      BY <1>0, <1>4, <2>3
    <2> QED
      BY <1>7, <1>8, <1>9, <1>10, <1>14, <2>4 DEF MarksOn
  <1>16. MovesOn(old, r, b, hold, stop)
    BY <1>1, <1>3, <1>4, <1>12, <1>13 DEF MovesOn
  <1>17. Excused(c)' \/ Blameless(call[c], Touched(c))'
    <2>1. CASE Excused(c)
      BY <1>3, <1>12, <2>1, ExcusedStill
    <2>2. CASE ~Excused(c) /\ Blameless(call[c], Touched(c))
      <3>1. Blameless(old, touched) /\ ~MayBeTooLate(old.program)
        BY <1>3, <1>14, <2>2 DEF Excused
      <3>2. Blameless(r, now)
        BY <1>15, <1>16, <3>1, BlamelessOn
      <3> QED
        BY <1>3, <1>14, <3>2, BlamelessNow
    <2> QED
      BY <2>1, <2>2 DEF Traceless
  <1> QED
    BY <1>3, <1>11, <1>12, <1>13, <1>17, TracelessStep

LEMMA LoseTraces ==
    ASSUME PoolTypes, Traceless, NEW c \in Calls, NEW b \in Branches(c), Lose(c, b)
    PROVE  Traceless'
  <1>1. PICK s \in 1..MaxSessions, st \in Busy : LoseEffect(c, b, s, st)
    BY LoseTyped
  <1>2. /\ Hold(c, b) \in Holds(AllTexts)
        /\ call[c].at[b] <= Len(call[c].program.branches[b])
        /\ st \in Outcomes(c, s, Hold(c, b)) /\ session'[s] = Fresh
        /\ \A q \in (1..MaxSessions) \ {s} : session'[q] = session[q]
        /\ db' = db \cup st.committed /\ call' = Advanced(c, b, TRUE, TRUE)
    BY <1>1 DEF LoseEffect
  <1>3. PICK hold, old, r : hold = Hold(c, b) /\ old = call[c] /\ r = call'[c]
    OBVIOUS
  <1>4. PICK stop \in BOOLEAN : stop <=> hold.stops
    OBVIOUS
  <1>5. PICK pending : pending = session[s].pending /\ session[s] \in Settled
    BY DEF PoolTypes
  <1>6. Carried(st) \subseteq pending \cup {c}
    BY <1>2, <1>3, <1>5, OutcomeCarries
  <1>7. /\ Only(c) /\ r.program = old.program /\ r.result = old.result
        /\ r.failed = (old.failed \/ stop) /\ r.lost
        /\ r.at = [old.at EXCEPT ![b] = IF stop THEN Len(old.program.branches[b]) + 1 ELSE old.at[b] + 1]
    <2>1. /\ Only(c) /\ call'[c].program = call[c].program /\ call'[c].result = call[c].result
          /\ call'[c].failed = (call[c].failed \/ (TRUE /\ Hold(c, b).stops))
          /\ call'[c].lost = (call[c].lost \/ TRUE)
          /\ call'[c].at = [call[c].at EXCEPT ![b] = IF TRUE /\ Hold(c, b).stops
                                                      THEN Len(call[c].program.branches[b]) + 1
                                                      ELSE call[c].at[b] + 1]
      BY <1>2, MovedOn
    <2>2. (call[c].failed \/ (TRUE /\ Hold(c, b).stops)) = (call[c].failed \/ stop)
      BY <1>3, <1>4
    <2> QED
      BY <1>3, <1>4, <2>1, <2>2
  <1>8. Cleared
    <2>1. ASSUME NEW d \in Calls, d \in db', ~call'[d].lost
          PROVE  Touched(d)
      <3>1. d # c /\ call'[d] = call[d]
        BY <1>3, <1>7, <2>1 DEF Only
      <3>2. d \in db \/ d \in pending
        BY <1>2, <1>6, <2>1, <3>1 DEF Carried
      <3> QED
        BY <1>5, <2>1, <3>1, <3>2 DEF Touched
    <2>2. ASSUME NEW d \in Calls, NEW q \in 1..MaxSessions, d \in session'[q].pending
          PROVE  Touched(d)
      BY <1>2, <2>2 DEF Touched, Fresh
    <2> QED
      BY <2>1, <2>2 DEF Cleared, Touched
  <1>9. old.result = "running" /\ CallTyped(old) /\ b \in 1..Len(old.program.branches)
        /\ hold = old.program.branches[b][old.at[b]]
    BY <1>3 DEF Lose, Holding, PoolTypes, Branches, Hold
  <1>10. MovesOn(old, r, b, hold, stop)
    BY <1>2, <1>3, <1>4, <1>7, <1>9 DEF MovesOn
  <1>11. PICK touched \in BOOLEAN : touched = Touched(c)
    BY DEF Touched
  <1>12. Excused(c)' \/ Blameless(call[c], Touched(c))'
    <2>1. CASE Excused(c)
      BY <1>3, <1>7, <2>1, ExcusedStill
    <2>2. CASE Blameless(call[c], Touched(c))
      <3>1. Blameless(old, touched)
        BY <1>3, <1>11, <2>2
      <3>2. MarksOn(touched, touched, hold, stop)
        BY DEF MarksOn
      <3>3. Blameless(r, touched)
        BY <1>10, <3>1, <3>2, BlamelessOn
      <3> QED
        BY <1>3, <1>8, <1>11, <3>3, BlamelessNow DEF Cleared
    <2> QED
      BY <2>1, <2>2 DEF Traceless
  <1> QED
    BY <1>3, <1>7, <1>8, <1>9, <1>12, TracelessStep DEF Cleared, Unmarked

LEMMA SkipTraces ==
    ASSUME PoolTypes, Traceless, NEW c \in Calls, NEW b \in Branches(c), Skip(c, b)
    PROVE  Traceless'
  <1>1. PICK hold : hold = Hold(c, b)
    OBVIOUS
  <1>2. PICK old, r : old = call[c] /\ r = call'[c]
    OBVIOUS
  <1>3. /\ Waiting(c, b) /\ call[c].at[b] <= Len(call[c].program.branches[b]) /\ UNCHANGED <<session, db>>
        /\ old.result = "running" /\ CallTyped(old) /\ b \in 1..Len(old.program.branches)
        /\ hold = old.program.branches[b][old.at[b]]
    BY <1>1, <1>2 DEF Skip, Waiting, PoolTypes, Branches, Hold
  <1>4. PICK stop \in BOOLEAN :
           /\ stop => hold.stops
           /\ Only(c) /\ r.lost = old.lost /\ r.program = old.program /\ r.result = old.result
           /\ r.failed = (old.failed \/ stop)
           /\ r.at = [old.at EXCEPT ![b] = IF stop THEN Len(old.program.branches[b]) + 1 ELSE old.at[b] + 1]
    <2>1. CASE call' = [call EXCEPT ![c].at[b] = @ + 1]
      <3>1. /\ Only(c) /\ call'[c].program = call[c].program /\ call'[c].result = call[c].result
            /\ call'[c].failed = call[c].failed /\ call'[c].lost = call[c].lost
            /\ call'[c].at = [call[c].at EXCEPT ![b] = call[c].at[b] + 1]
        BY <1>3, <2>1, SkippedOver
      <3>2. old.failed \in BOOLEAN /\ old.lost \in BOOLEAN
        BY <1>3 DEF CallTyped
      <3> QED
        BY <1>2, <3>1, <3>2
    <2>2. CASE hold.stops /\ call' = Advanced(c, b, TRUE, FALSE)
      <3>1. /\ Only(c) /\ call'[c].program = call[c].program /\ call'[c].result = call[c].result
            /\ call'[c].failed = (call[c].failed \/ (TRUE /\ Hold(c, b).stops))
            /\ call'[c].lost = (call[c].lost \/ FALSE)
            /\ call'[c].at = [call[c].at EXCEPT ![b] = IF TRUE /\ Hold(c, b).stops
                                                        THEN Len(call[c].program.branches[b]) + 1
                                                        ELSE call[c].at[b] + 1]
        BY <1>3, <2>2, MovedOn
      <3>2. old.lost \in BOOLEAN
        BY <1>3 DEF CallTyped
      <3> QED
        BY <1>1, <1>2, <2>2, <3>1, <3>2
    <2> QED
      BY <1>1, <2>1, <2>2 DEF Skip
  <1>5. Cleared
    <2>1. \A d \in Calls : call[d].lost => call'[d].lost
      BY <1>2, <1>4 DEF Only
    <2> QED
      BY <1>3, <2>1, NothingCarried
  <1>6. MovesOn(old, r, b, hold, stop)
    BY <1>2, <1>3, <1>4 DEF MovesOn
  <1>7. PICK touched \in BOOLEAN : touched = Touched(c)
    BY DEF Touched
  <1>8. Excused(c)' \/ Blameless(call[c], Touched(c))'
    <2>1. CASE Excused(c)
      BY <1>2, <1>4, <2>1, ExcusedStill
    <2>2. CASE Blameless(call[c], Touched(c))
      <3>1. Blameless(old, touched)
        BY <1>2, <1>7, <2>2
      <3>2. Blameless(r, touched)
        <4>1. MarksOn(touched, touched, hold, stop)
          BY DEF MarksOn
        <4> QED
          BY <1>6, <3>1, <4>1, BlamelessOn
      <3> QED
        BY <1>2, <1>5, <1>7, <3>2, BlamelessNow DEF Cleared
    <2> QED
      BY <2>1, <2>2 DEF Traceless
  <1> QED
    BY <1>2, <1>3, <1>5, <1>4, <1>8, TracelessStep DEF Cleared, Unmarked

LEMMA AnswerTraces ==
    ASSUME PoolTypes, Traceless, NEW c \in Calls, Answer(c)
    PROVE  Traceless'
  <1>1. PICK old, r : old = call[c] /\ r = call'[c]
    OBVIOUS
  <1>2. /\ Only(c) /\ r.program = old.program /\ r.at = old.at /\ r.failed = old.failed
        /\ r.result = (IF old.failed THEN "error" ELSE "ok") /\ UNCHANGED <<session, db>>
    BY <1>1, Answered
  <1>3. Cleared
    <2>1. \A d \in Calls : call[d].lost => call'[d].lost
      BY <1>1, <1>2, Answered DEF Only
    <2> QED
      BY <1>2, <2>1, NothingCarried
  <1>4. PICK touched \in BOOLEAN : touched = Touched(c)
    BY DEF Touched
  <1>5. Excused(c)' \/ Blameless(call[c], Touched(c))'
    <2>1. CASE Excused(c)
      BY <1>1, <1>2, <2>1, ExcusedStill
    <2>2. CASE Blameless(call[c], Touched(c))
      <3>1. Blameless(old, touched)
        BY <1>1, <1>4, <2>2
      <3>2. Blameless(r, touched)
        BY <1>2, <3>1, BlamelessStill
      <3> QED
        BY <1>1, <1>3, <1>4, <3>2, BlamelessNow DEF Cleared
    <2> QED
      BY <2>1, <2>2 DEF Traceless
  <1>6. call'[c].result # "new"
    BY <1>1, <1>2
  <1> QED
    BY <1>2, <1>3, <1>5, <1>6, TracelessStep DEF Cleared, Unmarked

LEMMA TracelessNext ==
    ASSUME PoolTypes, Traceless, [PoolNext]_poolVars
    PROVE  Traceless'
  <1>0. Fresh.pending = {}
    BY DEF Fresh
  <1>1. ASSUME call' = call, Cleared
        PROVE  Traceless'
    <2>1. ASSUME NEW d \in Calls
          PROVE  Excused(d)' \/ Blameless(call[d], Touched(d))'
      <3>1. CASE Excused(d)
        BY <1>1, <3>1, ExcusedStill
      <3>2. CASE Blameless(call[d], Touched(d))
        <4>1. PICK r : r = call[d]
          OBVIOUS
        <4>2. PICK touched \in BOOLEAN : touched = Touched(d)
          BY DEF Touched
        <4>3. Blameless(r, touched)
          BY <3>2, <4>1, <4>2
        <4> QED
          BY <1>1, <4>1, <4>2, <4>3, BlamelessNow DEF Cleared
      <3> QED
        BY <3>1, <3>2 DEF Traceless
    <2>2. Unstarted'
      BY <1>1 DEF Traceless, Unstarted
    <2> QED
      BY <2>1, <2>2 DEF Traceless
  <1>2. CASE Get
    <2>1. PICK s \in 1..MaxSessions :
             /\ UNCHANGED db
             /\ \A q \in (1..MaxSessions) \ {s} : session'[q] = session[q]
             /\ \/ session'[s] = Fresh /\ call' = call
                \/ /\ session'[s] = [session[s] EXCEPT !.default = TRUE] \/ session'[s] = session[s]
                   /\ \E c \in Calls : \E b \in Branches(c) :
                         Waiting(c, b) /\ call' = [call EXCEPT ![c].held[b] = s]
      BY <1>2, GetTyped DEF PoolTypes
    <2>2. session'[s].pending \subseteq session[s].pending
      <3>1. session[s] \in Settled
        BY DEF PoolTypes
      <3>2. [session[s] EXCEPT !.default = TRUE].pending = session[s].pending
        BY <3>1 DEF Settled
      <3> QED
        BY <1>0, <2>1, <3>2
    <2>3. Cleared
      <3>1. \A d \in Calls : call[d].lost => call'[d].lost
        BY <2>1, HandedOut DEF Only
      <3> QED
        BY <2>1, <2>2, <3>1, NothingCarried
    <2> QED
      BY <1>1, <2>1, <2>3, HandedTraces
  <1>3. ASSUME NEW c \in Calls, NEW b \in Branches(c), Open(c, b)
        PROVE  Traceless'
    <2>1. PICK s \in 1..MaxSessions :
             /\ Waiting(c, b) /\ UNCHANGED db /\ session'[s] = Fresh
             /\ \A q \in (1..MaxSessions) \ {s} : session'[q] = session[q]
             /\ call' = [call EXCEPT ![c].held[b] = s]
      BY <1>3, OpenTyped
    <2>2. Cleared
      <3>1. \A d \in Calls : call[d].lost => call'[d].lost
        BY <2>1, HandedOut DEF Only
      <3> QED
        BY <1>0, <2>1, <3>1, NothingCarried
    <2> QED
      BY <2>1, <2>2, HandedTraces
  <1>4. CASE UNCHANGED poolVars
    <2>1. call' = call /\ db' = db /\ session' = session
      BY <1>4 DEF poolVars
    <2> QED
      BY <1>1, <2>1, NothingCarried
  <1> QED
    BY <1>2, <1>3, <1>4, StartTraces, RunTraces, LoseTraces, SkipTraces, AnswerTraces DEF PoolNext, CallStep, AllAnswered

LEMMA TracelessInit == PoolInit => Traceless
  <1> SUFFICES ASSUME PoolInit PROVE Traceless
    OBVIOUS
  <1>1. PICK none : none = <<>>
    OBVIOUS
  <1>2. PICK p : p = Connected(none)
    OBVIOUS
  <1>3. p.branches = none /\ Len(none) = 0
    BY <1>1, <1>2 DEF Connected
  <1>4. ASSUME NEW c \in Calls
        PROVE  /\ Blameless(call[c], Touched(c)) /\ Len(call[c].program.branches) = 0
               /\ ~call[c].lost
    <2>1. call[c].program = p /\ call[c].result = "new" /\ ~call[c].failed /\ ~call[c].lost
      BY <1>1, <1>2 DEF PoolInit
    <2>2. ~Touched(c)
      BY DEF PoolInit, Touched, Fresh
    <2> QED
      BY <1>3, <2>1, <2>2 DEF Blameless, Orderly
  <1> QED
    BY <1>4 DEF Traceless, Unstarted

\* Whichever commands run beside it, the editor among them, and whatever the
\* sessions it gets were left with, a command that was answered with an error left
\* nothing in a session for somebody's COMMIT, and nothing in the database if no
\* connection ended under it: it stops at nothing behind a change, and a change
\* that fails takes what the session carries along.  Changes of rows and calls of
\* routines are left out: their error may come after the change.
THEOREM FailedCommandsLeaveNothingHolds == PoolSpec => []FailedCommandsLeaveNothing
  <1>1. PoolInit => PoolTypes /\ Traceless
    BY PoolInitTypes, TracelessInit
  <1>2. PoolTypes /\ Traceless /\ [PoolNext]_poolVars => (PoolTypes /\ Traceless)'
    BY TypesNext, TracelessNext
  <1>3. Traceless => FailedCommandsLeaveNothing
    BY DEF Traceless, Blameless, Touched, Excused, FailedCommandsLeaveNothing
  <1> QED
    BY <1>1, <1>2, <1>3, PTL DEF PoolSpec

=============================================================================
