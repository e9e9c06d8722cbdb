-------------------------- MODULE ConnectionLifecycle --------------------------
(***************************************************************************)
(* The life of saved connections: the connection list on disk, the         *)
(* ConnectionManager that shadows it behind one asynchronous mutex, the    *)
(* drivers (a pool and perhaps an SSH tunnel) it holds, and the commands   *)
(* that save, delete, connect, disconnect and use a connection.            *)
(*                                                                         *)
(* Commands run concurrently.  Each takes the manager's mutex for one      *)
(* step at a time, except connect, which keeps it while it opens the       *)
(* tunnel and the first session; between its steps every other command    *)
(* may run.  A command that uses a connection clones the driver handle,    *)
(* lets the mutex go and works on the clone.                               *)
(*                                                                         *)
(* One write of the list is atomic here.                                   *)
(***************************************************************************)
EXTENDS Naturals

CONSTANTS
    Conns,      \* connection ids
    Commands,   \* command invocations; each runs once
    Ssh,        \* the connections that go through an SSH tunnel
    NoConn, NoCommand

ASSUME LifecycleAssumption ==
    /\ Ssh \subseteq Conns
    /\ NoConn \notin Conns
    /\ NoCommand \notin Commands

Modes == {"ro", "rw"}

VARIABLES
    stored,   \* connections.toml: the read_only flag of a saved connection, or "absent"
    managed,  \* the same for the connections the manager has registered
    status,   \* ManagedConnection.status; "disconnected" where nothing is registered
    driver,   \* ManagedConnection.driver: the connect command that opened it
    lock,     \* the connect command that holds the mutex across its awaits
    pc,       \* where each command stands
    conn,     \* the connection it works on
    handle,   \* the driver handle it cloned
    mode,     \* the flag a connect command copied: its sessions' read_only
    pool,     \* the pool it opened
    tunnel    \* the tunnel it opened

storeVars   == <<stored>>
managerVars == <<managed, status, driver>>
driverVars  == <<mode, pool, tunnel>>
commandVars == <<pc, conn, handle>>
vars == <<storeVars, managerVars, driverVars, commandVars, lock>>

-----------------------------------------------------------------------------
\* Application::new syncs an empty manager with the list.
Init ==
    /\ stored \in [Conns -> Modes \cup {"absent"}]
    /\ managed = stored
    /\ status = [c \in Conns |-> "disconnected"]
    /\ driver = [c \in Conns |-> NoCommand]
    /\ lock = NoCommand
    /\ pc = [k \in Commands |-> "new"]
    /\ conn = [k \in Commands |-> NoConn]
    /\ handle = [k \in Commands |-> NoCommand]
    /\ mode = [k \in Commands |-> "none"]
    /\ pool = [k \in Commands |-> "none"]
    /\ tunnel = [k \in Commands |-> "none"]

Unlocked == lock = NoCommand

Step(k, from, to) ==
    /\ pc[k] = from
    /\ pc' = [pc EXCEPT ![k] = to]

\* The first step of a command invoked on connection c.
Invoke(k, c, to) ==
    /\ Step(k, "new", to)
    /\ conn' = [conn EXCEPT ![k] = c]

\* A command that finds no registered connection, or no connected one when it
\* needs a driver, returns an error.
Refuse(k, c) ==
    /\ Unlocked
    /\ status[c] # "connected"
    /\ Invoke(k, c, "done")
    /\ UNCHANGED <<storeVars, managerVars, driverVars, handle, lock>>

-----------------------------------------------------------------------------
(* connect_stored and connect.                                             *)

ConnectStored(k, c) ==
    /\ Unlocked
    /\ managed[c] # "absent"
    /\ Invoke(k, c, "reading")
    /\ UNCHANGED <<storeVars, managerVars, driverVars, handle, lock>>

\* The Secret Service answers, or an error ends the command.
ReadSecrets(k) ==
    /\ \E to \in {"locking", "done"} : Step(k, "reading", to)
    /\ UNCHANGED <<storeVars, managerVars, driverVars, conn, handle, lock>>

\* The connection may have been deleted while the secrets were read.  Its
\* data is copied once, under the mutex.
EnterConnect(k) ==
    LET c == conn[k] IN
    /\ Unlocked
    /\ Step(k, "locking", IF c \in Ssh THEN "tunnelling" ELSE "pooling")
    /\ managed[c] # "absent"
    /\ lock' = k
    /\ status' = [status EXCEPT ![c] = "connecting"]
    /\ mode' = [mode EXCEPT ![k] = managed[c]]
    /\ UNCHANGED <<storeVars, managed, driver, pool, tunnel, conn, handle>>

ConnectNotFound(k) ==
    /\ Unlocked
    /\ Step(k, "locking", "done")
    /\ managed[conn[k]] = "absent"
    /\ UNCHANGED <<storeVars, managerVars, driverVars, conn, handle, lock>>

OpenTunnel(k) ==
    /\ Step(k, "tunnelling", "pooling")
    /\ tunnel' = [tunnel EXCEPT ![k] = "listening"]
    /\ UNCHANGED <<storeVars, managerVars, mode, pool, conn, handle, lock>>

\* The new driver takes the place of whatever was there, which is dropped and
\* not disconnected.
OpenPool(k) ==
    /\ Step(k, "pooling", "done")
    /\ pool' = [pool EXCEPT ![k] = "open"]
    /\ driver' = [driver EXCEPT ![conn[k]] = k]
    /\ status' = [status EXCEPT ![conn[k]] = "connected"]
    /\ lock' = NoCommand
    /\ UNCHANGED <<storeVars, managed, mode, tunnel, conn, handle>>

\* Mutant: the error leaves through `?` before the status is set.
ConnectFailsEarly(k) ==
    /\ \E from \in {"tunnelling", "pooling"} : Step(k, from, "done")
    /\ lock' = NoCommand
    /\ UNCHANGED <<storeVars, managerVars, driverVars, conn, handle>>

\* A driver the connection already had stays, unreachable behind the status;
\* a tunnel that was opened for the failed pool is left listening.
ConnectFails(k) ==
    /\ \E from \in {"tunnelling", "pooling"} : Step(k, from, "done")
    /\ status' = [status EXCEPT ![conn[k]] = "error"]
    /\ lock' = NoCommand
    /\ UNCHANGED <<storeVars, managed, driver, driverVars, conn, handle>>

-----------------------------------------------------------------------------
(* disconnect, delete_connection, save_connection.                         *)

\* Mutant: the status is only reset when there was no driver.
CloseKeepingStatus(c) ==
    LET d == driver[c] IN
    /\ pool' = [k \in Commands |-> IF k = d THEN "closed" ELSE pool[k]]
    /\ tunnel' = [k \in Commands |-> IF k = d /\ tunnel[k] = "listening" THEN "closed" ELSE tunnel[k]]
    /\ driver' = [driver EXCEPT ![c] = NoCommand]
    /\ status' = [status EXCEPT ![c] = IF d = NoCommand THEN "disconnected" ELSE @]

\* ConnectionManager::disconnect: takes the driver, closes its pool and aborts
\* its tunnel, whoever else holds a clone of it.
Close(c) ==
    LET d == driver[c] IN
    /\ pool' = [k \in Commands |-> IF k = d THEN "closed" ELSE pool[k]]
    /\ tunnel' = [k \in Commands |-> IF k = d /\ tunnel[k] = "listening" THEN "closed" ELSE tunnel[k]]
    /\ driver' = [driver EXCEPT ![c] = NoCommand]
    /\ status' = [status EXCEPT ![c] = "disconnected"]

Disconnect(k, c) ==
    /\ Unlocked
    /\ managed[c] # "absent"
    /\ Invoke(k, c, "done")
    /\ Close(c)
    /\ UNCHANGED <<storeVars, managed, mode, handle, lock>>

\* Mutant: the guard of the first block lives to the end of the function.
DeleteKeepingLock(k, c) ==
    /\ Unlocked
    /\ managed[c] # "absent"
    /\ Invoke(k, c, "erasing")
    /\ Close(c)
    /\ lock' = k
    /\ UNCHANGED <<storeVars, managed, mode, handle>>

\* delete_connection closes first and lets the mutex go ...
Delete(k, c) ==
    /\ Unlocked
    /\ managed[c] # "absent"
    /\ Invoke(k, c, "erasing")
    /\ Close(c)
    /\ UNCHANGED <<storeVars, managed, mode, handle, lock>>

\* ... then rewrites the list ...
Erase(k) ==
    /\ \/ Step(k, "erasing", "forgetting") /\ stored' = [stored EXCEPT ![conn[k]] = "absent"]
       \/ Step(k, "erasing", "done") /\ UNCHANGED stored
    /\ UNCHANGED <<managerVars, driverVars, conn, handle, lock>>

\* Mutant: delete_connection ends with its last secret.
ForgetAndReturn(k) ==
    /\ \E to \in {"done", "failed"} : Step(k, "forgetting", to)
    /\ UNCHANGED <<storeVars, managerVars, driverVars, conn, handle, lock>>

\* ... then removes the secrets, where an error ends it before the manager is
\* synced.
Forget(k) ==
    /\ \E to \in {"syncing", "failed"} : Step(k, "forgetting", to)
    /\ UNCHANGED <<storeVars, managerVars, driverVars, conn, handle, lock>>

\* save_connection writes a new or an edited connection without the mutex.
Save(k, c, m) ==
    /\ \/ Invoke(k, c, "syncing") /\ stored' = [stored EXCEPT ![c] = m]
       \/ Invoke(k, c, "done") /\ UNCHANGED stored
    /\ UNCHANGED <<managerVars, driverVars, handle, lock>>

\* Mutant: sync_connections keeps the live session of a switched flag.
SyncKeepingSessions(k) ==
    LET gone == {c \in Conns : stored[c] = "absent"} IN
    /\ Unlocked
    /\ Step(k, "syncing", "done")
    /\ managed' = stored
    /\ driver' = [c \in Conns |-> IF c \in gone THEN NoCommand ELSE driver[c]]
    /\ status' = [c \in Conns |-> IF c \in gone THEN "disconnected" ELSE status[c]]
    /\ UNCHANGED <<storeVars, driverVars, conn, handle, lock>>

\* Mutant: the drivers that are dropped are disconnected.
SyncDisconnecting(k) ==
    LET switched == {c \in Conns : stored[c] # managed[c]}
        dropped == {driver[c] : c \in switched}
    IN
    /\ Unlocked
    /\ Step(k, "syncing", "done")
    /\ managed' = stored
    /\ driver' = [c \in Conns |-> IF c \in switched THEN NoCommand ELSE driver[c]]
    /\ status' = [c \in Conns |-> IF c \in switched THEN "disconnected" ELSE status[c]]
    /\ pool' = [j \in Commands |-> IF j \in dropped THEN "closed" ELSE pool[j]]
    /\ tunnel' = [j \in Commands |-> IF j \in dropped /\ tunnel[j] = "listening" THEN "closed" ELSE tunnel[j]]
    /\ UNCHANGED <<storeVars, mode, conn, handle, lock>>

\* The last step of save and delete: the list is read again under the mutex,
\* and sync_connections drops (it does not disconnect) the driver of every
\* connection that is gone or whose flag was switched.
Sync(k) ==
    LET switched == {c \in Conns : stored[c] # managed[c]} IN
    /\ Unlocked
    /\ Step(k, "syncing", "done")
    /\ managed' = stored
    /\ driver' = [c \in Conns |-> IF c \in switched THEN NoCommand ELSE driver[c]]
    /\ status' = [c \in Conns |-> IF c \in switched THEN "disconnected" ELSE status[c]]
    /\ UNCHANGED <<storeVars, driverVars, conn, handle, lock>>

-----------------------------------------------------------------------------
(* Commands that use a connection: a statement, or a backup or restore.    *)

\* connected_driver and connected_context clone the handle under the mutex.
Borrow(k, c) ==
    /\ Unlocked
    /\ status[c] = "connected"
    /\ \E to \in {"borrowed", "preparing"} : Invoke(k, c, to)
    /\ handle' = [handle EXCEPT ![k] = driver[c]]
    /\ UNCHANGED <<storeVars, managerVars, driverVars, lock>>

\* pool.get() succeeds as long as nobody closed the pool.
Execute(k) ==
    /\ Step(k, "borrowed", "executing")
    /\ pool[handle[k]] = "open"
    /\ UNCHANGED <<storeVars, managerVars, driverVars, conn, handle, lock>>

\* run_tool reads the target from the handle and spawns pg_dump or pg_restore.
Spawn(k) ==
    /\ Step(k, "preparing", "dumping")
    /\ UNCHANGED <<storeVars, managerVars, driverVars, conn, handle, lock>>

\* The command returns, whether it ran or failed on the way (a closed pool, a
\* missing secret or tool), and drops its clone.
GiveBack(k) ==
    /\ \E from \in {"borrowed", "preparing", "executing", "dumping"} : Step(k, from, "done")
    /\ handle' = [handle EXCEPT ![k] = NoCommand]
    /\ UNCHANGED <<storeVars, managerVars, driverVars, conn, lock>>

-----------------------------------------------------------------------------
Start(k, c) ==
    \/ Refuse(k, c) \/ ConnectStored(k, c) \/ Disconnect(k, c) \/ Delete(k, c)
    \/ Borrow(k, c)
    \/ \E m \in Modes : Save(k, c, m)

Continue(k) ==
    \/ ReadSecrets(k) \/ EnterConnect(k) \/ ConnectNotFound(k)
    \/ OpenTunnel(k) \/ OpenPool(k) \/ ConnectFails(k)
    \/ Erase(k) \/ Forget(k) \/ Sync(k)
    \/ Execute(k) \/ Spawn(k) \/ GiveBack(k)

Terminated ==
    /\ \A k \in Commands : pc[k] \in {"done", "failed"}
    /\ UNCHANGED vars

Next ==
    \/ \E k \in Commands : Continue(k) \/ \E c \in Conns : Start(k, c)
    \/ Terminated

Spec == Init /\ [][Next]_vars

\* tokio's mutex is fair and every task is polled again; the servers, the
\* Secret Service and the tools are taken to answer or to fail.
FairSpec == Spec /\ \A k \in Commands : WF_vars(Continue(k))

-----------------------------------------------------------------------------
\* Every variable keeps to the values the code can give it.
TypeOK ==
    /\ stored \in [Conns -> Modes \cup {"absent"}]
    /\ managed \in [Conns -> Modes \cup {"absent"}]
    /\ status \in [Conns -> {"disconnected", "connecting", "connected", "error"}]
    /\ driver \in [Conns -> Commands \cup {NoCommand}]
    /\ lock \in Commands \cup {NoCommand}
    /\ pc \in [Commands -> {"new", "reading", "locking", "tunnelling", "pooling",
                            "erasing", "forgetting", "syncing", "borrowed", "preparing",
                            "executing", "dumping", "done", "failed"}]
    /\ conn \in [Commands -> Conns \cup {NoConn}]
    /\ handle \in [Commands -> Commands \cup {NoCommand}]
    /\ mode \in [Commands -> Modes \cup {"none"}]
    /\ pool \in [Commands -> {"none", "open", "closed"}]
    /\ tunnel \in [Commands -> {"none", "listening", "closed"}]

\* What the UI shows as connected can be used: behind the status "connected"
\* there is a driver that was opened for this very connection, its pool is
\* open and its tunnel, if it has one, still accepts.
ConnectedIsUsable ==
    \A c \in Conns : status[c] = "connected" =>
        /\ driver[c] # NoCommand
        /\ conn[driver[c]] = c
        /\ pool[driver[c]] = "open"
        /\ tunnel[driver[c]] = IF c \in Ssh THEN "listening" ELSE "none"

\* "Switching the flag closes the session and the next connect applies the
\* new one": whatever saves, deletes and connects overlap, a session opened
\* writable is never the one a read-only connection hands out, nor the other
\* way round.
SessionHonoursFlag ==
    \A c \in Conns : status[c] = "connected" => mode[driver[c]] = managed[c]

\* The commands that are about to sync the manager for a change they wrote.
Writers == {k \in Commands : pc[k] \in {"forgetting", "syncing"}}

\* Once nobody is about to sync, the manager knows exactly the connections
\* and flags of the list.  The one exception: a delete that could not remove
\* a secret leaves its connection registered though it is gone from the list.
RegistryFollowsStore ==
    Writers = {} =>
        \A c \in Conns :
            \/ managed[c] = stored[c]
            \/ stored[c] = "absent" /\ \E k \in Commands : pc[k] = "failed" /\ conn[k] = c

\* No connection is left "connecting" by a connect that has ended, and the
\* mutex is held across an await by a connect and by nothing else.
ConnectingIsUnderway ==
    \A c \in Conns : status[c] = "connecting" <=>
        \E k \in Commands : lock = k /\ conn[k] = c /\ pc[k] \in {"tunnelling", "pooling"}

\* A command returns although it may need the mutex several times and although
\* connect keeps it while it waits for servers.
EveryCommandEnds ==
    \A k \in Commands : pc[k] # "new" ~> pc[k] \in {"done", "failed"}

\* backup.rs:3-5: an open driver "keeps an in-process SSH tunnel alive for the
\* duration of the operation": while a backup or restore runs, nothing but a
\* disconnect or a deletion of its own connection ends the tunnel it was
\* pointed at, not the switch of a flag, not a reconnect, not another command.
ToolKeepsTunnel ==
    [][\A k \in Commands :
          pc[k] = "dumping" /\ tunnel[handle[k]] = "listening" /\ tunnel'[handle[k]] # "listening"
              => \E j \in Commands :
                    pc[j] = "new" /\ pc'[j] \in {"done", "erasing"} /\ conn'[j] = conn[k]]_vars
=============================================================================
