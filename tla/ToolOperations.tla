---------------------------- MODULE ToolOperations ----------------------------
(***************************************************************************)
(* Files the user picked in a native dialog and the operations that may    *)
(* touch them: pg_dump, pg_restore or psql as a child process, and the     *)
(* preview and the run of a table import.  A pick authorizes one path for  *)
(* one purpose for a while; the authorization is spent by the operation.   *)
(* Commands run at the same time and step by step between their awaits.    *)
(***************************************************************************)
EXTENDS Naturals, Sequences, FiniteSets

CONSTANTS
    Calls,       \* command invocations; each runs once
    Batches,     \* sets of calls that meet each other
    Paths,
    Purpose,     \* what a call wants its file for: "backup", "restore", "import" or "preview"
    PathOf,
    OpOf,        \* the operation id the frontend chose for a call
    TTL,         \* FILE_AUTHORIZATION_TTL
    MaxTime,     \* bound: the clock
    MaxPicks     \* bound: answers of the native dialogs

\* What a command finds the connection to be; other commands switch it at will.
Sessions == {"off", "rw", "ro"}

Purposes == {"backup", "restore", "import"}
None == [purpose |-> "none", at |-> 0]

ASSUME ToolAssumption ==
    /\ Batches \subseteq SUBSET Calls
    /\ Purpose \in [Calls -> Purposes \cup {"preview"}]
    /\ PathOf \in [Calls -> Paths]
    /\ {TTL, MaxTime, MaxPicks} \subseteq Nat

VARIABLES
    issued,      \* the calls that are made
    authorized,  \* authorized_files: path -> purpose and time, or None
    clock,
    pc,
    cancel,      \* calls whose watch channel holds true
    child,       \* the child process: "none", "running", "zero", "nonzero", "killed"
    result,      \* what the call returned
    picks,       \* answers of the dialogs so far: [path, purpose, at]
    spent        \* history: [call, at] of every authorization an operation used

vars == <<issued, authorized, clock, pc, cancel, child, result, picks, spent>>

-----------------------------------------------------------------------------
Init ==
    /\ issued \in Batches
    /\ authorized = [p \in Paths |-> None]
    /\ clock = 0
    /\ pc = [c \in Calls |-> "new"]
    /\ cancel = {}
    /\ child = [c \in Calls |-> "none"]
    /\ result = [c \in Calls |-> "none"]
    /\ picks = <<>>
    /\ spent = {}

Tool(c) == Purpose[c] \in {"backup", "restore"}
Wanted(c) == IF Purpose[c] = "preview" THEN "import" ELSE Purpose[c]

\* The operation ids in the registry.
Registered == {OpOf[c] : c \in {d \in Calls : pc[d] \in {"registered", "waiting", "importing"}}}

Valid(c) ==
    LET grant == authorized[PathOf[c]] IN
    grant.purpose = Wanted(c) /\ clock - grant.at <= TTL

Goto(c, step) == pc' = [pc EXCEPT ![c] = step]
Leave(c, answer) == Goto(c, "done") /\ result' = [result EXCEPT ![c] = answer]

-----------------------------------------------------------------------------
\* validate_selected_path: a backup may replace a file but not a symbolic
\* link, the other operations read a regular file.
Selectable(found, purpose) == IF purpose = "backup" THEN found # "link" ELSE found = "file"

\* Mutant: an earlier authorization of the path stays.
PickKeepingFirst(p, purpose) ==
    /\ Len(picks) < MaxPicks
    /\ authorized' = IF authorized[p] = None
                     THEN [authorized EXCEPT ![p] = [purpose |-> purpose, at |-> clock]]
                     ELSE authorized
    /\ picks' = Append(picks, [path |-> p, purpose |-> purpose, at |-> clock])
    /\ UNCHANGED <<issued, clock, pc, cancel, child, result, spent>>

\* The dialog returned a path; one that is not selectable changes nothing.
Pick(p, purpose) ==
    /\ \E found \in {"nothing", "file", "directory", "link"} : Selectable(found, purpose)
    /\ Len(picks) < MaxPicks
    /\ authorized' = [authorized EXCEPT ![p] = [purpose |-> purpose, at |-> clock]]
    /\ picks' = Append(picks, [path |-> p, purpose |-> purpose, at |-> clock])
    /\ UNCHANGED <<issued, clock, pc, cancel, child, result, spent>>

Tick ==
    /\ clock < MaxTime
    /\ clock' = clock + 1
    /\ UNCHANGED <<issued, authorized, pc, cancel, child, result, picks, spent>>

\* run_restore and run_table_import ask for a writable driver first.
Begin(c) ==
    /\ pc[c] = "new"
    /\ \E session \in Sessions :
          IF Purpose[c] \in {"restore", "import"} /\ session # "rw"
          THEN Leave(c, IF session = "ro" THEN "read_only" ELSE "not_active")
          ELSE Goto(c, "checked") /\ UNCHANGED result
    /\ UNCHANGED <<issued, authorized, clock, cancel, child, picks, spent>>

\* Mutant: look the authorization up instead of removing it.
ConsumeWithoutRemoving(c) ==
    /\ pc[c] = "checked" /\ Purpose[c] # "preview"
    /\ IF Valid(c)
       THEN /\ Goto(c, "authorized") /\ UNCHANGED result
            /\ spent' = spent \cup {[call |-> c, at |-> clock]}
       ELSE Leave(c, "choose_again") /\ UNCHANGED spent
    /\ UNCHANGED <<issued, authorized, clock, cancel, child, picks>>

\* consume_file_authorization: gone in any case, right or wrong.
Consume(c) ==
    /\ pc[c] = "checked" /\ Purpose[c] # "preview"
    /\ authorized' = [authorized EXCEPT ![PathOf[c]] = None]
    /\ IF Valid(c)
       THEN /\ Goto(c, "authorized") /\ UNCHANGED result
            /\ spent' = spent \cup {[call |-> c, at |-> clock]}
       ELSE Leave(c, "choose_again") /\ UNCHANGED spent
    /\ UNCHANGED <<issued, clock, cancel, child, picks>>

\* preview_table_import leaves the authorization for the import.
Preview(c) ==
    /\ pc[c] = "checked" /\ Purpose[c] = "preview"
    /\ IF Valid(c) THEN \E answer \in {"not_active", "preview"} : Leave(c, answer)
       ELSE Leave(c, "choose_again")
    /\ UNCHANGED <<issued, authorized, clock, cancel, child, picks, spent>>

\* A tool borrows the driver again and reads the password; an import parses the
\* file and checks the mapping.  Each may fail, and then the pick is lost.
Prepare(c) ==
    /\ pc[c] = "authorized"
    /\ \/ Tool(c) /\ Leave(c, "not_active")
       \/ Leave(c, "failed")
       \/ Goto(c, "prepared") /\ UNCHANGED result
    /\ UNCHANGED <<issued, authorized, clock, cancel, child, picks, spent>>

Register(c) ==
    /\ pc[c] = "prepared"
    /\ IF OpOf[c] \in Registered THEN Leave(c, "duplicate")
       ELSE Goto(c, IF Tool(c) THEN "registered" ELSE "importing") /\ UNCHANGED result
    /\ UNCHANGED <<issued, authorized, clock, cancel, child, picks, spent>>

\* The spawned task starts the program, or does not find it.
Spawn(c) ==
    /\ pc[c] = "registered"
    /\ \/ /\ child' = [child EXCEPT ![c] = "running"]
          /\ Goto(c, "waiting") /\ UNCHANGED result
       \/ Leave(c, "not_installed") /\ UNCHANGED child
    /\ UNCHANGED <<issued, authorized, clock, cancel, picks, spent>>

ChildExits(c) ==
    /\ child[c] = "running"
    /\ \E code \in {"zero", "nonzero"} : child' = [child EXCEPT ![c] = code]
    /\ UNCHANGED <<issued, authorized, clock, pc, cancel, result, picks, spent>>

\* tokio::select! when the child's exit is ready ...
Exited(c) ==
    /\ pc[c] = "waiting" /\ child[c] \in {"zero", "nonzero"}
    /\ Leave(c, IF child[c] = "zero" THEN "succeeded" ELSE "failed")
    /\ UNCHANGED <<issued, authorized, clock, cancel, child, picks, spent>>

\* Mutant: report the cancellation and leave the process to itself.
ReportCancelled(c) ==
    /\ pc[c] = "waiting" /\ c \in cancel
    /\ Leave(c, "cancelled")
    /\ UNCHANGED <<issued, authorized, clock, cancel, child, picks, spent>>

\* Mutant: wait for a process that nobody killed.
WaitWithoutKill(c) ==
    /\ pc[c] = "waiting" /\ c \in cancel /\ child[c] # "running"
    /\ Leave(c, "cancelled")
    /\ UNCHANGED <<issued, authorized, clock, cancel, child, picks, spent>>

\* ... and when the cancellation is: kill, then wait.  A child that had
\* already exited keeps its exit code.
Killed(c) ==
    /\ pc[c] = "waiting" /\ c \in cancel
    /\ child' = [child EXCEPT ![c] = IF @ = "running" THEN "killed" ELSE @]
    /\ Leave(c, "cancelled")
    /\ UNCHANGED <<issued, authorized, clock, cancel, picks, spent>>

\* run_table_import's COPY and its report; see CancelableOperations.
Imported(c) ==
    /\ pc[c] = "importing"
    /\ Leave(c, IF c \in cancel THEN "cancelled" ELSE "succeeded") \/ Leave(c, "failed")
    /\ UNCHANGED <<issued, authorized, clock, cancel, child, picks, spent>>

\* cancel_operation finds the sender that is registered under the id.
Cancel(c) ==
    /\ pc[c] \in {"registered", "waiting", "importing"}
    /\ c \notin cancel
    /\ cancel' = cancel \cup {c}
    /\ UNCHANGED <<issued, authorized, clock, pc, child, result, picks, spent>>

Own(c) ==
    \/ Begin(c) \/ Consume(c) \/ Preview(c) \/ Prepare(c) \/ Register(c)
    \/ Spawn(c) \/ Exited(c) \/ Killed(c) \/ Imported(c)

Terminated == (\A c \in issued : pc[c] = "done") /\ UNCHANGED vars

Next ==
    \/ \E c \in issued : Own(c) \/ ChildExits(c) \/ Cancel(c)
    \/ \E p \in Paths, purpose \in Purposes : Pick(p, purpose)
    \/ Tick \/ Terminated

Spec == Init /\ [][Next]_vars

\* Tokio polls every task again; a child process need not end by itself.
FairSpec == Spec /\ \A c \in Calls : WF_vars(c \in issued /\ Own(c))

-----------------------------------------------------------------------------
\* Every variable keeps to the values the code can give it.
TypeOK ==
    /\ authorized \in [Paths -> {None} \cup [purpose : Purposes, at : 0..MaxTime]]
    /\ clock \in 0..MaxTime
    /\ cancel \subseteq Calls
    /\ \A c \in Calls :
          /\ result[c] # "none" <=> pc[c] = "done"
          /\ child[c] # "none" => Tool(c) /\ pc[c] \in {"waiting", "done"}

PicksFor(p, purpose) == {n \in 1..Len(picks) : picks[n].path = p /\ picks[n].purpose = purpose}

\* "consumida uma unica vez": however many calls come with one path at the same
\* time, no more of them go on than there were picks of that path for that purpose.
OneOperationPerPick ==
    \A p \in Paths, purpose \in Purposes :
        Cardinality({s \in spent : PathOf[s.call] = p /\ Wanted(s.call) = purpose})
            <= Cardinality(PicksFor(p, purpose))

\* The user's last word on a path counts: an operation goes on only on the
\* last pick of its path, for that purpose and at most TTL old.
LastPickDecides ==
    [][\A c \in Calls :
          pc[c] = "checked" /\ pc'[c] = "authorized" =>
              LET ofPath == {n \in 1..Len(picks) : picks[n].path = PathOf[c]}
                  last == picks[CHOOSE n \in ofPath : \A k \in ofPath : k <= n]
              IN  ofPath # {} /\ last.purpose = Wanted(c) /\ clock - last.at <= TTL]_vars

\* A command that has returned leaves no pg_dump, pg_restore or psql behind,
\* and what it says of a program that ended on its own is true.
NoChildLeftBehind ==
    \A c \in Calls : pc[c] = "done" =>
        /\ child[c] # "running"
        /\ result[c] = "succeeded" /\ Tool(c) => child[c] = "zero"

\* A cancellation that was accepted ends the operation, even when the program
\* would never end by itself.
CancelEnds == \A c \in Calls : (c \in cancel) ~> (pc[c] = "done")
=============================================================================
