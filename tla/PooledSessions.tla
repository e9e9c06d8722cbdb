---------------------------- MODULE PooledSessions ----------------------------
(***************************************************************************)
(* The commands of CommandCatalog over the sessions of one driver's pool.  *)
(* The pool hands the session that was idle longest to whoever asks, with  *)
(* whatever the last user left in it: a transaction, a setting.  A         *)
(* read-only driver resets default_transaction_read_only first and lets a  *)
(* session go that refuses the reset; the others check nothing.            *)
(***************************************************************************)
EXTENDS CommandCatalog, FiniteSets

CONSTANTS
    Calls,      \* command invocations
    Offered,    \* names of the application's commands that may be called
    Scripts,    \* what the user may run in the SQL editor
    Flags,      \* what read_only may be
    MaxSessions \* the pool's size: five in the code

Programs == {OwnCommands[name] : name \in Offered} \cup {Editor(sql) : sql \in Scripts}
ASSUME PoolAssumption ==
    /\ Offered \subseteq DOMAIN OwnCommands
    /\ Scripts \subseteq Seq(STRING)
    /\ Flags \subseteq BOOLEAN
    /\ MaxSessions \in Nat \ {0}

VARIABLES
    read_only, \* the driver's flag
    session,  \* what PostgreSQL knows of each session
    idle,     \* the pool's queue
    open,     \* sessions that exist
    db,       \* calls whose changes are committed
    call      \* call -> [program, at: next hold and held: session, or 0, of each branch,
              \*          failed, lost: a connection ended under it, result]

poolVars == <<read_only, session, idle, open, db, call>>

-----------------------------------------------------------------------------
Fresh == [tx |-> "none", readonly |-> read_only, default |-> read_only, saved |-> read_only, pending |-> {}]

Branches(c) == 1..Len(call[c].program.branches)
Hold(c, b) == call[c].program.branches[b][call[c].at[b]]
Waiting(c, b) ==
    /\ call[c].result = "running" /\ b \in Branches(c)
    /\ call[c].held[b] = 0 /\ call[c].at[b] <= Len(call[c].program.branches[b])
Holding(c, b) == call[c].result = "running" /\ b \in Branches(c) /\ call[c].held[b] # 0

\* PostgresDriver::connect leaves one session in the pool.
PoolInit ==
    /\ read_only \in Flags
    /\ session = [s \in 1..MaxSessions |-> Fresh]
    /\ idle = <<1>> /\ open = {1}
    /\ db = {}
    /\ call = [c \in Calls |-> [program |-> Connected(<<>>), at |-> <<>>, held |-> <<>>,
                                failed |-> FALSE, lost |-> FALSE, result |-> "new"]]

-----------------------------------------------------------------------------
\* Statements on the server.  st is the session with committed (the calls whose
\* changes it made permanent) and error.
MayWrite(st) == ~(IF st.tx = "open" THEN st.readonly ELSE st.default)

\* ROLLBACK: the settings of the transaction are undone too.
Undone(st) == IF st.tx = "none" THEN st ELSE [st EXCEPT !.tx = "none", !.pending = {}, !.default = st.saved]

\* An error in a transaction block leaves the block to be rolled back.
Failed(st, kind) ==
    IF kind = "commit" THEN [Undone(st) EXCEPT !.error = TRUE]
    ELSE [st EXCEPT !.error = TRUE, !.pending = {}, !.tx = IF @ = "none" THEN "none" ELSE "failed"]

\* c's statement of a kind in a session that has no failed transaction.
Accepted(c, st, kind) ==
    CASE kind = "write" -> IF MayWrite(st) THEN [st EXCEPT !.pending = @ \cup {c}] ELSE Failed(st, kind)
      [] kind = "vacuum" -> IF st.tx = "none" THEN [st EXCEPT !.committed = @ \cup {c}] ELSE Failed(st, kind)
      [] kind = "begin" ->
            IF st.tx = "none" THEN [st EXCEPT !.tx = "open", !.readonly = st.default, !.saved = st.default] ELSE st
      [] kind = "begin_read_only" ->
            [st EXCEPT !.tx = "open", !.readonly = TRUE, !.saved = IF st.tx = "none" THEN st.default ELSE @]
      [] kind = "commit" -> [st EXCEPT !.tx = "none", !.pending = {}, !.committed = @ \cup st.pending]
      [] kind = "rollback" -> Undone(st)
      [] kind \in {"set_read_write", "turn_off"} -> [st EXCEPT !.default = FALSE]
      [] OTHER -> st

Statement(c, st, kind) ==
    IF st.error THEN st
    ELSE IF st.tx # "failed" THEN Accepted(c, st, kind)
    ELSE IF kind \in {"commit", "rollback"} THEN Undone(st) ELSE Failed(st, kind)

\* The session after each of the statements.
After(c, start, sql) ==
    LET after[n \in 0..Len(sql)] == IF n = 0 THEN start ELSE Statement(c, after[n - 1], sql[n])
    IN  after

\* A message outside a transaction block commits at its end.
EndOfMessage(st) ==
    IF st.tx = "none" THEN [st EXCEPT !.committed = @ \cup st.pending, !.pending = {}] ELSE st

Started(st) ==
    [tx |-> st.tx, readonly |-> st.readonly, default |-> st.default, saved |-> st.saved,
     pending |-> st.pending, committed |-> {}, error |-> FALSE]

\* The outcomes of c's hold in session s: any statement may fail.
Outcomes(c, s, hold) ==
    LET after == After(c, Started(session[s]), hold.sql)
        Full == after[Len(hold.sql)]
        Cut(n) == IF after[n].error THEN after[n] ELSE Failed(after[n], hold.sql[n + 1])
        Dropped(st) == IF hold.rollback /\ st.error THEN Undone(st) ELSE st
    IN  {Dropped(EndOfMessage(st)) : st \in {Full} \cup {Cut(n) : n \in 0..Len(hold.sql) - 1}}

-----------------------------------------------------------------------------
\* writable_driver, and reenables_writes, which looks at the words of the text: it
\* finds a SET of the flag, and not a function the text calls that turns it off.
Refused(program) ==
    /\ read_only
    /\ \/ program.driver = "writable"
       \/ \E b \in DOMAIN program.branches : \E h \in DOMAIN program.branches[b] :
             \E i \in DOMAIN program.branches[b][h].sql : program.branches[b][h].sql[i] = "set_read_write"

StartCall(c) ==
    /\ call[c].result = "new"
    /\ \E program \in Programs :
          call' = [call EXCEPT ![c] =
                     [program |-> program,
                      at |-> [b \in DOMAIN program.branches |-> 1],
                      held |-> [b \in DOMAIN program.branches |-> 0],
                      failed |-> FALSE, lost |-> FALSE,
                      result |-> IF Refused(program) THEN "read_only" ELSE "running"]]
    /\ UNCHANGED <<read_only, session, idle, open, db>>

\* pool.get finds a session idle.
Recycle(s) ==
    /\ idle' = Tail(idle)
    /\ IF read_only /\ session[s].tx = "failed"
       THEN /\ session' = [session EXCEPT ![s] = Fresh]
            /\ open' = open \ {s}
            /\ UNCHANGED call
       ELSE /\ session' = IF read_only THEN [session EXCEPT ![s].default = TRUE] ELSE session
            /\ \E c \in Calls : \E b \in Branches(c) :
                  Waiting(c, b) /\ call' = [call EXCEPT ![c].held[b] = s]
            /\ UNCHANGED open

Get ==
    /\ \E c \in Calls : \E b \in Branches(c) : Waiting(c, b)
    /\ idle # <<>> /\ Recycle(Head(idle))
    /\ UNCHANGED <<read_only, db>>

\* pool.get finds none and connects.
Open(c, b) ==
    /\ Waiting(c, b) /\ idle = <<>>
    /\ \E s \in (1..MaxSessions) \ open :
          /\ \A r \in (1..MaxSessions) \ open : s <= r
          /\ open' = open \cup {s}
          /\ session' = [session EXCEPT ![s] = Fresh]
          /\ call' = [call EXCEPT ![c].held[b] = s]
    /\ UNCHANGED <<read_only, idle, db>>

\* Where a branch stands after a hold, or at the end if that failed.
Advanced(c, b, error, lost) ==
    LET stop == error /\ Hold(c, b).stops IN
    [call EXCEPT ![c].held[b] = 0, ![c].failed = @ \/ stop, ![c].lost = @ \/ lost,
                 ![c].at[b] = IF stop THEN Len(call[c].program.branches[b]) + 1 ELSE @ + 1]

\* Mutant: a statement that failed is tried again.
RunRetrying(c, b) ==
    /\ Holding(c, b)
    /\ LET s == call[c].held[b] IN
       \E st \in Outcomes(c, s, Hold(c, b)) :
          /\ session' = [session EXCEPT ![s] = [f \in DOMAIN Fresh |-> st[f]]]
          /\ db' = db \cup st.committed
          /\ idle' = Append(idle, s)
          /\ call' = IF st.error THEN [call EXCEPT ![c].held[b] = 0] ELSE Advanced(c, b, FALSE, FALSE)
    /\ UNCHANGED <<read_only, open>>

\* What was done without an error is answered with one; inside a transaction
\* block a procedure cannot commit.
TooLate(hold, st) == hold.late = "rows" \/ (hold.late = "procedure" /\ st.tx = "none")

\* The statements of the hold, and the session back to the pool.
Run(c, b) ==
    /\ Holding(c, b)
    /\ LET s == call[c].held[b] IN
       \E st \in Outcomes(c, s, Hold(c, b)), error \in BOOLEAN :
          /\ error = st.error \/ (error /\ TooLate(Hold(c, b), st))
          /\ session' = [session EXCEPT ![s] = [f \in DOMAIN Fresh |-> st[f]]]
          /\ db' = db \cup st.committed
          /\ idle' = Append(idle, s)
          /\ call' = Advanced(c, b, error, FALSE)
    /\ UNCHANGED <<read_only, open>>

\* The connection ends under the hold, however far the server got: the answer is
\* an error, a transaction is rolled back, and the pool drops the session.
Lose(c, b) ==
    /\ Holding(c, b)
    /\ LET s == call[c].held[b] IN
       /\ \E st \in Outcomes(c, s, Hold(c, b)) : db' = db \cup st.committed
       /\ session' = [session EXCEPT ![s] = Fresh]
       /\ open' = open \ {s}
    /\ call' = Advanced(c, b, TRUE, TRUE)
    /\ UNCHANGED <<read_only, idle>>

\* A query whose condition does not hold; a check between two queries that ends the command.
Skip(c, b) ==
    /\ Waiting(c, b)
    /\ \/ Hold(c, b).optional /\ call' = [call EXCEPT ![c].at[b] = @ + 1]
       \/ call[c].at[b] > 1 /\ Hold(c, b).stops /\ call' = Advanced(c, b, TRUE, FALSE)
    /\ UNCHANGED <<read_only, session, idle, open, db>>

Answer(c) ==
    /\ call[c].result = "running"
    /\ \A b \in Branches(c) : ~Waiting(c, b) /\ ~Holding(c, b)
    /\ call' = [call EXCEPT ![c].result = IF call[c].failed THEN "error" ELSE "ok"]
    /\ UNCHANGED <<read_only, session, idle, open, db>>

AllAnswered == (\A c \in Calls : call[c].result \notin {"new", "running"}) /\ UNCHANGED poolVars

CallStep(c) == Answer(c) \/ \E b \in Branches(c) : Open(c, b) \/ Run(c, b) \/ Skip(c, b)

PoolNext ==
    \/ \E c \in Calls : StartCall(c) \/ CallStep(c) \/ \E b \in Branches(c) : Lose(c, b)
    \/ Get \/ AllAnswered

PoolSpec == PoolInit /\ [][PoolNext]_poolVars

\* deadpool serves whoever waits, and statement_timeout ends every statement: as
\* no call goes on for ever, it is enough that some step is taken.
FairPoolSpec == PoolSpec /\ WF_poolVars(Get \/ \E c \in Calls : CallStep(c))

-----------------------------------------------------------------------------
\* c runs the user's own statements.
Edits(c) == \E sql \in Scripts : call[c].program = Editor(sql)

\* Somebody may leave a transaction open: the editor, or the three holds of
\* validate_function_definition.
LooseEnds == \E c \in Calls : Edits(c) \/ call[c].program = Connected(<<validate_function>>)

\* Every session is idle, held by one branch or not there, and only a
\* transaction that is open has changes to lose.
SessionsOK ==
    /\ \A s \in 1..MaxSessions :
          /\ session[s].tx \in {"none", "open", "failed"}
          /\ session[s].pending # {} => session[s].tx = "open"
          /\ Cardinality({n \in DOMAIN idle : idle[n] = s})
             + Cardinality({p \in Calls \X (1..3) : Holding(p[1], p[2]) /\ call[p[1]].held[p[2]] = s})
             = IF s \in open THEN 1 ELSE 0
    /\ db \subseteq Calls

\* A change of a row, and a call of a routine: their error may come too late.
MayBeTooLate(program) ==
    \E b \in DOMAIN program.branches : \E h \in DOMAIN program.branches[b] : program.branches[b][h].late # "no"

\* "A mid-way failure leaves the table untouched", "any failure restores the
\* original index": nothing of one of Draco's own commands that was answered with
\* an error waits in a session for somebody's COMMIT, and nothing is in the
\* database unless a connection ended under it, whatever others, the editor
\* among them, left in the session it got; changes of rows and calls of routines
\* cannot promise that.
FailedCommandsLeaveNothing ==
    \A c \in Calls : call[c].result = "error" /\ ~Edits(c) /\ ~MayBeTooLate(call[c].program) =>
        /\ \A s \in 1..MaxSessions : c \notin session[s].pending
        /\ c \in db => call[c].lost

\* A change one of Draco's own commands reported as done is committed, and not
\* left to a transaction of the session it happened to get; alter_table may find
\* nothing to change.
ReportedIsCommitted ==
    ~LooseEnds => \A c \in Calls :
        call[c].result = "ok" /\ call[c].program.driver = "writable" =>
            /\ \A s \in 1..MaxSessions : c \notin session[s].pending
            /\ c \in db \/ call[c].program = OwnCommands["alter_table"]

\* Whatever the user runs and in whichever session, a read-only connection
\* changes nothing.
ReadOnlyChangesNothing == read_only => db = {}

\* Branches of a command, and commands, wait for one session at a time and give
\* it back: every command is answered.
CommandsAreAnswered == \A c \in Calls : call[c].result = "running" ~> call[c].result \in {"ok", "error"}
=============================================================================
