# Draco in TLA+

Draco is a PostgreSQL desktop client: a Rust core (`draco-core`), a layer of use cases
(`draco-app`), a Tauri shell (`src-tauri`) and a JavaScript frontend (`frontend/dist`). This
directory holds TLA+ models of it, the TLC configurations that check them and the TLAPS proofs
about them. Paths below are relative to the repository. `PROJECT.json` maps every definition to the
lines it models and lists the runs, the mutants, the hazards and the findings.

## The system

Every frontend action is one Tauri command, and every command is one method of a single shared
`Application`. The asynchronous ones run concurrently on tokio, the synchronous ones one after the
other on the shell's main thread. Nothing serialises the asynchronous ones but four mutexes
(`manager`, `operations`, `authorized_files`, `pending_import`), each of which is let go before the
command waits for anything, with one exception: `connect` keeps the manager's.

| component | state | operations | what is hard | modelled in |
|---|---|---|---|---|
| registry of operations, `lib.rs` | operation id to watch sender | `register_operation`, `finish_operation`, `cancel_operation` | lookup and signal are two steps, ids are removed by name | `CancelableOperations`, `ToolOperations` |
| driver and pool, `postgres/pool.rs` | five-slot pool, optional tunnel, read-only flag | statements, `cancelable`, `copy_in`, `cancel_backend`, `disconnect` | cancellation races, dropped futures, exhaustion, what a session keeps | `CancelableOperations`, `PooledSessions` |
| connection manager and use cases, `manager.rs`, `lib.rs` | per connection: data, status, driver | `sync_connections`, `connect`, `disconnect`, `save_connection`, `delete_connection` | a mutex kept across awaits, clones that outlive the entry, errors between two steps | `ConnectionLifecycle` |
| SSH tunnel, `postgres/tunnel.rs` | listener and its accept task | `open`, `close` | aborted while in use, never closed when dropped | `ConnectionLifecycle` |
| TOML store, `store.rs` | one file per kind of data | read, change, write back | no lock, truncating writes, errors read as defaults | `ConfigStore` |
| secrets, `secrets.rs` | Secret Service items | get, store, remove | may fail between two steps of a command | `ConnectionLifecycle`, `ConfigStore` |
| file authorizations, `lib.rs` | path to purpose and time | authorize, check, consume | single use, expiry, order of checks | `ToolOperations` |
| backup and restore, `postgres/backup.rs` | a child process | `run_dump`, `run_restore` | kill against exit; the tunnel it was pointed at | `ToolOperations`, `ConnectionLifecycle` |
| table import, `table_import.rs` (two) | none | parse, map, `copy_in`, report | what a cancellation is reported as | `CancelableOperations`, `ToolOperations` |
| connection import, `connection_import.rs` (two) | one pending preview | preview, import, discard; the libpq parsers | a new preview during an import, one index for two lists | `ConnectionImport`, `LibpqParameters` |
| assistant, `assistant.rs`, `store.rs` | conversation per connection, daily count | send, clear, select | overlapping sends, an error in the tool loop | `AssistantChat` |
| catalog queries and object editors, `queries/` | none | one command each | several sessions, a failure half way, what a session keeps | `CommandCatalog`, `PooledSessions` |
| schema diff, `schema_diff.rs` | none | `diff_schemas` | the order of the statements | `SchemaDiff` |
| ALTER TABLE builder, `alter_table.rs` | a form in the page | preview, apply | three reads of the table, the order of the statements | `AlterTable` |
| browsing and editing rows, `browse_edit.rs` | a page in the panel | load, update, insert, delete | requests of one grid under way together | `RowEditing` |
| frontend, `frontend/dist/app.js` | page state | renders, invokes | answers out of order | with the four dialogs above |
| GitHub, updates, notifications, ERD parser, validators, packaging | settings | HTTP requests, text functions | a remote that moves | not modelled |

## Modules

| module | models |
|---|---|
| `OperationLifecycle` | what the registry of operations promises the frontend (abstract) |
| `CancelableOperations`, `CancelableOperationsProofs` | the registry, the cancelable calls, the pool and the server's backends; theorems |
| `ConnectionLifecycle`, `ConnectionLifecycleProofs` | the manager, drivers, tunnels and the commands on connections; theorems |
| `AtomicList` | what a caller of the store expects of a file (abstract) |
| `ConfigStore`, `ConfigStoreProofs` | the TOML files of connections, history and snippets; theorems |
| `ToolOperations`, `ToolOperationsProofs` | file authorizations and the operations that spend them; theorems |
| `ConnectionImport`, `ConnectionImportProofs` | the import dialog and the list of candidates behind it; theorems |
| `LibpqParameters` | connection URLs, password files and service files; theorems in `ConnectionImportProofs` |
| `AssistantChat`, `AssistantChatProofs` | the assistant's view, sends, clears, conversations and daily limit; theorems |
| `CommandCatalog`, `PooledSessions` | what each command sends, and the sessions of the pool it is sent in; theorems in `ConnectionLifecycleProofs` |
| `SchemaDiff`, `SchemaDiffProofs` | the comparison of two schemas and PostgreSQL running the script; theorems |
| `AlterTable` | the table editor's form, preview and application; theorems in `SchemaDiffProofs` |
| `RowEditing`, `RowEditingProofs` | the data panel; theorems |
| `MC...` | the instances TLC checks |

`PooledSessions` extends `CommandCatalog`. `ConfigStore` refines `AtomicList`, and
`CancelableOperations` refines `OperationLifecycle`. The other modules meet in the code only through
what each of them takes as given: `ConnectionLifecycle` writes the list in one step (`ConfigStore` has
the steps), `ToolOperations` imports in one step (`CancelableOperations` has them), and a command of
`PooledSessions` runs over one driver (`ConnectionLifecycle` has the drivers). Each module states its
variables' ranges in a `TypeOK` (`FormTypeOK`, `SessionsOK`); those of the two core modules are proved,
and the first is checked in `operations` too. The proofs about the other modules begin with the types
they need (`Shape`, `Types`, `PoolTypes`), proved there.

Three proof modules extend a second component beside their own: the import's parsers belong to the
import, a pool to a connection, and ALTER TABLE to the schema. What would have the same name in both
has a prefix in the second: `ParserSpec`, `PoolSpec` and `FormSpec` are the specifications of
`LibpqParameters`, `PooledSessions` and `AlterTable`.

### CancelableOperations

A *call* is one invocation of `execute_query`, `execute_script`, `execute_explain` (kinds
`statement` and `script`) or `run_table_import` (kind `copy`), with or without an operation id. Its
`pc` follows the code: `connected_driver` (`Admit`), `register_operation` (`Register`,
`RefuseDuplicate`), `pool.get()` (`Acquire`, `AcquireFails`), the `pg_backend_pid()` query
(`Identified`), the `tokio::select!` of `cancelable` (`FirstPoll`, `Advance`, `Succeed`, `Fail`,
`CancellationWins`), the second `pool.get()` and query of `cancel_backend` (`AcquireHelper`,
`CancelBackend`, `CancelBackendFails`), the final `operation.await`, `finish_operation` (`Finish`)
and the import's reading of the flag (`Report`). A *canceller* is one `cancel_operation`: `Lookup`
clones the sender under the registry's lock, `SendSignal` sends after it let the lock go.

What matters of the server is in `inbox`: a backend works off its requests in order; a request whose
client future was dropped is still run and its answer is thrown away; `pg_cancel_backend` strikes
the request at the head of the target's inbox, or nothing when there is none or when it is still on
the wire. A copy is three round trips (BEGIN, the COPY, COMMIT), a statement two (prepare and run),
a script one. The chunks of a COPY are one round trip here: the cancellation points they add are
those before and after it. `ConnectionLost` breaks a connection: whoever waits for an answer on it
hears of an error, while a request the server was on may or may not have been applied.

Left out: SQL text and results, history entries, and refusals that come before the first state
change (empty SQL, a write on a read-only driver), which are the same as not calling.

Properties. `RegistrationMatchesRun`: an id is registered exactly while its call runs, so ids never leak and
`finish_operation`, which removes by name, never removes another call's entry. `AnswersComeBack`: although
slots return to the pool with requests on their way and connections break under whoever holds them next, a
client that waits has its own request last on its slot's connection, and one that does not finds the
connection quiet, so nobody waits for an answer that goes to somebody else. That deadpool gives a slot to one
client at a time is taken as given (`FreeBackends`). `CancelHitsOwnStatement`: when a `pg_cancel_backend` goes
out its target runs nothing of another call. `TruthfulVerdict`: a success is durable, a refused call never
reached the server, and an error before the last round trip left nothing behind (at the last one nobody can
know; that "cancelled" may be said of an applied COMMIT is listed below and not ruled out).
`EveryCallReturns`, with deadlock freedom: with fewer cancellations than slots somebody can always move.
`ImplementsLifecycle`: the registry seen from the frontend is `OperationLifecycle`, under the refinement
mapping that forgets everything but the registered, signalled and returned calls.

### ConnectionLifecycle

A *command* is one invocation of `connect_stored`, `disconnect`, `delete_connection`,
`save_connection`, a statement or a backup. `lock` is the manager's mutex as far as it is held
across an await (only by `connect`, from `EnterConnect` to `OpenPool` or `ConnectFails`); every other
use of the mutex is one action that needs it free. A driver is named by the command that opened it,
and `mode`, `pool` and `tunnel` are its read-only flag, its pool and its tunnel; they stay after the
manager has dropped the driver, because a clone may still be in use (`handle`) and because a dropped
`SshTunnel` goes on listening. `Sync` is `sync_connections` with the list it is given, read under the
mutex; `Close` is `ConnectionManager::disconnect`.

Of a connection's data only `read_only` and whether it has a tunnel are kept, and the latter does not
change: `sync_connections` reacts to no other field. `connect` with a password given by the caller is
`connect_stored` from its second look-up on.

Properties. `ConnectedIsUsable`: behind "connected" there is a driver of that connection with an open
pool and, if it needs one, a listening tunnel. `SessionHonoursFlag`: its sessions were opened with the
flag the manager shows. `RegistryFollowsStore`: once nobody is about to sync, manager and list agree,
except for a delete that failed after it had rewritten the list. `ConnectingIsUnderway`: a status is
"connecting" exactly while the connect that set it is under way. `ToolKeepsTunnel`: the tunnel of a
running backup ends by a disconnect or a deletion of its own connection and by nothing else.
`EveryCommandEnds`.

A listening tunnel that no driver in the manager and no command refers to is reachable (a reconnect
without a disconnect, a switched flag, a delete overtaken by a connect, a pool that fails after its
tunnel opened). No document promises otherwise, so no property says so.

### ConfigStore and AtomicList

A call is one save, delete, rename, insert or clear of one file. `Read` is `read_toml` with the edit in
memory; `Truncate`, `WritePart` and `Write` are `fs::write`, which empties the file, writes the start of the
text and then the rest. What there is of a text may be a shorter list, the last entry perhaps with defaults
for the fields that are missing (`CutShort`), or no TOML (`garbled`), which reads as the empty list; two
writers that overlap may also leave the start of one list and the end of the other (`Over`). `WriteFails` is
an I/O error before the truncation or anywhere behind it, `Crash` the end of the process wherever its calls
are; both leave what is there, and a new process starts with it. `Start` lets a call of a synchronous command
run only alone among those (`MainThread`): the history, the snippets and all but the connections' commands,
which are asynchronous. Commands on connections end with `Sync`, or at a secret that fails.

`ManagerFollowsFile`: when the commands on connections have come to their end, the manager holds what
the file says, however reads, writes, crashes and syncs interleaved. `ImplementsAtomicList`: calls
that share the main thread lose no change of one another, and a write that fails or is interrupted
costs the end of the list at most: it brings no entry back and changes none but the last one left. Calls
that do not share it lose changes; see below.

### ToolOperations

`Pick` is a native dialog's answer and the authorization it makes. A call then consults the session
(`Begin`; restore and import do that first), spends the authorization (`Consume`; `Preview` only
looks), prepares, registers, and either spawns the tool (`Spawn`, `ChildExits`, `Exited`, `Killed`) or
imports (`Imported`). The child may end by itself, with either code, or never. Time passes in units of
the authorization's life.

`OneOperationPerPick`: however many calls carry one path at the same time, no more of them go on than
there were picks of it for that purpose. `LastPickDecides`: an operation goes on only on the last pick
of its path. `NoChildLeftBehind`: a command that has returned leaves no program behind, and its
success is the program's. `CancelEnds`: a cancellation ends the operation although the program might
never end.

### ConnectionImport and LibpqParameters

`ConnectionImport` has the dialog (what is on screen, which rows can be ticked, whether the button is
enabled), the one pending list, and imports that select by index, test all at once, save one by one,
and mark each saved index in whatever list is pending by then. Previews, closings and expiry come in
between, and a second import may begin before the first has ended: nothing waits for anything but what
the page enforces. `NoDuplicateImport`: an import takes up no candidate that an import of the same list
has reported as saved. `GoneMeansImported`: a candidate that is missing from the list was saved from it,
or has the index of one that an import saved which this list overtook (`overtook`). What the two leave
out is in the list below: two imports that both select before either has marked, a candidate whose
secret failed after it was saved, and the mark in the wrong list.

`LibpqParameters` reads a URL's query parameter by parameter, a password file line by line, and a
service. Texts are members of small sets; what the parsers look at in them (several hosts, a socket
path, a port out of range, an undecodable escape) are predicates. `split_host_port` cuts an authority
without brackets at its last colon, as the code does, so that `::1` becomes the host `:` with port 1.
`UrlMeansWhatItSays` compares the loop with a declarative reading of the parameters.
`ListedLineIsLibpqs` is the comment at `draco-core/src/connection_import.rs:313-315`, that repeated
targets keep "the first line, which is the one libpq would use": every target that a line names is listed
once, from the line libpq finds first. The comment is false where an earlier line has a wildcard, which
libpq uses and the list passes over; the property exempts just those lines.

### AssistantChat

A send reads the conversation, adds the question, saves (`SaveRead`, `SaveWrite`: the file holds all
conversations), counts itself (`ReadUsage`, `WriteUsage`), and alternates requests, tool calls and
saves up to `Rounds` times. A request or a tool may fail, and what the round had added is then not saved.
A write of either file may fail and leave the file as it was or the start of its text (`SaveFails`,
`ClearFails`, `UsageFails`): some conversations whole, one cut short and the others gone; a counter that
is none, or has lost digits. The view has an epoch: `Loaded` and `Answer` of an older epoch are dropped,
`Reload` after a clear is not.

`AnswersFollowQuestions`: a reply is never in a conversation without its question, however sends and
clears overlap and their writes fail. `ConversationsAreIndependent`: what is stored as a connection's
conversation, and what a provider is sent for it, was asked on that connection, for every user.
`DailyLimit`: from one torn counter to the next no more messages of a day go to a provider than the limit,
for a user who waits for each answer. `AnswersLandWhereAsked`: whatever the order of histories and
replies, the view renders the selected connection's, unless a clear was used.

### CommandCatalog and PooledSessions

`CommandCatalog` has every query function of `draco-core` and every command of `draco-app` that uses
one, as branches that run side by side, each a sequence of holds of one session, each hold a sequence
of statement kinds (read, write, begin, commit, a VACUUM, a change of the read-only setting).
`PooledSessions` runs two of them, or the SQL editor's own statements, over a pool: `Get` hands out
the session that was idle longest after the recycling check, `Open` connects, `Run` executes a hold,
in which any statement may fail. A session keeps its transaction and its settings. `Lose` ends the
connection under a hold: the server may have done any part of it, the answer is an error, and the session
is gone. A hold may also be answered with an error after it was done (`late`, `TooLate`):
`ensure_single_row` counts the rows behind the commit (`RowChange`), and a procedure that commits may fail
afterwards (`ProcedureCall`).

`FailedCommandsLeaveNothing`: nothing of a command that was answered with an error waits in a session for
somebody's COMMIT, and nothing of it is in the database unless a connection ended under it, whatever the
session it got had been left with. The editor's own calls are the user's business; changes of rows and calls
of routines, whose error may come after the commit, are left out (`MayBeTooLate`). `ReportedIsCommitted`: a
write that was answered with success is committed. It leaves out what runs beside the editor or a validation
(`LooseEnds`), which may leave a transaction open in a session that goes back to the pool.
`ReadOnlyChangesNothing` lets the editor run anything, a function that turns the setting off among them.
`CommandsAreAnswered`: branches and commands that wait for each other's sessions all end.

### SchemaDiff

A schema is a function from ids (of tables, columns, constraints, indexes, triggers, views, routines,
sequences) to what the catalog says. `diff_schemas` builds the statements with their place: phase,
object, part and step, as the code sorts them. `Run` gives them to PostgreSQL, whose dependency rules
(`Consistent`, `Accepted`, `WithIt`) are external: everything mentioned exists, nothing mentioned is
dropped, a table has one primary key, an identity needs NOT NULL, and so on.

`ScriptRuns`: the server accepts every statement. `ScriptMatches`: afterwards the target is the
source but for what the notes leave to the user. `DataLossIsAnnounced`: a script without the warning
loses no table, column, sequence or type. The texts of definitions are opaque, columns stand in the
order of their names, and a schema is read as of one moment.

### AlterTable

The dialog fills a form from one read of the table, previews statements built from a second, and
applies statements built from a third; `OtherSession` changes the table in between. The statements are
built as in `build_alter_table_statements` and run by a model of PostgreSQL's rules for a table
without rows and dependents. A key has an order (`pk` is a column's place in it). `serial` and `bigserial`,
which the dialog offers for every column (`app.js:1452`), are no types: a column added with one is an
integer, NOT NULL, with a sequence's default, and ALTER TYPE refuses them. A default must convert with its
column's type; PostgreSQL assigns numbers to numbers and to text, and a text to no number.

`AppliedTableIsTheForm`: an application that succeeds leaves the form's columns in its order, with
name, type, nullability, default and place in the key; a key the form leaves alone keeps its order, another
one has the order of the rows. `ValidFormsApply`: a form that asks for nothing PostgreSQL refuses can be
applied. `SelfConsistent` says what that is: no nullable key column, no name of another column, serial for
added columns without a default only, and a default the column *has* converts with it. The last is where
the order of the statements tells: TYPE goes before DROP DEFAULT and SET DEFAULT, so a form that takes such
a default away fails. `LossIsConfirmed`: a column goes or is converted only if the confirmed preview
was announced as destructive. `OnlyMarkedColumnsAreDropped`: whatever other sessions do, an application
takes away only columns with the name of a marked row, unless the form gives that very name to another
row (`NamesStayApart`; see below for the form that does).

### RowEditing

The panel loads a page by three statements (metadata, count, rows), turns pages, and sends updates,
insertions and deletions that name their row by its key; several may be under way, because the
grid's own buttons stay active. A load may fail at any of its statements (`FailLoad`): an error takes the
place of the grid, and Next and Previous work as they did for the page before. An operation may be
refused, fail with its connection, or be committed and lose only its answer (`LoseRequest`); its answer
reaches the page in a step of its own (`TakeAnswer`). Children by inheritance share keys with the parent's
rows; other sessions change rows and drop the key.

`PageShowsTable`: whatever overlaps and fails, a panel at rest shows its page: the count, the key, as many
rows as there are from its offset on and, with a key, those with these places in its order. It leaves out
a panel that shows an error, and one whose table was changed behind its back since its last load began:
by another session, or by an operation that was answered with an error (`unseen`), after which the code
does not read the grid again. An offset past the end shows an empty page. `DoneChangedOneRow`: an operation reported done
changed one row, the one with the picked key, whatever others did.

## Runs

| run | instance | states | what it shows |
|---|---|---|---|
| `operations` | a script and an import with one operation id, a statement without; 1 canceller, 2 slots; fairness | 263 thousand | registry, answers, cancellations, verdicts, refinement, every call returns |
| `operations_exhaustion` | as many cancellations as slots | 158 thousand | finds `CancelledIsUnregistered` violated |
| `connections` | 3 commands, 2 connections, one with a tunnel; fairness | 143 thousand | usable sessions, flags, statuses, list against manager, tunnels, every command ends |
| `store` | 3 calls on connections, or 3 on the history, or 4 on snippets; one crash | 476 thousand | manager against file, a list that loses its end |
| `tools` | two backups with one id and a restore, or a backup, an import and a preview; one path, two picks; fairness | 84 thousand | picks, children, cancellations |
| `import` | two previews, two imports of two candidates, in any overlap | 1.0 million | no reported candidate twice, none lost |
| `libpq` | URLs of three parameters, files of two lines, services of three | 153 thousand | what the parsers read |
| `chat` | three users with two sends and a clear on two connections, two days, failing writes | 3.0 million | conversations, limit, view |
| `pool` | two commands of any offered shape or the editor's, two sessions, ending connections; fairness | 140 thousand | failures, reports, read-only, answers |
| `diff` | six families of schemas, every member against every other | 53 thousand | the script runs, does its work, warns |
| `alter` | five tables, three changes, one of them another session's, serial types | 422 thousand | forms, announcements, drops |
| `rows` | two operations: on two rows with two failing requests, on three with one, beside another session and a child | 4.3 million | the page, reported operations |

**Bounds.** Two slots stand for the pool's five: what happens at the limit needs only that calls and
cancellations together outnumber the slots. Two calls share an id, so that a late cancellation can
meet the id's next owner. A command runs once in every module, and three overlapping commands on a
connection are what the longest interactions take (a connect, a save or delete, and a borrower). In
`store` the overlap of two writers is enough for a lost change and a torn file, and the third
call sees the result. One crash is enough because a start keeps nothing but the file. The clock
of `tools` and `import` needs one step past a life of zero. Two rounds of a send have a request
after a tool call, and a limit of one needs one message too many. `pool` offers one command of each shape:
a batch in one message, a transaction, a change of a row and a procedure whose error may come too late, a
VACUUM, branches side by side, a snapshot, three messages over as many sessions.
`diff` and `libpq` are inputs: their families were chosen so that each kind of statement and each
parameter appears beside every other it can depend on. `alter` has tables with no key, one key
column and two in an order that is not the columns', a default that converts and one that does not, a
sequence's default, a type with a modifier and a column in two foreign keys. `rows` has a full page or
one row more.

`Backends` and `Commands` are not symmetric in the runs with liveness properties; `rows` uses the
symmetry of its requests. Deadlock is checked wherever the system itself should go on; it is off where
a run ends because the user has nothing left to do (`import`, `chat`, `alter`, `rows`), because an
input has been read (`libpq`), and in `operations_exhaustion`.

**Other families.** Pairs that `diff` leaves out (`KeepsTriggerRoutine`, `Keeps` in `MCSchemaDiff`)
are those for which the script is known to fail; they are listed below. `patient` marks a user of the
assistant who waits for an answer before the next click, which the page does not enforce; only
`DailyLimit` is about that user alone.

## Where the code does not do what is written or what one expects

`operations_exhaustion` is a run and a finding: cancelling takes a second slot while the operation
keeps its own, so when every slot's operation is cancelled all wait for ever, and with them their
registrations. The others came up while the models were written; where a property would be violated
by one, its guard (or the instance's) excludes it and names it.

Cancellations and connections:

- A cancellation that reaches a backend between two round trips of an import is lost: the import
  goes on and commits (`pool.rs:322` against its comment at 181).
- An import whose COMMIT was applied is reported as cancelled with no row if its connection broke
  under the COMMIT or its cancellation query failed after it (`draco-app/src/table_import.rs:201`
  against 163).
- A command that cloned the driver before `read_only` was switched runs its statement in the old
  session (`manager.rs:49`, whose comment says switching closes it).
- Disconnecting aborts the tunnel of a running backup, although the tool's header says that the driver
  keeps it alive (`backup.rs:3`); `ToolKeepsTunnel` leaves disconnects and deletions out.
- `run_restore` and the import consult the connection before they spend the authorization
  (`lib.rs:2012`), where `docs/security/threat-model.md` says a forged path fails before that.

Files and dialogs:

- Two overlapping commands on connections lose one change (`store.rs:62`), and a write that fails or is
  interrupted loses the end of the list or all of it (`store.rs:36`), which reads as a shorter list without
  an error; `ImplementsAtomicList` is about calls that share the main thread.
- Two imports of one list that both select before either has marked save a candidate twice, and a preview
  that comes in between has the wrong candidate marked as imported (`draco-app/src/connection_import.rs:262`).
  A candidate that was saved and then failed at its secret is not marked, and a retry saves it again (`:252`).
  A preview that ends after its dialog was closed keeps the candidates until they expire (`:316`).
- An authority `::1` without brackets is split at its last colon: host `:`, port 1
  (`draco-core/src/connection_import.rs:174`).
- A wildcard line of a password file before a listed target decides its password in libpq; the list
  has the later line's (`draco-core/src/connection_import.rs:313` says it is the one libpq would use).
- Overlapping sends of two connections lose the other's messages, and pass the daily limit, because each
  writes back the file as it read it. A save that fails cuts off conversations of all connections
  (`store.rs:36`), and a counter whose write failed counts from zero again (`store.rs:479`). A clear followed
  by a change of connection renders the cleared one's conversation under the other's name.

Object editors:

- `validate_function` sends BEGIN, the definition and ROLLBACK as three calls that may meet three
  sessions, so that the definition may be applied, or a transaction left open
  (`function_editor.rs:44`). A change of another command that then gets that session is reported as done
  and waits there uncommitted, which is why `ReportedIsCommitted` leaves out what runs beside a validation.
- A batch of `alter_table` that fails leaves its session in an aborted transaction; on a connection
  that is not read-only nothing resets it, and the next command in it fails
  (`alter_table.rs:330`; `draco-core/tests/live_postgres.rs:482` has it that an error must not
  poison the pool, which the pool keeps outside a transaction block). No property rules it out:
  `CommandsAreAnswered` has that the next command ends, with an error perhaps.
- A form is compared with a third read of the table, not the one that was confirmed (`lib.rs:1464`): another
  session's change in between is undone without being shown, or makes the application destructive. A form that
  gives one column the name of a removed one drops the wrong column if another session renames the removed one
  between the third read and the batch: the renaming goes first, and the DROP COLUMN finds its result.
- Renames run one after the other, so that names which two columns exchange fail (`alter_table.rs:252`);
  a type is changed before its default (`:260`), so that a form which takes an old default away because it does
  not convert is refused by PostgreSQL. The dialog shows `text` for a `numeric(10,2)` column
  (`app.js:1464`), which converts it; it offers `serial` for every column (`app.js:1452`), which ALTER TYPE
  does not know, and leaves an added column NOT NULL whatever its box says. A key that the form changes takes
  the order of the rows. A column in two foreign keys is listed twice (`introspection.rs:617`), and the form
  is refused.
- The buttons of the grid's rows stay active while a page loads: two deletions of one page under way together
  show an empty or another page (`app.js:3042`). A load that fails leaves Next and Previous as they were
  (`app.js:3053`), so that Next may pass the end; on the empty page behind it Previous works.
- A change of a row is committed before its rows are counted (`browse_edit.rs:222`): an update that reached a
  child's row as well is reported as failed, and so is one whose answer was lost. The grid then shows the
  rows as they were until it is read again. A procedure that commits and fails afterwards is reported as failed too
  (`function_editor.rs:172`).
- Scripts of `schema_diff` that PostgreSQL refuses: views of views whose names are not in the order
  of their dependencies, or that are dropped; a primary key under another name (the new one is added
  before the old one is dropped when its name sorts first); a column dropped together with its unique
  key; a table dropped that owns a serial's sequence; a routine whose argument has a type of the schema;
  a table dropped together with its trigger's routine.

## Fairness

`CancelableOperations`: weak fairness of each call (tokio polls a woken task; the pool's semaphore
serves waiters in order, which `queue` models), of each backend with a request (every session opens
with a `statement_timeout`, 30 s from the shell) and of a canceller that has found its sender. No
fairness of `Lookup` and `Disconnect`: nobody has to cancel. `ConnectionLifecycle`: weak fairness of
each started command. Servers, Secret Service and tools are assumed to answer or to fail; the code
bounds the TCP connection to PostgreSQL (10 s) and not the SSH handshake, which is an assumption on
the environment. No strong fairness is needed for the mutex because every command runs once.

`ToolOperations`: weak fairness of each command, none of the child process, of the dialogs or of
cancellations. `PooledSessions`: weak fairness of `Get` and the calls' own steps together (deadpool serves
whoever waits, `statement_timeout` ends every statement). Each step brings a call nearer its end and none goes
on for ever, so it is enough that some step is taken; `Lose` is never owed. The other modules have no liveness
property and state no fairness: their steps are the user's, or one answer each.

## Proofs

Each theorem is about the module's `Spec` (or `ParserSpec`, `FormSpec`, `PoolSpec`), with every failure and
every interleaving the module has, for all values of the constants: the numbers of calls, connections, rows or
messages and the bounds named in the guards. Where a theorem has a hypothesis it is given below; the only
other premise is the `ASSUME` of the module that declares the constants, which every run evaluates.

**Operations.** `CancelableOperationsProofs` proves, from `ConstantsAssumption` alone, `Spec => []Inv` for the
type invariant and for `RegistrationMatchesRun`, `AnswersComeBack` and `CancelHitsOwnStatement`. The last two
are not inductive. The invariant adds four parts: `SlotsExclusive` (no backend is held twice),
`HoldersMatchState` (which program counters hold a slot, a helper or a place in the queue), `InboxOrder` (a
holder's request is the last in its backend's inbox, and once it knows its PID the only one) and
`CancellationsAreSignalled` (only a signalled call cancels or is struck). The argument: a slot that comes back
to the pool with a statement running keeps it at the head of its inbox, the next holder first sends its PID
query, and by the time it knows the answer the inbox is its own; only then can it cancel.

`LifecycleRefined` proves there `Spec => ImplementsLifecycle`, each step of a call, a canceller or the
server being a step of `OperationLifecycle` or a stutter. It rests on `RegistrationMatchesRun` (a
registered id has no other running call) and on `TargetsWereRegistered` (a canceller signals only a
call it found in the registry, which therefore has an id).

`VerdictCorrect` proves `TruthfulVerdict` with `VerdictsMatchFate`: a call's round trips, its
statement's fate and its verdict move together. A refused call is still at round trip 0, before which
nothing can be applied or struck, and a reply to the last round trip reaches the call only after the
server has decided.

**Connections.** `ConnectionLifecycleProofs` proves, from `LifecycleAssumption`, `TypeOK`, `ConnectedIsUsable`,
`SessionHonoursFlag`, `ConnectingIsUnderway` and `RegistryFollowsStore`. The inductive invariant adds
`DriversAreOwned` (a manager entry's driver was opened for that connection by a connect that ended, so
closing one connection closes no other's pool), `ConnectIsExclusive` (a connect between its two ends
holds the mutex, and the flag it copied is still the manager's, because no sync runs meanwhile),
`StoreIsPending` (a difference between list and manager has a command about to sync it or a failed
delete), `CommandsHaveConns` and `TunnelsFollowConnect` (which commands have a connection, and which
steps of a connect a tunnel).

`TunnelKept` proves `ToolKeepsTunnel` with `HandlesAreOwned`: a command that uses a connection holds
a driver that an ended connect opened for that very connection, and a listening tunnel stops only in
`Close`, which takes the driver of one connection.

**Files.** `ConfigStoreProofs` proves `ManagerFollowsFile`, which is inductive once calls, batches and
program counters have their `Shape`: a change of the file is owed to the manager until its writer has
synced or failed, and whoever syncs does so with the file. `AtomicListRefined` proves
`Spec => ImplementsAtomicList` for batches on the main thread. `OneAtATime` says that one call
runs, that what it is about to write is its edit of what the file holds, and that while it writes the file
holds what a cut of its text may stand for and nobody else's bytes. The edit is mapped to the truncation:
from then on the list seen is the whole text, the rest of the write is a stutter, and a failure or a
crash is the step in which the end is lost.

**Tools.** `ToolOperationsProofs` has one invariant for each property. `ChildrenFollowCalls`: a program
runs or waits to be collected only while its tool waits for it. `GrantsAreLastPicks`: what is
authorized for a path is what its last pick said. `SpentWithinPicks`: what was spent of a path for a
purpose, plus one if an authorization lies there, is at most what was picked; without the second term
the count is not inductive.

**Import.** `ConnectionImportProofs` proves `NoDuplicateImport` and `GoneMeansImported` without a
hypothesis on the user. The invariant adds `CopiedBefore` (what an import holds it copied from a list that
was put up, and if another list is pending now, that one overtook it) and `SlotsAreSpent` (what was
reported of a list that is pending is gone from it).

`UrlsAreRead` and `ListedLinesAreLibpqs` prove there both properties of `LibpqParameters`, for URLs with
any number of parameters and files with any number of lines. Each rests on a loop invariant. In `UrlRead`
the fields hold what the parameters so far say, and what the URL says before its `?` where they are silent
(`SoFar`). In `LinesRead` every line so far that names a target has that target listed, and what is listed
is what the first such line says; a line before it that matches the target then has a wildcard.

**Pool.** `ConnectionLifecycleProofs` has the three safety properties of `PooledSessions`, for every catalog
command, any number of calls and any size of the pool. A hold runs in one step as a trace of session states, so
what it leaves behind is an induction over the positions of the trace, done with `LeastOf` (a
non-empty set of naturals has a least member). Two invariants are about the pool alone: `PoolTypes`,
and `Owned`, that a session is either idle once or held by one branch.

- `ReadOnlyChangesNothingHolds`: in a pool of a read-only driver every session that is handed out refuses writes
  (`CalmPool`), and a hold of harmless statements keeps it so (`OutcomeCalm`). The
  hypothesis `TextsAreHarmless` is on the texts of the SQL editor: PostgreSQL runs a VACUUM in a read-only session,
  and statements that follow, in the same message, a function that turns the setting off are not held
  back by the driver's reset, which comes with the next hand-over.
- Both other theorems rest on a fact about the whole catalog (`Catalogued`): every command but
  `validate_function_definition` is a `Reader`, which never writes, or a `Writer`, whose holds read but
  for the last, which ends its own transaction.
- `ReportedIsCommittedHolds`: until there are loose ends no session carries a transaction that could
  commit, and each call stands where its program does, with nothing written before its last hold and
  everything decided by it (`CommandsStand`).
- `FailedCommandsLeaveNothingHolds` has no such condition: the sessions may carry anything, and a COMMIT
  of anyone may take it along. `Traceless` says of every call but the editor's and those whose error may
  come too late (`Excused`) that it has left something, other than by the end of a connection, only if it
  has not failed and is behind a hold that writes. It is inductive because commands are
  `Orderly`: none stops at a hold behind a change, and a hold that changes and stops
  the command fails as a whole, with what its session carried along (`FailureCarriesNothing`).

**Assistant.** `AssistantChatProofs` proves `AnswersFollowQuestions` for every user: every copy of a
conversation that a send or a clear holds has each answer behind its question, and only messages of its
connection (`CopiesFine`), so whichever copy is written last has, and so has any start of it that a failed
write leaves. That proves `ConversationsIndependent` too. `LimitKept` is about the patient users among
`Users`: with `OneThing` what a send has read of the counter is what the counter says, and that is at least
the number of messages of its day since it was torn (`UsageCounts`). `AnswersLand` rests on `EpochsMatch`:
until a clear begins, what is under way with the view's epoch is for the selected connection.

**Schema diff.** `SchemaDiffProofs` proves `DataLossIsAnnounced` for every pair of schemas, from
`SchemaAssumption` (ids have the catalog's shape, a column is in a table). Its first half is about the
builders: whatever the schemas are, each statement is `Harmless` or one that `Destroys` counts. Its
second is the invariant `Lossless`: while the flag is off all statements left to run are
harmless and the database still has what the target had. A script that stops half way is covered too.

`OnlyMarkedAreDropped` and `LossesAreConfirmed` prove there two properties of `AlterTable` for all tables,
forms and other sessions, from `AlterAssumption`. `EditorInv` says that what is about to be applied is what
`BuildStatements` makes of some reading of the table and the form on screen. `ScriptWrites` tells from the
form which columns a script can drop or name, `StatementSpares` what each statement leaves alone, and
the two are joined by an induction over the tables the transaction goes through (`RunSpares`). In the
first theorem the reading may be older than the table: that is why `NamesStayApart` is needed, without
which a renaming can put a kept column under the name that is dropped next.

**Rows.** `RowEditingProofs` proves `DoneChangedOneRow` for every visit, hasty ones beside other sessions
included: an identity is given to one row (`Identified`), and the statement's predicate names a key and
counts what it hit. `PageCorrect` proves `PageShowsTable` without a
hypothesis. Its invariant `PanelInv` is about one condition, that nothing was changed behind the panel's back
and no success is on its way to it (`Pending`): then the load under way has read what is still so, and
without one the grid has the page at the offset or an error (`Fresh`, `PageCurrent`). A load under way always
asks for the offset the panel has. A change sets `unseen` or makes its success pending, the success takes
effect by starting a load, and a load begins with everything to read. Both theorems rest on
`RowAssumption` (the first rows have identities 1 to n and the key holds).

**Model-checked only.**

- `EveryCallReturns`, `EveryCommandEnds`, `CancelEnds`, `CommandsAreAnswered`: liveness under
  fairness is out of the prover's reach.
- `ScriptRuns` and `ScriptMatches`: they depend on PostgreSQL's rules for a whole ordered script, and on
  the pairs the instance leaves out.
- `ValidFormsApply` and `AppliedTableIsTheForm`: they need what every statement of the ordered script does
  to every column, not only what it spares.

## Not modelled

GitHub (requests one after the other, a settings record and a token), update check, notifications,
the ERD parser and the validators of names and texts (text functions without state), CSV and JSON
reading and the column mapping of a table import, the settings records, the one pass that
renames keyring entries, `cancel_active`, the SSH accept loop and host keys, TLS, the SQL editor's tabs
and the explorer, packaging, site and locales.

Within the modelled parts: texts of SQL and of definitions are opaque; a text that hides a change of the
read-only setting from `reenables_writes` is out of scope, as `docs/security/threat-model.md` says of a user
who controls the SQL; `SchemaDiff` reads a schema as of one moment; `AlterTable` has no rows, no dependents
and no CREATE TABLE, and its `Types` have no casts but those given; `RowEditing` has no JSON decoding, and
pages without a key have any order.

## What could come next

1. Proofs of `AppliedTableIsTheForm`, phase by phase of the script (renames, types, defaults, drops,
   additions, key), and with it of `ValidFormsApply`; then `ScriptRuns` for schemas without the constellations
   listed above.
2. The composition of `ConfigStore` with `ConnectionLifecycle`, so that a lost save meets a connect.
3. The SQL editor's tabs with their request epochs, and `cancel_active`.
