----------------------------- MODULE ConfigStore -----------------------------
(***************************************************************************)
(* One of the TOML files under the configuration directory (connections,   *)
(* history, snippets) and the commands that change it.  Every change reads *)
(* the whole file, edits the list in memory and writes the file back with  *)
(* fs::write, which truncates it first and may stop anywhere in the text;  *)
(* nothing locks the file.  What cannot be read or parsed reads as the     *)
(* empty list, a text that was cut short perhaps as a shorter one.         *)
(* Synchronous commands run on the shell's main thread one after the       *)
(* other, asynchronous ones at the same time.  The commands on connections *)
(* also bring the connection manager up to the file.                       *)
(***************************************************************************)
EXTENDS Naturals, Sequences, FiniteSets

CONSTANTS
    Calls,       \* command invocations; each runs once
    Batches,     \* sets of calls on one file that meet each other
    MainThread,  \* the calls of synchronous commands
    Entries,     \* ids of connections, history entries or snippets
    Kind,        \* what a call does to the list
    Entry,       \* the entry a call is about
    First,       \* the list as an earlier run of the program left it
    MAX_HISTORY,
    MaxCrashes   \* bound: times the process ends without finishing its calls

Kinds == {"save_connection", "delete_connection", "add_history", "delete_entry",
          "clear", "save_snippet", "rename_snippet"}

ASSUME StoreAssumption ==
    /\ MainThread \subseteq Calls /\ Batches \subseteq SUBSET Calls
    /\ Kind \in [Calls -> Kinds]
    /\ Entry \in [Calls -> Entries]
    /\ First \in Seq([id : Entries, by : Calls \cup {"earlier"}])
    /\ {"earlier", "cut"} \cap Calls = {}
    /\ MAX_HISTORY \in Nat /\ MaxCrashes \in Nat

VARIABLES
    issued,   \* the calls that are made
    content,  \* the list the file's bytes stand for, if any
    garbled,  \* the bytes are no TOML of any list
    writers,  \* history: the calls that wrote since the file was truncated
    pc,       \* where each call stands
    buffer,   \* the list a call is about to write
    known,    \* ids the connection manager holds
    crashes

vars == <<issued, content, garbled, writers, pc, buffer, known, crashes>>

-----------------------------------------------------------------------------
Ids(list) == {list[n].id : n \in 1..Len(list)}

\* What read_toml makes of the file.
Parsed == IF garbled THEN <<>> ELSE content

\* What a text that ends too early may stand for: its first entries, the last
\* of them perhaps without its last fields, which then have their defaults.
CutShort(list) ==
    {SubSeq(list, 1, n) : n \in 0..Len(list)}
    \cup {[SubSeq(list, 1, n) EXCEPT ![n].by = "cut"] : n \in 1..Len(list)}

\* The entries of a text of which the start, or what is behind it, was written
\* over with another.
Over(front, back) == front \o SubSeq(back, Len(front) + 1, Len(back))

SyncsManager(c) == Kind[c] \in {"save_connection", "delete_connection"}

Version(c) == [id |-> Entry[c], by |-> c]

Replaced(c, list) ==
    [n \in DOMAIN list |-> IF list[n].id = Entry[c] THEN Version(c) ELSE list[n]]

Without(c, list) == LET Other(e) == e.id # Entry[c] IN SelectSeq(list, Other)

\* save_connection replaces the connection with that id or pushes it.
Saved(c, list) ==
    IF Entry[c] \in Ids(list) THEN Replaced(c, list) ELSE Append(list, Version(c))

\* add_history inserts at the front and truncates.
Inserted(c, list) ==
    LET longer == <<Version(c)>> \o list IN
    IF Len(longer) > MAX_HISTORY THEN SubSeq(longer, 1, MAX_HISTORY) ELSE longer

\* The edit of each store function.
Edited(c, list) ==
    CASE Kind[c] = "save_connection" -> Saved(c, list)
      [] Kind[c] = "add_history"     -> Inserted(c, list)
      [] Kind[c] = "save_snippet"    -> <<Version(c)>> \o list
      [] Kind[c] = "rename_snippet"  -> Replaced(c, list)
      [] Kind[c] \in {"delete_connection", "delete_entry"} -> Without(c, list)
      [] Kind[c] = "clear"           -> <<>>

Init ==
    /\ issued \in Batches
    /\ content = First
    /\ garbled = FALSE /\ writers = {}
    /\ pc = [c \in Calls |-> "new"]
    /\ buffer = [c \in Calls |-> <<>>]
    /\ known = Ids(First)
    /\ crashes = 0

Running(c) == pc[c] \in {"reading", "editing", "writing", "filling", "syncing"}

-----------------------------------------------------------------------------
\* Mutant: the command became asynchronous.
StartAnywhere(c) ==
    /\ pc[c] = "new"
    /\ pc' = [pc EXCEPT ![c] = "reading"]
    /\ UNCHANGED <<issued, content, garbled, writers, buffer, known, crashes>>

\* A synchronous command has the main thread for itself.
Start(c) ==
    /\ pc[c] = "new"
    /\ c \in MainThread => \A d \in MainThread : ~Running(d)
    /\ pc' = [pc EXCEPT ![c] =
          CASE Kind[c] = "delete_connection" /\ Entry[c] \notin known -> "refused"
            [] Kind[c] = "rename_snippet" /\ Entry[c] \notin Ids(Parsed) -> "refused"
            [] OTHER -> "reading"]
    /\ UNCHANGED <<issued, content, garbled, writers, buffer, known, crashes>>

Read(c) ==
    /\ pc[c] = "reading"
    /\ buffer' = [buffer EXCEPT ![c] = Edited(c, Parsed)]
    /\ pc' = [pc EXCEPT ![c] = "editing"]
    /\ UNCHANGED <<issued, content, garbled, writers, known, crashes>>

\* fs::write opens the file with truncation ...
Truncate(c) ==
    /\ pc[c] = "editing"
    /\ content' = <<>> /\ garbled' = FALSE /\ writers' = {}
    /\ pc' = [pc EXCEPT ![c] = "writing"]
    /\ UNCHANGED <<issued, buffer, known, crashes>>

\* ... writes the first bytes from its start ...
WritePart(c) ==
    /\ pc[c] = "writing"
    /\ \/ content' \in CutShort(buffer[c]) /\ garbled' = FALSE
       \/ content' = <<>> /\ garbled' = TRUE
    /\ writers' = writers \cup {c}
    /\ pc' = [pc EXCEPT ![c] = "filling"]
    /\ UNCHANGED <<issued, buffer, known, crashes>>

\* ... and then the rest.  Bytes of another writer that came in between stay
\* where this one writes none.
Write(c) ==
    /\ pc[c] = "filling"
    /\ IF writers = {c} THEN content' = buffer[c] /\ garbled' = FALSE
       ELSE /\ content' \in {buffer[c], Over(buffer[c], content), Over(content, buffer[c])}
            /\ garbled' \in BOOLEAN
    /\ writers' = writers \cup {c}
    /\ pc' = [pc EXCEPT ![c] = IF SyncsManager(c) THEN "syncing" ELSE "done"]
    /\ UNCHANGED <<issued, buffer, known, crashes>>

\* An I/O error: the file cannot be opened, or takes a part of the text only.
\* It ends the command before it comes to the manager.
WriteFails(c) ==
    /\ pc[c] \in {"editing", "writing", "filling"}
    /\ pc' = [pc EXCEPT ![c] = IF @ = "editing" THEN "failed" ELSE "torn"]
    /\ UNCHANGED <<issued, content, garbled, writers, buffer, known, crashes>>

\* Mutant: the manager gets the list this command wrote.
SyncFromBuffer(c) ==
    /\ pc[c] = "syncing"
    /\ known' = Ids(buffer[c])
    /\ pc' = [pc EXCEPT ![c] = "done"]
    /\ UNCHANGED <<issued, content, garbled, writers, buffer, crashes>>

\* sync_connections(list_connections()), under the manager's mutex.
Sync(c) ==
    /\ pc[c] = "syncing"
    /\ known' = Ids(Parsed)
    /\ pc' = [pc EXCEPT ![c] = "done"]
    /\ UNCHANGED <<issued, content, garbled, writers, buffer, crashes>>

\* delete_connection ends at the first secret it cannot remove.
SecretFails(c) ==
    /\ pc[c] = "syncing"
    /\ Kind[c] = "delete_connection"
    /\ pc' = [pc EXCEPT ![c] = "unsynced"]
    /\ UNCHANGED <<issued, content, garbled, writers, buffer, known, crashes>>

\* The process ends wherever its calls are and starts again.
Crash ==
    /\ crashes < MaxCrashes
    /\ crashes' = crashes + 1
    /\ pc' = [c \in Calls |-> CASE pc[c] \in {"writing", "filling", "syncing"} -> "cut"
                            [] pc[c] \in {"reading", "editing"} -> "lost"
                            [] OTHER -> pc[c]]
    /\ known' = Ids(Parsed)
    /\ UNCHANGED <<issued, content, garbled, writers, buffer>>

CallStep(c) ==
    \/ Start(c) \/ Read(c) \/ Truncate(c) \/ WritePart(c) \/ Write(c) \/ WriteFails(c)
    \/ Sync(c) \/ SecretFails(c)

Terminated == (\A c \in issued : pc[c] # "new" /\ ~Running(c)) /\ UNCHANGED vars

Next == (\E c \in issued : CallStep(c)) \/ Crash \/ Terminated

Spec == Init /\ [][Next]_vars

-----------------------------------------------------------------------------
States == {"new", "reading", "editing", "writing", "filling", "syncing", "done",
          "refused", "failed", "torn", "unsynced", "lost", "cut"}

\* Every variable keeps to the values the code can give it, and only the
\* commands on connections come to the manager.
TypeOK ==
    LET Lists == Seq([id : Entries, by : Calls \cup {"earlier", "cut"}]) IN
    /\ issued \in Batches
    /\ content \in Lists
    /\ garbled \in BOOLEAN
    /\ writers \subseteq issued
    /\ pc \in [Calls -> States]
    /\ \A c \in Calls : pc[c] = "syncing" => SyncsManager(c)
    /\ buffer \in [Calls -> Lists]
    /\ known \subseteq Entries
    /\ crashes \in 0..MaxCrashes

\* Each save and delete syncs the manager with the file as it is after its own
\* write, so the last of them to sync saw the last write: once nobody is
\* writing any more, the manager holds what the file says, however torn, unless
\* a command failed between its two halves.
ManagerFollowsFile ==
    (\A c \in issued : /\ SyncsManager(c)
                       /\ pc[c] \notin {"torn", "unsynced", "writing", "filling", "syncing"})
        => known = Ids(Parsed)

-----------------------------------------------------------------------------
InWrite(c) == pc[c] \in {"writing", "filling"}

\* The list as the callers of synchronous commands see it: a write counts
\* from the moment it opens the file.
ListSeen ==
    IF \E c \in Calls : InWrite(c)
    THEN buffer[CHOOSE c \in Calls : InWrite(c)]
    ELSE Parsed

Effective == {c \in Calls : pc[c] \in {"writing", "filling", "syncing", "done", "torn", "unsynced", "cut"}}

Atomic == INSTANCE AtomicList WITH list <- ListSeen, applied <- Effective

\* Commands that share the main thread lose no change of one another, and a
\* crash or a failed write costs the end of the list at most: an entry that is
\* still there is as the last command left it, but perhaps the last one, and no
\* entry comes back.
ImplementsAtomicList ==
    /\ issued \subseteq MainThread => Atomic!Init
    /\ [][issued \subseteq MainThread => Atomic!Next]_<<issued, ListSeen, Effective>>
=============================================================================
