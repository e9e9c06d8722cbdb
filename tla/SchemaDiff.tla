------------------------------ MODULE SchemaDiff ------------------------------
(***************************************************************************)
(* schema_diff: compares a source schema with a target schema and writes   *)
(* the script that makes the target match, which the user may then run as  *)
(* one transaction.  The comparison is translated from draco-core's        *)
(* schema_diff.rs; what PostgreSQL does with the statements is modelled    *)
(* from its dependency rules, so that the order of the script matters.     *)
(*                                                                         *)
(* A schema is a function from the ids of its objects to what the catalog  *)
(* says of them.  An id is a kind and a name, or a kind, a table and a     *)
(* name; the third part of a routine's id is the schema of its argument's  *)
(* type.  A definition is its text and the objects it mentions.  Names are *)
(* in the order of Names, and columns stand in their tables in that order. *)
(***************************************************************************)
EXTENDS Naturals, Sequences, FiniteSets, Functions

CONSTANTS
    Names,   \* every name, in alphabetical order
    Source,  \* the source schema
    Target,  \* the target schema
    Pairs    \* what is compared: [source, target, owned: <<sequence, its serial column>>]

\* How the catalog names an object, and what it says of a column.
IsId(id) ==
    \/ id[1] \in {"sequence", "table", "view"} /\ id = <<id[1], id[2]>>
    \/ /\ id[1] \in {"column", "constraint", "index", "trigger", "routine"}
       /\ id = <<id[1], id[2], id[3]>>

ColumnFields == {"type", "not_null", "default", "identity", "generated"}

\* A column is in a table that is there, and a serial column has its sequence.
ASSUME SchemaAssumption ==
    \A p \in Pairs :
        /\ \A id \in DOMAIN p.source \cup DOMAIN p.target : IsId(id)
        /\ \A id \in DOMAIN p.target : id[1] = "column" =>
              /\ <<"table", id[2]>> \in DOMAIN p.target
              /\ DOMAIN p.target[id] = ColumnFields
        /\ \A o \in p.owned : o[2][1] = "column"

Unset == [text |-> "none", refs |-> {}]
Rank(name) == CHOOSE i \in DOMAIN Names : Names[i] = name

VARIABLES
    pair,    \* the two schemas
    db,      \* the target schema in the database
    todo,    \* statements of the script that have not run yet
    diff,    \* [objects, notes, destructive]: the rest of the answer
    phase    \* "comparing", "running", "done", "failed"

vars == <<pair, db, todo, diff, phase>>

-----------------------------------------------------------------------------
\* What an id or a definition that mentions the source schema says of the target.
RequalifiedId(id) == IF id[1] = "routine" /\ id[3] = Source THEN [id EXCEPT ![3] = Target] ELSE id

requalify(definition) ==
    [definition EXCEPT !.refs =
        {IF ref[1] = Source THEN <<Target, RequalifiedId(ref[2])>> ELSE ref : ref \in @}]

\* The keys stay as they are.
requalify_snapshot(snapshot) ==
    [id \in DOMAIN snapshot |->
        CASE id[1] = "sequence" -> snapshot[id]
          [] id[1] = "column" -> [snapshot[id] EXCEPT !.default = requalify(@), !.generated = requalify(@)]
          [] OTHER -> [snapshot[id] EXCEPT !.definition = requalify(@)]]

-----------------------------------------------------------------------------
\* The comparison.  from and to are the snapshots, both written for the target.
Phase ==
    [DropTriggers |-> 1, DropForeignKeys |-> 2, DropViews |-> 3, DropIndexes |-> 4, Sequences |-> 5,
     Tables |-> 6, Routines |-> 7, Views |-> 8, Indexes |-> 9, ForeignKeys |-> 10, Triggers |-> 11,
     DropRoutines |-> 12, DropTables |-> 13, DropSequences |-> 14]

\* Where an object is in the list of objects: by kind, then by name.
Entry(id) ==
    CASE id[1] = "sequence" -> <<1, Rank(id[2]), 0>>
      [] id[1] = "view"     -> <<3, Rank(id[2]), 0>>
      [] id[1] = "routine"  -> <<4, Rank(id[2]), Rank(id[3])>>
      [] OTHER              -> <<2, Rank(id[2]), 0>>

\* A statement, with its place: the phase, the object, and where the object's
\* builder has it (a group, the part's name and a step).
Push(stage, id, place, op, objects) ==
    [at |-> <<stage>> \o Entry(id) \o place, op |-> op, id |-> id, objects |-> objects]

Whole == <<0, 0, 0>>

Part(g, id, n) == <<g, Rank(id[3]), n>>

Only(kind, a, b)    == {id \in DOMAIN a \ DOMAIN b : id[1] = kind}
Differ(kind, a, b)  == {id \in DOMAIN a \cap DOMAIN b : id[1] = kind /\ a[id] # b[id]}
Parts(t, kind, a)   == {id \in DOMAIN a : id[1] = kind /\ id[2] = t}
IsForeignKey(id, a) == id[1] = "constraint" /\ a[id].kind = "f"
ForeignKeys(t, a)   == {id \in Parts(t, "constraint", a) : IsForeignKey(id, a)}
Creates(stage, S, a)  == {Push(stage, id, Part(0, id, 2), "create", Restrict(a, {id})) : id \in S}
Drops(stage, S)       == {Push(stage, id, Part(0, id, 1), "drop", <<>>) : id \in S}

SequenceStatements(from, to) ==
    {Push(Phase.Sequences, id, Whole, "create", Restrict(from, {id})) : id \in Only("sequence", from, to)}
    \cup {Push(Phase.DropSequences, id, Whole, "drop", <<>>) : id \in Only("sequence", to, from)}
    \cup {Push(Phase.Sequences, id, Whole, "replace", Restrict(from, {id})) : id \in Differ("sequence", from, to)}

create_table(id, from) ==
    LET t == id[2] IN
    {Push(Phase.Tables, id, Whole, "create",
          Restrict(from, {id} \cup Parts(t, "column", from)
                         \cup (Parts(t, "constraint", from) \ ForeignKeys(t, from))))}
    \cup Creates(Phase.ForeignKeys, ForeignKeys(t, from), from)
    \cup Creates(Phase.Indexes, Parts(t, "index", from), from)
    \cup Creates(Phase.Triggers, Parts(t, "trigger", from), from)

drop_table(id, to) ==
    Drops(Phase.DropForeignKeys, ForeignKeys(id[2], to)) \cup {Push(Phase.DropTables, id, Whole, "drop", <<>>)}

NeedsNotNull(wanted, existing) ==
    wanted.identity # "none" /\ existing.identity = "none" /\ ~existing.not_null

\* ALTER COLUMN for a column that both have, in this order.
Steps == <<"type", "drop_identity", "default", "need_not_null", "identity", "not_null">>

ColumnStep(step, wanted, existing) ==
    CASE step = "type"          -> existing.type # wanted.type
      [] step = "drop_identity" -> existing.identity # "none" /\ wanted.identity = "none"
      [] step = "default"       -> existing.default # wanted.default /\ wanted.generated = Unset
      [] step = "need_not_null" -> NeedsNotNull(wanted, existing)
      [] step = "identity"      -> wanted.identity \notin {"none", existing.identity}
      [] step = "not_null"      -> existing.not_null # wanted.not_null /\ wanted.identity = "none"

Replaced(t, kind, from, to) ==
    LET both == Differ(kind, from, to) IN
    [gone |-> {id \in both \cup Only(kind, to, from) : id[2] = t},
     new  |-> {id \in both \cup Only(kind, from, to) : id[2] = t}]

alter_table(id, from, to) ==
    LET t == id[2]
        columns == {c \in Parts(t, "column", from) : c \in DOMAIN to}
        keys == Replaced(t, "constraint", from, to)
        indexes == Replaced(t, "index", from, to)
        triggers == Replaced(t, "trigger", from, to)
    IN  {Push(Phase.Tables, c, Part(1, c, 0), "create", Restrict(from, {c})) :
            c \in Parts(t, "column", from) \ DOMAIN to}
        \cup {Push(Phase.Tables, p[1], Part(1, p[1], p[2]), Steps[p[2]], Restrict(from, {p[1]})) :
                p \in {q \in columns \X DOMAIN Steps :
                         /\ from[q[1]].generated = to[q[1]].generated
                         /\ ColumnStep(Steps[q[2]], from[q[1]], to[q[1]])}}
        \cup {Push(Phase.Tables, c, Part(2, c, 0), "drop", <<>>) : c \in Parts(t, "column", to) \ DOMAIN from}
        \cup {Push(IF IsForeignKey(c, to) THEN Phase.DropForeignKeys ELSE Phase.Tables, c, Part(3, c, 1),
                   "drop", <<>>) : c \in keys.gone}
        \cup {Push(IF IsForeignKey(c, from) THEN Phase.ForeignKeys ELSE Phase.Tables, c, Part(3, c, 2),
                   "create", Restrict(from, {c})) : c \in keys.new}
        \cup Drops(Phase.DropIndexes, indexes.gone) \cup Creates(Phase.Indexes, indexes.new, from)
        \cup Drops(Phase.DropTriggers, triggers.gone) \cup Creates(Phase.Triggers, triggers.new, from)

TableStatements(from, to) ==
    (UNION {create_table(id, from) : id \in Only("table", from, to)})
    \cup (UNION {drop_table(id, to) : id \in Only("table", to, from)})
    \cup (UNION {alter_table(id, from, to) : id \in {t \in DOMAIN from \cap DOMAIN to : t[1] = "table"}})

\* Mutant: a materialized view is replaced in place.
RebuiltNever(id, from, to) == FALSE

\* Only a plain view can be replaced.
Rebuilt(id, from, to) == from[id].materialized \/ to[id].materialized

ViewStatements(from, to) ==
    LET changed == Differ("view", from, to)
        again == {id \in changed : Rebuilt(id, from, to)}
    IN  {Push(Phase.Views, id, Whole, "create", Restrict(from, {id})) : id \in Only("view", from, to) \cup again}
        \cup {Push(Phase.DropViews, id, Whole, "drop", <<>>) : id \in Only("view", to, from) \cup again}
        \cup {Push(Phase.Views, id, Whole, "replace", Restrict(from, {id})) : id \in changed \ again}

\* The definition says which routine it creates, the key who it is.
RoutineStatements(from, to) ==
    {Push(Phase.Routines, id, Whole, "replace", [real \in {RequalifiedId(id)} |-> from[id]]) :
        id \in Only("routine", from, to) \cup Differ("routine", from, to)}
    \cup {Push(Phase.DropRoutines, id, Whole, "drop", <<>>) : id \in Only("routine", to, from)}

Statements(from, to) ==
    SequenceStatements(from, to) \cup TableStatements(from, to)
    \cup ViewStatements(from, to) \cup RoutineStatements(from, to)

\* Mutant: a changed generation expression is left without a word.
NotesOfTables(from, to) ==
    Differ("table", from, to) \cup {id \in Differ("view", from, to) : ~Rebuilt(id, from, to)}
    \cup Differ("routine", from, to)

\* What the script leaves to the user, and the definitions it may fail for.
Notes(from, to) ==
    Differ("table", from, to)
    \cup {c \in Differ("column", from, to) : from[c].generated # to[c].generated}
    \cup {id \in Differ("view", from, to) : ~Rebuilt(id, from, to)}
    \cup Differ("routine", from, to)

\* Mutant: a column that changes its type keeps its data.
DestroysDrops(st) == st.op = "drop" /\ st.id[1] \in {"table", "column", "sequence"}

Destroys(st) == (st.op = "drop" /\ st.id[1] \in {"table", "column", "sequence"}) \/ st.op = "type"

Object(id) == IF id[1] \in {"sequence", "view", "routine"} THEN id ELSE <<"table", id[2]>>

diff_schemas ==
    /\ phase = "comparing"
    /\ LET from == requalify_snapshot(pair.source) IN
       /\ todo' = Statements(from, pair.target)
       /\ diff' = [objects     |-> {Object(st.id) : st \in todo'}
                                   \cup {Object(id) : id \in Notes(from, pair.target)},
                   notes       |-> Notes(from, pair.target),
                   destructive |-> \E st \in todo' : Destroys(st)]
    /\ phase' = "running"
    /\ UNCHANGED <<pair, db>>

-----------------------------------------------------------------------------
\* PostgreSQL.
Refs(v) ==
    IF "definition" \in DOMAIN v THEN v.definition.refs
    ELSE IF "default" \in DOMAIN v THEN v.default.refs \cup v.generated.refs ELSE {}
Mentions(a, id)  == {o \in DOMAIN a : <<Target, id>> \in Refs(a[o])}
Columns(id, a)   == {ref[2] : ref \in {r \in Refs(a[id]) : r[2][1] = "column" /\ r[2][2] = id[2]}}
Referenced(id, a) == {ref[2] : ref \in {r \in Refs(a[id]) : r[2][1] = "column" /\ r[2][2] # id[2]}}
Keys(cols, a)    == {id \in DOMAIN a : id[1] = "constraint" /\ a[id].kind \in {"p", "u"} /\ Columns(id, a) = cols}
PrimaryKeys(t, a) == {id \in Parts(t, "constraint", a) : a[id].kind = "p"}

\* A schema the server may be in.
Consistent(a) ==
    \A id \in DOMAIN a :
        /\ \A ref \in Refs(a[id]) : ref[1] = Target => ref[2] \in DOMAIN a
        /\ id[1] \in {"column", "constraint", "index", "trigger"} => <<"table", id[2]>> \in DOMAIN a
        /\ id[1] = "table" => Cardinality(PrimaryKeys(id[2], a)) <= 1
        /\ id[1] = "column" => /\ a[id].identity # "none" => a[id].not_null /\ a[id].default = Unset
                               /\ a[id].generated # Unset => a[id].default = Unset /\ a[id].identity = "none"
        /\ id[1] = "constraint" /\ a[id].kind = "p" => \A c \in Columns(id, a) : a[c].not_null
        /\ IsForeignKey(id, a) => Keys(Referenced(id, a), a) # {}

\* What goes with an object: the parts of a table; the keys, indexes and the
\* serial sequence of a column.
WithIt(id, a) ==
    {id} \cup CASE id[1] = "table" -> {o \in DOMAIN a : id[2] = o[2] /\ o[1] \in
                                          {"column", "constraint", "index", "trigger"}}
                [] id[1] = "column" -> {o \in Mentions(a, id) : o[2] = id[2] /\ o[1] \in {"constraint", "index"}}
                [] OTHER -> {}

Gone(id, a) ==
    LET parts == WithIt(id, a) IN
    parts \cup {o[1] : o \in {p \in pair.owned : p[2] \in parts /\ p[1] \in DOMAIN a}}

Applied(st, a) ==
    CASE st.op = "create" \/ st.op = "replace" ->
            [id \in DOMAIN a \cup DOMAIN st.objects |->
                IF id \in DOMAIN st.objects THEN st.objects[id] ELSE a[id]]
      [] st.op = "drop" -> Restrict(a, DOMAIN a \ Gone(st.id, a))
      [] OTHER ->
            LET wanted == st.objects[st.id] IN
            [a EXCEPT ![st.id] =
                CASE st.op = "type"          -> [@ EXCEPT !.type = wanted.type]
                  [] st.op = "drop_identity" -> [@ EXCEPT !.identity = "none"]
                  [] st.op = "default"       -> [@ EXCEPT !.default = wanted.default]
                  [] st.op = "need_not_null" -> [@ EXCEPT !.not_null = TRUE]
                  [] st.op = "identity"      -> [@ EXCEPT !.identity = wanted.identity]
                  [] st.op = "not_null"      -> [@ EXCEPT !.not_null = wanted.not_null]]

\* A plain view cannot take the place of a materialized one, nor the other way round.
Accepted(st, a) ==
    /\ st.op # "replace" => st.id \in DOMAIN a <=> st.op # "create"
    /\ st.op = "replace" /\ st.id[1] = "view" =>
          /\ ~st.objects[st.id].materialized
          /\ st.id \in DOMAIN a => ~a[st.id].materialized
    /\ st.op = "type" => \A o \in Mentions(a, st.id) : o[1] \in {"constraint", "index"}
    /\ Consistent(Applied(st, a))

First(st) ==
    \A other \in todo \ {st} :
        \E i \in DOMAIN st.at : st.at[i] < other.at[i] /\ \A j \in 1..(i - 1) : st.at[j] = other.at[j]

Run ==
    /\ phase = "running"
    /\ \E st \in todo :
          /\ First(st)
          /\ IF Accepted(st, db)
             THEN todo' = todo \ {st} /\ db' = Applied(st, db) /\ UNCHANGED phase
             ELSE todo' = {} /\ db' = pair.target /\ phase' = "failed"
    /\ UNCHANGED <<pair, diff>>

Commit ==
    /\ phase = "running" /\ todo = {}
    /\ phase' = "done"
    /\ UNCHANGED <<pair, db, todo, diff>>

Terminated == phase \in {"done", "failed"} /\ UNCHANGED vars

Init ==
    /\ pair \in Pairs
    /\ db = pair.target
    /\ todo = {} /\ diff = [objects |-> {}, notes |-> {}, destructive |-> FALSE]
    /\ phase = "comparing"

Next == diff_schemas \/ Run \/ Commit \/ Terminated

Spec == Init /\ [][Next]_vars

-----------------------------------------------------------------------------
Wanted == LET from == requalify_snapshot(pair.source) IN
          [id \in {RequalifiedId(key) : key \in DOMAIN from} |->
              from[CHOOSE key \in DOMAIN from : RequalifiedId(key) = id]]

\* Compared and executed schemas are ones the server may be in, and no two
\* statements of a script have the same place.
TypeOK ==
    /\ Consistent(db)
    /\ phase = "running" =>
          \A one \in todo : \A other \in todo : one.at = other.at => one = other

\* "Every statement, ordered so dependencies exist before they are used": the
\* server accepts the script, statement by statement.
ScriptRuns == phase # "failed"

\* The script makes the target match the source, except for what its notes leave
\* to the user.
ScriptMatches ==
    phase = "done" =>
        \A id \in DOMAIN db \cup DOMAIN Wanted :
            \/ id \in DOMAIN db /\ id \in DOMAIN Wanted /\ db[id] = Wanted[id]
            \/ id[1] \in {"table", "column"} /\ id \in diff.notes

\* "Drops a table, a column or a sequence, or changes a column type": a script
\* that runs without the warning loses none of these.
DataLossIsAnnounced ==
    phase \in {"running", "done"} /\ ~diff.destructive =>
        \A id \in DOMAIN pair.target :
            /\ id[1] \in {"table", "column", "sequence"} => id \in DOMAIN db
            /\ id[1] = "column" => db[id].type = pair.target[id].type
=============================================================================
