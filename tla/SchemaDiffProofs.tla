-------------------------- MODULE SchemaDiffProofs --------------------------
(***************************************************************************)
(* A script that the comparison does not call destructive keeps every      *)
(* table, column and sequence of the target, and the type of every column. *)
(* The flag is computed from the statements before any of them runs, so    *)
(* the proof has two halves: each builder writes only statements that are  *)
(* harmless or that the flag counts, whatever the two schemas are, and a   *)
(* harmless statement keeps what is left of the target when it runs,       *)
(* wherever in the script it stands.                                       *)
(***************************************************************************)
EXTENDS SchemaDiff, AlterTable, SequenceTheorems, WellFoundedInduction, TLAPS

\* A statement that loses nothing: it writes no column that the target has,
\* or drops something other than data, or changes a column but not its type.
Harmless(st, to) ==
    \/ /\ st.op \in {"create", "replace"}
       /\ \A id \in DOMAIN st.objects : id[1] = "column" => id \notin DOMAIN to
    \/ st.op = "drop" /\ st.id[1] \notin {"table", "column", "sequence"}
    \/ st.op \in {"drop_identity", "default", "need_not_null", "identity", "not_null"}

Known(st, to) == Harmless(st, to) \/ Destroys(st)

\* What SchemaAssumption says of a pair of schemas that are compared.
Comparable(from, to) ==
    /\ \A id \in DOMAIN from \cup DOMAIN to : IsId(id)
    /\ \A id \in DOMAIN to : id[1] = "column" => <<"table", id[2]>> \in DOMAIN to

\* The database still has what the target had.
Kept(to, a) ==
    \A id \in DOMAIN to :
        /\ id[1] \in {"table", "column", "sequence"} => id \in DOMAIN a
        /\ id[1] = "column" => /\ DOMAIN a[id] = ColumnFields
                               /\ a[id].type = to[id].type

\* The inductive invariant: while the flag is off, nothing is lost so far and
\* nothing that is left to run will lose anything.
Lossless ==
    /\ pair \in Pairs
    /\ phase \in {"comparing", "running", "done", "failed"}
    /\ phase = "comparing" => db = pair.target
    /\ phase \in {"running", "done"} /\ ~diff.destructive =>
          /\ \A st \in todo : Harmless(st, pair.target)
          /\ Kept(pair.target, db)

-----------------------------------------------------------------------------
\* What a statement is made of, whatever its place.
LEMMA Pushed ==
    ASSUME NEW part, NEW id, NEW place, NEW op, NEW objects
    PROVE  /\ Push(part, id, place, op, objects).op = op
           /\ Push(part, id, place, op, objects).id = id
           /\ Push(part, id, place, op, objects).objects = objects
BY DEF Push

\* Requalification keeps the ids, so that a comparison is of the two schemas.
LEMMA Requalified ==
    ASSUME NEW p \in Pairs
    PROVE  Comparable(requalify_snapshot(p.source), p.target)
<1>1. DOMAIN requalify_snapshot(p.source) = DOMAIN p.source
    BY DEF requalify_snapshot
<1>2. QED BY <1>1, SchemaAssumption DEF Comparable

\* A statement that creates or replaces things none of which is a column.
LEMMA WritesNoColumn ==
    ASSUME NEW part, NEW id, NEW place, NEW op \in {"create", "replace"}, NEW objects, NEW to,
           \A o \in DOMAIN objects : o[1] # "column"
    PROVE  Known(Push(part, id, place, op, objects), to)
<1> DEFINE st == Push(part, id, place, op, objects)
<1>1. st.op = op /\ st.objects = objects BY Pushed
<1> HIDE DEF st
<1>2. Harmless(st, to) BY <1>1 DEF Harmless
<1>3. QED BY <1>2 DEF Known, st

\* A drop either loses data, and is counted, or does not.
LEMMA DropIsKnown ==
    ASSUME NEW part, NEW id, NEW place, NEW to
    PROVE  Known(Push(part, id, place, "drop", <<>>), to)
<1> DEFINE st == Push(part, id, place, "drop", <<>>)
<1>1. st.op = "drop" BY Pushed
<1> HIDE DEF st
<1>2. Known(st, to) BY <1>1 DEF Known, Harmless, Destroys
<1>3. QED BY <1>2 DEF st

\* Only its own object is in a restriction to one object.
LEMMA OneObject ==
    ASSUME NEW a, NEW S
    PROVE  DOMAIN Restrict(a, S) = S
BY DEF Restrict

LEMMA CreatesKnown ==
    ASSUME NEW part, NEW S, NEW a, NEW to, \A id \in S : id[1] # "column"
    PROVE  \A st \in Creates(part, S, a) : Known(st, to)
<1>1. SUFFICES ASSUME NEW id \in S
               PROVE  Known(Push(part, id, Part(0, id, 2), "create", Restrict(a, {id})), to)
    BY DEF Creates
<1>2. \A o \in DOMAIN Restrict(a, {id}) : o[1] # "column" BY OneObject
<1>3. QED BY <1>2, WritesNoColumn

LEMMA DropsKnown ==
    ASSUME NEW part, NEW S, NEW to
    PROVE  \A st \in Drops(part, S) : Known(st, to)
BY DropIsKnown DEF Drops

-----------------------------------------------------------------------------
\* The builders.
LEMMA SequencesKnown ==
    ASSUME NEW from, NEW to
    PROVE  \A st \in SequenceStatements(from, to) : Known(st, to)
<1>1. ASSUME NEW id, id[1] = "sequence", NEW op \in {"create", "replace"}
      PROVE  Known(Push(Phase.Sequences, id, Whole, op, Restrict(from, {id})), to)
    <2>1. \A o \in DOMAIN Restrict(from, {id}) : o[1] # "column" BY <1>1, OneObject
    <2>2. QED BY <2>1, WritesNoColumn
<1>2. \A id : Known(Push(Phase.DropSequences, id, Whole, "drop", <<>>), to)
    BY DropIsKnown
<1>3. \A id \in Only("sequence", from, to) \cup Differ("sequence", from, to) : id[1] = "sequence"
    BY DEF Only, Differ
<1>4. QED BY <1>1, <1>2, <1>3 DEF SequenceStatements

LEMMA ViewsKnown ==
    ASSUME NEW from, NEW to
    PROVE  \A st \in ViewStatements(from, to) : Known(st, to)
<1> DEFINE changed == Differ("view", from, to)
           again == {id \in changed : Rebuilt(id, from, to)}
<1>1. ASSUME NEW id, id[1] = "view", NEW op \in {"create", "replace"}
      PROVE  Known(Push(Phase.Views, id, Whole, op, Restrict(from, {id})), to)
    <2>1. \A o \in DOMAIN Restrict(from, {id}) : o[1] # "column" BY <1>1, OneObject
    <2>2. QED BY <2>1, WritesNoColumn
<1>2. \A id : Known(Push(Phase.DropViews, id, Whole, "drop", <<>>), to)
    BY DropIsKnown
<1>3. \A id \in Only("view", from, to) \cup changed : id[1] = "view"
    BY DEF Only, Differ
<1>4. ViewStatements(from, to) =
        {Push(Phase.Views, id, Whole, "create", Restrict(from, {id})) : id \in Only("view", from, to) \cup again}
        \cup {Push(Phase.DropViews, id, Whole, "drop", <<>>) : id \in Only("view", to, from) \cup again}
        \cup {Push(Phase.Views, id, Whole, "replace", Restrict(from, {id})) : id \in changed \ again}
    BY DEF ViewStatements
<1>5. again \subseteq changed OBVIOUS
<1> HIDE DEF changed, again
<1>6. /\ \A id \in Only("view", from, to) \cup again :
            Known(Push(Phase.Views, id, Whole, "create", Restrict(from, {id})), to)
      /\ \A id \in changed \ again :
            Known(Push(Phase.Views, id, Whole, "replace", Restrict(from, {id})), to)
    BY <1>1, <1>3, <1>5
<1>7. QED BY <1>2, <1>4, <1>6

\* A definition of the source creates a routine, under its own id or another.
LEMMA RoutinesKnown ==
    ASSUME NEW from, NEW to, Comparable(from, to)
    PROVE  \A st \in RoutineStatements(from, to) : Known(st, to)
<1>1. ASSUME NEW id \in Only("routine", from, to) \cup Differ("routine", from, to)
      PROVE  Known(Push(Phase.Routines, id, Whole, "replace", [real \in {RequalifiedId(id)} |-> from[id]]), to)
    <2>1. id[1] = "routine" /\ id = <<id[1], id[2], id[3]>>
        BY DEF Only, Differ, Comparable, IsId
    <2>2. RequalifiedId(id)[1] = "routine"
        BY <2>1 DEF RequalifiedId
    <2>3. \A o \in DOMAIN [real \in {RequalifiedId(id)} |-> from[id]] : o[1] # "column"
        BY <2>2
    <2>4. QED BY <2>3, WritesNoColumn
<1>2. \A id : Known(Push(Phase.DropRoutines, id, Whole, "drop", <<>>), to)
    BY DropIsKnown
<1>3. QED BY <1>1, <1>2 DEF RoutineStatements

\* A table that the target does not have has no column there either.
LEMMA NewTableKnown ==
    ASSUME NEW from, NEW to, Comparable(from, to), NEW id \in Only("table", from, to)
    PROVE  \A st \in create_table(id, from) : Known(st, to)
<1> DEFINE parts == {id} \cup Parts(id[2], "column", from)
                         \cup (Parts(id[2], "constraint", from) \ ForeignKeys(id[2], from))
           st == Push(Phase.Tables, id, Whole, "create", Restrict(from, parts))
<1>1. <<"table", id[2]>> \notin DOMAIN to
    BY DEF Only, Comparable, IsId
<1>2. \A o \in parts : o[1] = "column" => o \notin DOMAIN to
    <2>1. id[1] = "table" BY DEF Only
    <2>2. QED BY <1>1, <2>1 DEF Comparable, Parts
<1>3. Known(st, to)
    <2>1. st.op = "create" /\ st.objects = Restrict(from, parts) BY Pushed
    <2>2. DOMAIN st.objects = parts BY <2>1, OneObject
    <2> HIDE DEF st, parts
    <2>3. Harmless(st, to) BY <1>2, <2>1, <2>2 DEF Harmless
    <2>4. QED BY <2>3 DEF Known
<1>4. \A st2 \in Creates(Phase.ForeignKeys, ForeignKeys(id[2], from), from)
                 \cup Creates(Phase.Indexes, Parts(id[2], "index", from), from)
                 \cup Creates(Phase.Triggers, Parts(id[2], "trigger", from), from) : Known(st2, to)
    <2>1. /\ \A o \in ForeignKeys(id[2], from) : o[1] # "column"
          /\ \A o \in Parts(id[2], "index", from) : o[1] # "column"
          /\ \A o \in Parts(id[2], "trigger", from) : o[1] # "column"
        BY DEF ForeignKeys, Parts
    <2>2. QED BY <2>1, CreatesKnown
<1>5. create_table(id, from) =
        {st} \cup Creates(Phase.ForeignKeys, ForeignKeys(id[2], from), from)
             \cup Creates(Phase.Indexes, Parts(id[2], "index", from), from)
             \cup Creates(Phase.Triggers, Parts(id[2], "trigger", from), from)
    BY DEF create_table
<1> HIDE DEF st
<1>6. QED BY <1>3, <1>4, <1>5

LEMMA OldTableKnown ==
    ASSUME NEW id, NEW to
    PROVE  \A st \in drop_table(id, to) : Known(st, to)
BY DropsKnown, DropIsKnown DEF drop_table

\* The parts that a table loses or gains are of the kind asked for.
LEMMA ReplacedKind ==
    ASSUME NEW t, NEW kind, NEW from, NEW to
    PROVE  \A o \in Replaced(t, kind, from, to).gone \cup Replaced(t, kind, from, to).new : o[1] = kind
BY DEF Replaced, Differ, Only

\* A column of both schemas: of the steps only the type is a loss.
LEMMA StepKnown ==
    ASSUME NEW c, NEW n \in DOMAIN Steps, NEW objects, NEW to
    PROVE  Known(Push(Phase.Tables, c, Part(1, c, n), Steps[n], objects), to)
<1> DEFINE st == Push(Phase.Tables, c, Part(1, c, n), Steps[n], objects)
<1>1. st.op = Steps[n] BY Pushed
<1>2. Steps[n] \in {"type", "drop_identity", "default", "need_not_null", "identity", "not_null"}
    BY DEF Steps
<1> HIDE DEF st
<1>3. Known(st, to) BY <1>1, <1>2 DEF Known, Harmless, Destroys
<1>4. QED BY <1>3 DEF st

LEMMA ChangedTableKnown ==
    ASSUME NEW id, NEW from, NEW to
    PROVE  \A st \in alter_table(id, from, to) : Known(st, to)
<1> DEFINE t == id[2]
           columns == {c \in Parts(t, "column", from) : c \in DOMAIN to}
           keys == Replaced(t, "constraint", from, to)
           indexes == Replaced(t, "index", from, to)
           triggers == Replaced(t, "trigger", from, to)
           steps == {q \in columns \X DOMAIN Steps :
                        /\ from[q[1]].generated = to[q[1]].generated
                        /\ ColumnStep(Steps[q[2]], from[q[1]], to[q[1]])}
           Added == {Push(Phase.Tables, c, Part(1, c, 0), "create", Restrict(from, {c})) :
                        c \in Parts(t, "column", from) \ DOMAIN to}
           Altered == {Push(Phase.Tables, p[1], Part(1, p[1], p[2]), Steps[p[2]], Restrict(from, {p[1]})) :
                          p \in steps}
           Removed == {Push(Phase.Tables, c, Part(2, c, 0), "drop", <<>>) :
                          c \in Parts(t, "column", to) \ DOMAIN from}
           OldKeys == {Push(IF IsForeignKey(c, to) THEN Phase.DropForeignKeys ELSE Phase.Tables, c,
                            Part(3, c, 1), "drop", <<>>) : c \in keys.gone}
           NewKeys == {Push(IF IsForeignKey(c, from) THEN Phase.ForeignKeys ELSE Phase.Tables, c,
                            Part(3, c, 2), "create", Restrict(from, {c})) : c \in keys.new}
<1>1. alter_table(id, from, to) =
        Added \cup Altered \cup Removed \cup OldKeys \cup NewKeys
        \cup Drops(Phase.DropIndexes, indexes.gone) \cup Creates(Phase.Indexes, indexes.new, from)
        \cup Drops(Phase.DropTriggers, triggers.gone) \cup Creates(Phase.Triggers, triggers.new, from)
    BY DEF alter_table
<1>2. \A st \in Added : Known(st, to)
    <2>1. SUFFICES ASSUME NEW c \in Parts(t, "column", from) \ DOMAIN to
                   PROVE  Known(Push(Phase.Tables, c, Part(1, c, 0), "create", Restrict(from, {c})), to)
        OBVIOUS
    <2> DEFINE st == Push(Phase.Tables, c, Part(1, c, 0), "create", Restrict(from, {c}))
    <2>2. st.op = "create" /\ st.objects = Restrict(from, {c}) BY Pushed
    <2>3. DOMAIN st.objects = {c} BY <2>2, OneObject
    <2> HIDE DEF st
    <2>4. Harmless(st, to) BY <2>1, <2>2, <2>3 DEF Harmless
    <2>5. QED BY <2>4 DEF Known, st
<1>3. \A st \in Altered : Known(st, to)
    <2>1. \A p \in steps : p[2] \in DOMAIN Steps OBVIOUS
    <2> HIDE DEF steps
    <2>2. QED BY <2>1, StepKnown
<1>4. \A st \in Removed \cup OldKeys : Known(st, to) BY DropIsKnown
<1>5. \A st \in NewKeys : Known(st, to)
    <2>1. SUFFICES ASSUME NEW c \in keys.new, NEW part
                   PROVE  Known(Push(part, c, Part(3, c, 2), "create", Restrict(from, {c})), to)
        OBVIOUS
    <2>2. c[1] # "column" BY ReplacedKind
    <2>3. \A o \in DOMAIN Restrict(from, {c}) : o[1] # "column" BY <2>2, OneObject
    <2>4. QED BY <2>3, WritesNoColumn
<1>6. \A st \in Creates(Phase.Indexes, indexes.new, from)
                \cup Creates(Phase.Triggers, triggers.new, from) : Known(st, to)
    <2>1. \A o \in indexes.new \cup triggers.new : o[1] # "column" BY ReplacedKind
    <2> HIDE DEF indexes, triggers
    <2>2. QED BY <2>1, CreatesKnown
<1>7. \A st \in Drops(Phase.DropIndexes, indexes.gone)
                \cup Drops(Phase.DropTriggers, triggers.gone) : Known(st, to)
    BY DropsKnown
<1> HIDE DEF Added, Altered, Removed, OldKeys, NewKeys, indexes, triggers
<1>8. QED BY <1>1, <1>2, <1>3, <1>4, <1>5, <1>6, <1>7

\* Every statement of a script is harmless or counted.
LEMMA StatementsKnown ==
    ASSUME NEW from, NEW to, Comparable(from, to)
    PROVE  \A st \in Statements(from, to) : Known(st, to)
<1>1. \A st \in TableStatements(from, to) : Known(st, to)
    BY NewTableKnown, OldTableKnown, ChangedTableKnown DEF TableStatements
<1>2. QED BY <1>1, SequencesKnown, ViewsKnown, RoutinesKnown DEF Statements

-----------------------------------------------------------------------------
\* What a harmless statement does to what is left of the target.
LEMMA HarmlessKeeps ==
    ASSUME NEW st, NEW a, pair \in Pairs, Kept(pair.target, a), Harmless(st, pair.target)
    PROVE  Kept(pair.target, Applied(st, a))
<1> DEFINE to == pair.target
<1> HIDE DEF to
<1>0. Kept(to, a) /\ Harmless(st, to) BY DEF to
<1>1. CASE st.op \in {"create", "replace"}
    <2>1. Applied(st, a) = [id \in DOMAIN a \cup DOMAIN st.objects |->
                               IF id \in DOMAIN st.objects THEN st.objects[id] ELSE a[id]]
        BY <1>1 DEF Applied
    <2>2. \A id \in DOMAIN st.objects : id[1] = "column" => id \notin DOMAIN to
        BY <1>0, <1>1 DEF Harmless
    <2>3. Kept(to, Applied(st, a)) BY <1>0, <2>1, <2>2 DEF Kept
    <2>4. QED BY <2>3 DEF to
<1>2. CASE st.op = "drop"
    <2>1. st.id[1] \notin {"table", "column", "sequence"} BY <1>0, <1>2 DEF Harmless
    <2>2. WithIt(st.id, a) = {st.id} BY <2>1 DEF WithIt
    <2>3. \A p \in pair.owned : p[2] # st.id BY <2>1, SchemaAssumption
    <2>4. Gone(st.id, a) = {st.id} BY <2>2, <2>3 DEF Gone
    <2>5. Applied(st, a) = Restrict(a, DOMAIN a \ {st.id}) BY <1>2, <2>4 DEF Applied
    <2>6. Kept(to, Applied(st, a)) BY <1>0, <2>1, <2>5 DEF Kept, Restrict
    <2>7. QED BY <2>6 DEF to
<1>3. CASE st.op \in {"drop_identity", "default", "need_not_null", "identity", "not_null"}
    <2> DEFINE wanted == st.objects[st.id]
    <2>1. \E f \in {"identity", "default", "not_null"} : \E v :
              Applied(st, a) = [a EXCEPT ![st.id] = [a[st.id] EXCEPT ![f] = v]]
        <3>1. CASE st.op = "drop_identity"
            <4>1. Applied(st, a) = [a EXCEPT ![st.id] = [a[st.id] EXCEPT !["identity"] = "none"]]
                BY <3>1 DEF Applied
            <4>2. QED BY <4>1
        <3>2. CASE st.op = "default"
            <4>1. Applied(st, a) = [a EXCEPT ![st.id] = [a[st.id] EXCEPT !["default"] = wanted.default]]
                BY <3>2 DEF Applied
            <4>2. QED BY <4>1
        <3>3. CASE st.op = "need_not_null"
            <4>1. Applied(st, a) = [a EXCEPT ![st.id] = [a[st.id] EXCEPT !["not_null"] = TRUE]]
                BY <3>3 DEF Applied
            <4>2. QED BY <4>1
        <3>4. CASE st.op = "identity"
            <4>1. Applied(st, a) = [a EXCEPT ![st.id] = [a[st.id] EXCEPT !["identity"] = wanted.identity]]
                BY <3>4 DEF Applied
            <4>2. QED BY <4>1
        <3>5. CASE st.op = "not_null"
            <4>1. Applied(st, a) = [a EXCEPT ![st.id] = [a[st.id] EXCEPT !["not_null"] = wanted.not_null]]
                BY <3>5 DEF Applied
            <4>2. QED BY <4>1
        <3>6. QED BY <1>3, <3>1, <3>2, <3>3, <3>4, <3>5
    <2>2. PICK f \in {"identity", "default", "not_null"} : \E v :
              Applied(st, a) = [a EXCEPT ![st.id] = [a[st.id] EXCEPT ![f] = v]]
        BY <2>1
    <2>3. PICK v : Applied(st, a) = [a EXCEPT ![st.id] = [a[st.id] EXCEPT ![f] = v]]
        BY <2>2
    <2>4. f # "type" OBVIOUS
    <2>5. DOMAIN Applied(st, a) = DOMAIN a BY <2>3
    <2>6. ASSUME NEW id \in DOMAIN to, id[1] = "column"
          PROVE  /\ DOMAIN Applied(st, a)[id] = ColumnFields
                 /\ Applied(st, a)[id].type = to[id].type
        <3>1. id \in DOMAIN a /\ DOMAIN a[id] = ColumnFields /\ a[id].type = to[id].type
            BY <1>0, <2>6 DEF Kept
        <3>2. "type" \in DOMAIN a[id] BY <3>1 DEF ColumnFields
        <3>3. CASE id = st.id
            <4>1. Applied(st, a)[id] = [a[id] EXCEPT ![f] = v] BY <2>3, <3>1, <3>3
            <4>2. QED BY <4>1, <3>1, <3>2, <2>4
        <3>4. CASE id # st.id
            <4>1. Applied(st, a)[id] = a[id] BY <2>3, <3>1, <3>4
            <4>2. QED BY <4>1, <3>1
        <3>5. QED BY <3>3, <3>4
    <2>7. \A id \in DOMAIN to : id[1] \in {"table", "column", "sequence"} => id \in DOMAIN Applied(st, a)
        BY <1>0, <2>5 DEF Kept
    <2>8. Kept(to, Applied(st, a)) BY <2>6, <2>7 DEF Kept
    <2>9. QED BY <2>8 DEF to
<1>4. QED BY <1>0, <1>1, <1>2, <1>3 DEF Harmless

-----------------------------------------------------------------------------
LEMMA LosslessInit == Init => Lossless
BY DEF Init, Lossless

LEMMA LosslessNext == Lossless /\ [Next]_vars => Lossless'
<1> SUFFICES ASSUME Lossless, [Next]_vars PROVE Lossless'
    OBVIOUS
<1>1. CASE diff_schemas
    <2> DEFINE from == requalify_snapshot(pair.source)
    <2>1. /\ todo' = Statements(from, pair.target)
          /\ diff'.destructive = (\E st \in todo' : Destroys(st))
          /\ phase = "comparing" /\ phase' = "running"
          /\ pair' = pair /\ db' = db
        BY <1>1 DEF diff_schemas
    <2>2. pair \in Pairs /\ db = pair.target BY <2>1 DEF Lossless
    <2>3. \A st \in todo' : Known(st, pair.target)
        BY <2>1, <2>2, Requalified, StatementsKnown
    <2>4. ~diff'.destructive => \A st \in todo' : Harmless(st, pair.target)
        BY <2>1, <2>3 DEF Known
    <2>5. Kept(pair.target, pair.target) BY <2>2, SchemaAssumption DEF Kept
    <2>6. QED BY <2>1, <2>2, <2>4, <2>5 DEF Lossless
<1>2. CASE Run
    <2>1. PICK st \in todo :
              IF Accepted(st, db)
              THEN todo' = todo \ {st} /\ db' = Applied(st, db) /\ UNCHANGED phase
              ELSE todo' = {} /\ db' = pair.target /\ phase' = "failed"
        BY <1>2 DEF Run
    <2>2. phase = "running" /\ pair' = pair /\ diff' = diff BY <1>2 DEF Run
    <2>3. CASE Accepted(st, db)
        <3>1. todo' = todo \ {st} /\ db' = Applied(st, db) /\ phase' = phase BY <2>1, <2>3
        <3>2. ~diff.destructive => Kept(pair.target, Applied(st, db))
            BY <2>2, HarmlessKeeps DEF Lossless
        <3>3. QED BY <2>2, <3>1, <3>2 DEF Lossless
    <2>4. CASE ~Accepted(st, db)
        BY <2>1, <2>2, <2>4 DEF Lossless
    <2>5. QED BY <2>3, <2>4
<1>3. CASE Commit
    BY <1>3 DEF Commit, Lossless
<1>4. CASE UNCHANGED vars
    BY <1>4 DEF vars, Lossless
<1>5. QED BY <1>1, <1>2, <1>3, <1>4 DEF Next, Terminated

\* "Drops a table, a column or a sequence, or changes a column type": a script
\* that runs without the warning loses none of these, for every pair of schemas.
THEOREM DataLossCorrect == Spec => []DataLossIsAnnounced
<1>1. Lossless => DataLossIsAnnounced BY DEF Lossless, Kept, DataLossIsAnnounced
<1>2. QED BY LosslessInit, LosslessNext, <1>1, PTL DEF Spec
-----------------------------------------------------------------------------
(***************************************************************************)
(* The table editor: AlterTable, for any tables, forms and other sessions. *)
(* What is announced there is the loss of a column or of its values, and   *)
(* the argument is the same: what the builder writes, then what a          *)
(* statement keeps, then the script by induction over its length.          *)
(***************************************************************************)
ColumnParts == {"id", "name", "type", "nullable", "default", "pk", "fks"}

IsSeq(s) == \E S : s \in Seq(S)

IsTable(columns) ==
    /\ IsSeq(columns)
    /\ \A i \in DOMAIN columns : DOMAIN columns[i] = ColumnParts /\ columns[i].fks \in Nat

\* A statement drops only columns with the names of Marked, gives no column such
\* a name and converts no column when Typed.
Sparing(s, Marked, Typed) ==
    /\ s.do = "drop" => s.column \in Marked
    /\ s.do = "rename" => s.to \notin Marked
    /\ Typed => s.do # "type"

\* Each column under another name is still there, under another name than those
\* of Marked, and of the same type when Typed.
Spared(Marked, Typed, columns, after) ==
    \A i \in DOMAIN columns : columns[i].name \notin Marked =>
        \E j \in DOMAIN after :
            /\ after[j].id = columns[i].id
            /\ after[j].name \notin Marked
            /\ Typed => after[j].type = columns[i].type

\* A nonempty set of numbers has a least one.
LEMMA LeastIn ==
    ASSUME NEW S \in SUBSET Nat, S # {}
    PROVE  \E k \in S : \A j \in S : k <= j
  <1>1. PICK k \in S : \A j \in S : <<j, k>> \notin OpToRel(<, Nat)
    BY NatLessThanWellFounded, WFMin
  <1>2. \A j \in S : ~(j < k)
    BY <1>1 DEF OpToRel
  <1> QED
    BY <1>2

\* A function on 1..n is a sequence.
LEMMA Listing ==
    ASSUME NEW n \in Nat, NEW K, K = [k \in 1..n |-> K[k]]
    PROVE  IsSeq(K) /\ DOMAIN K = 1..n
  <1>1. K \in [1..n -> {K[k] : k \in 1..n}]
    OBVIOUS
  <1>2. K \in Seq({K[k] : k \in 1..n})
    BY <1>1
  <1> QED
    BY <1>2 DEF IsSeq

LEMMA KeylessColumns ==
    ASSUME NEW columns, IsTable(columns), NEW K, K = Keyless(columns)
    PROVE  /\ IsTable(K) /\ DOMAIN K = DOMAIN columns
           /\ \A k \in DOMAIN columns : /\ K[k].id = columns[k].id /\ K[k].name = columns[k].name
                                         /\ K[k].type = columns[k].type
  <1>1. DOMAIN columns = 1..Len(columns) /\ Len(columns) \in Nat
    BY DEF IsTable, IsSeq
  <1>2. K = [k \in 1..Len(columns) |-> [columns[k] EXCEPT !.pk = 0]]
    BY <1>1 DEF Keyless
  <1>3. K = [k \in 1..Len(columns) |-> K[k]]
    BY <1>2
  <1>4. IsSeq(K) /\ DOMAIN K = 1..Len(columns)
    BY <1>1, <1>3, Listing
  <1>5. ASSUME NEW k \in DOMAIN columns
        PROVE  /\ DOMAIN K[k] = ColumnParts /\ K[k].fks = columns[k].fks /\ K[k].id = columns[k].id
               /\ K[k].name = columns[k].name /\ K[k].type = columns[k].type
    <2>1. K[k] = [columns[k] EXCEPT !.pk = 0] /\ DOMAIN columns[k] = ColumnParts
      BY <1>1, <1>2, <1>5 DEF IsTable
    <2> QED
      BY <2>1 DEF ColumnParts
  <1> QED
    BY <1>1, <1>4, <1>5 DEF IsTable

\* What PostgreSQL does to the columns for one statement.
LEMMA StatementSpares ==
    ASSUME NEW columns, IsTable(columns), NEW s, Allowed(columns, s),
           NEW Marked, NEW Typed \in BOOLEAN
    PROVE  /\ IsTable(Executed(columns, s))
           /\ Sparing(s, Marked, Typed) => Spared(Marked, Typed, columns, Executed(columns, s))
  <1>1. PICK S : columns \in Seq(S)
    BY DEF IsTable, IsSeq
  <1>2. DOMAIN columns = 1..Len(columns) /\ Len(columns) \in Nat
    BY <1>1
  <1>3. SUFFICES ASSUME NEW K, K = Executed(columns, s)
                 PROVE  IsTable(K) /\ (Sparing(s, Marked, Typed) => Spared(Marked, Typed, columns, K))
    OBVIOUS
  <1>4. CASE s.do = "drop_key"
    <2>1. K = Keyless(columns)
      BY <1>3, <1>4 DEF Executed
    <2> QED
      BY <2>1, KeylessColumns DEF Spared
  <1>5. CASE s.do = "add_key"
    <2>1. K = [k \in 1..Len(columns) |->
                  IF columns[k].name \in ToSet(s.columns)
                  THEN [columns[k] EXCEPT !.pk = Place(s.columns, columns[k].name), !.nullable = FALSE]
                  ELSE columns[k]]
      BY <1>2, <1>3, <1>5 DEF Executed
    <2>2. K = [k \in 1..Len(columns) |-> K[k]]
      BY <2>1
    <2>3. IsSeq(K) /\ DOMAIN K = DOMAIN columns
      BY <1>2, <2>2, Listing
    <2>4. ASSUME NEW k \in DOMAIN columns
          PROVE  /\ DOMAIN K[k] = ColumnParts /\ K[k].fks = columns[k].fks /\ K[k].id = columns[k].id
                 /\ K[k].name = columns[k].name /\ K[k].type = columns[k].type
      <3>1. \/ K[k] = [columns[k] EXCEPT !.pk = Place(s.columns, columns[k].name), !.nullable = FALSE]
            \/ K[k] = columns[k]
        BY <1>2, <2>1
      <3>2. DOMAIN columns[k] = ColumnParts
        BY DEF IsTable
      <3> QED
        BY <3>1, <3>2 DEF ColumnParts
    <2> QED
      BY <2>3, <2>4 DEF IsTable, Spared
  <1>6. CASE s.do = "add"
    <2>1. PICK new : new = Column(s.row, <<s.by, s.row.name>>)
      OBVIOUS
    <2>2. K = Append(columns, new)
      BY <1>3, <1>6, <2>1 DEF Executed
    <2>3. DOMAIN new = ColumnParts /\ new.fks \in Nat
      BY <2>1 DEF Column, ColumnParts
    <2>4. columns \in Seq(S \cup {new})
      BY <1>1
    <2>5. /\ K \in Seq(S \cup {new}) /\ DOMAIN K = 1..(Len(columns) + 1)
          /\ K[Len(columns) + 1] = new /\ \A k \in DOMAIN columns : K[k] = columns[k]
      BY <1>2, <2>2, <2>4
    <2>6. IsTable(K)
      BY <1>2, <2>3, <2>5 DEF IsTable, IsSeq
    <2> QED
      BY <1>2, <2>5, <2>6 DEF Spared
  <1>7. CASE s.do = "drop"
    <2>1. PICK at : at = Where(columns, s.column)
      OBVIOUS
    <2>2. at \in DOMAIN columns /\ columns[at].name = s.column
      BY <1>7, <2>1 DEF Allowed, Where, NamesOf
    <2>3. PICK left : left = IF columns[at].pk > 0 THEN Keyless(columns) ELSE columns
      OBVIOUS
    <2>4. /\ IsTable(left) /\ DOMAIN left = DOMAIN columns
          /\ \A k \in DOMAIN columns : /\ left[k].id = columns[k].id /\ left[k].name = columns[k].name
                                        /\ left[k].type = columns[k].type
      BY <2>3, KeylessColumns
    <2>5. K = RemoveAt(left, at)
      BY <1>3, <1>7, <2>1, <2>3 DEF Executed
    <2>6. PICK L : left \in Seq(L)
      BY <2>4 DEF IsTable, IsSeq
    <2>7. Len(left) = Len(columns)
      BY <1>2, <2>4, <2>6
    <2>8. /\ K \in Seq(L) /\ DOMAIN K = 1..(Len(columns) - 1)
          /\ \A k \in 1..(at - 1) : K[k] = left[k]
          /\ \A k \in at..(Len(columns) - 1) : K[k] = left[k + 1]
      <3>1. PICK a, b : a = SubSeq(left, 1, at - 1) /\ b = SubSeq(left, at + 1, Len(left))
        OBVIOUS
      <3>2. /\ a \in Seq(L) /\ Len(a) = at - 1
            /\ \A k \in 1..(at - 1) : a[k] = left[k]
        BY <1>2, <2>2, <2>6, <2>7, <3>1
      <3>3. /\ b \in Seq(L) /\ Len(b) = Len(columns) - at
            /\ \A k \in 1..(Len(columns) - at) : b[k] = left[at + k]
        BY <1>2, <2>2, <2>6, <2>7, <3>1
      <3>4. K = a \o b
        BY <2>5, <3>1 DEF RemoveAt
      <3>5. /\ K \in Seq(L) /\ Len(K) = Len(columns) - 1
            /\ \A k \in 1..Len(K) : K[k] = IF k <= at - 1 THEN a[k] ELSE b[k - (at - 1)]
        <4>1. /\ a \o b \in Seq(L) /\ Len(a \o b) = Len(a) + Len(b)
              /\ \A k \in 1..(Len(a) + Len(b)) :
                    (a \o b)[k] = IF k <= Len(a) THEN a[k] ELSE b[k - Len(a)]
          BY <3>2, <3>3, ConcatProperties, Zenon
        <4>2. Len(a) + Len(b) = Len(columns) - 1
          BY <1>2, <2>2, <3>2, <3>3
        <4> QED
          BY <3>2, <3>4, <4>1, <4>2
      <3>6. ASSUME NEW k \in at..(Len(columns) - 1)
            PROVE  K[k] = left[k + 1]
        <4>1. k - (at - 1) \in 1..(Len(columns) - at) /\ at + (k - (at - 1)) = k + 1
          BY <1>2, <2>2
        <4> QED
          BY <1>2, <2>2, <3>3, <3>5, <4>1
      <3>7. \A k \in 1..(at - 1) : K[k] = left[k]
        <4>1. \A k \in 1..(at - 1) : k \in 1..Len(K) /\ k <= at - 1
          BY <1>2, <2>2, <3>5
        <4> QED
          BY <3>2, <3>5, <4>1
      <3> QED
        BY <3>5, <3>6, <3>7
    <2>9. IsTable(K)
      <3>1. \A k \in DOMAIN K : \/ k \in 1..(at - 1)
                                \/ k \in at..(Len(columns) - 1) /\ k + 1 \in DOMAIN columns
        BY <1>2, <2>2, <2>8
      <3>2. \A k \in 1..(at - 1) : k \in DOMAIN left
        BY <1>2, <2>2, <2>4
      <3>3. \A k \in DOMAIN K : \E l \in DOMAIN left : K[k] = left[l]
        BY <2>4, <2>8, <3>1, <3>2
      <3> QED
        BY <2>4, <2>8, <3>3 DEF IsTable, IsSeq
    <2>10. ASSUME NEW k \in DOMAIN columns, columns[k].name \notin Marked, Sparing(s, Marked, Typed)
           PROVE  \E j \in DOMAIN K : K[j] = left[k]
      <3>1. k # at
        BY <1>7, <2>2, <2>10 DEF Sparing
      <3>2. CASE k < at
        BY <1>2, <2>2, <2>8, <3>2
      <3>3. CASE k > at
        <4>1. k - 1 \in at..(Len(columns) - 1) /\ k - 1 \in DOMAIN K /\ (k - 1) + 1 = k
          BY <1>2, <2>2, <2>8, <3>3
        <4> QED
          BY <2>8, <4>1
      <3> QED
        BY <1>2, <2>2, <3>1, <3>2, <3>3
    <2> QED
      BY <2>4, <2>9, <2>10 DEF Spared
  <1>8. CASE s.do \in {"rename", "type", "null", "default"}
    <2>1. PICK at : at = Where(columns, s.column)
      OBVIOUS
    <2>2. at \in DOMAIN columns
      BY <1>8, <2>1 DEF Allowed, Where, NamesOf
    <2>3. PICK field \in {"name", "type", "nullable", "default"} :
              /\ K = [columns EXCEPT ![at] = [@ EXCEPT ![field] = s.to]]
              /\ s.do = "rename" <=> field = "name"
              /\ s.do = "type" <=> field = "type"
      BY <1>3, <1>8, <2>1 DEF Executed
    <2>4. K = [k \in 1..Len(columns) |-> K[k]]
      BY <1>2, <2>3
    <2>5. IsSeq(K) /\ DOMAIN K = DOMAIN columns
      BY <1>2, <2>4, Listing
    <2>6. ASSUME NEW k \in DOMAIN columns, k # at
          PROVE  K[k] = columns[k]
      BY <2>3, <2>6
    <2>7. /\ DOMAIN K[at] = ColumnParts /\ K[at].fks = columns[at].fks /\ K[at].id = columns[at].id
          /\ K[at].name = IF field = "name" THEN s.to ELSE columns[at].name
          /\ field # "type" => K[at].type = columns[at].type
      <3>1. K[at] = [columns[at] EXCEPT ![field] = s.to] /\ DOMAIN columns[at] = ColumnParts
        BY <2>2, <2>3 DEF IsTable
      <3> QED
        BY <3>1 DEF ColumnParts
    <2>8. IsTable(K)
      BY <2>2, <2>5, <2>6, <2>7 DEF IsTable
    <2>9. ASSUME NEW k \in DOMAIN columns, columns[k].name \notin Marked, Sparing(s, Marked, Typed)
          PROVE  /\ K[k].id = columns[k].id /\ K[k].name \notin Marked
                 /\ Typed => K[k].type = columns[k].type
      BY <2>2, <2>3, <2>6, <2>7, <2>9 DEF Sparing
    <2> QED
      BY <2>5, <2>8, <2>9 DEF Spared
  <1>9. CASE s.do \notin {"drop_key", "add_key", "add", "drop", "rename", "type", "null", "default"}
    <2>1. K = columns
      BY <1>3, <1>9 DEF Executed
    <2> QED
      BY <2>1 DEF Spared
  <1> QED
    BY <1>4, <1>5, <1>6, <1>7, <1>8, <1>9
\* The states that a transaction goes through with its first m statements.
Traced(f, m, columns, statements) ==
    f = [n \in 0..m |-> IF n = 0 THEN Started(columns)
                        ELSE Step(statements[n], f[n - 1])]

\* Every script has a trace: the recursive function in Run is one.
LEMMA TraceExists ==
    ASSUME NEW columns, NEW statements
    PROVE  \A m \in Nat : \E f : Traced(f, m, columns, statements)
  <1> DEFINE S == {m \in Nat : ~\E f : Traced(f, m, columns, statements)}
  <1>1. SUFFICES ASSUME S # {} PROVE FALSE
    OBVIOUS
  <1>2. PICK k \in S : \A j \in S : k <= j
    <2> HIDE DEF S
    <2>1. S \in SUBSET Nat
      BY DEF S
    <2> QED
      BY <1>1, <2>1, LeastIn
  <1>3. CASE k = 0
    <2> DEFINE f == [n \in 0..0 |-> Started(columns)]
    <2>1. f = [n \in 0..0 |-> IF n = 0 THEN Started(columns)
                              ELSE Step(statements[n], f[n - 1])]
      OBVIOUS
    <2> QED
      BY <1>2, <1>3, <2>1 DEF Traced
  <1>4. CASE k # 0
    <2>1. k - 1 \in Nat /\ k - 1 \notin S
      BY <1>2, <1>4
    <2>2. PICK g : Traced(g, k - 1, columns, statements)
      BY <2>1
    <2> DEFINE f == [n \in 0..k |-> IF n = k THEN Step(statements[k], g[k - 1]) ELSE g[n]]
    <2>3. \A n \in 0..(k - 1) : g[n] = IF n = 0 THEN Started(columns)
                                       ELSE Step(statements[n], g[n - 1])
      BY <2>2, Zenon DEF Traced
    <2>4. ASSUME NEW n \in 0..k
          PROVE  f[n] = IF n = 0 THEN Started(columns) ELSE Step(statements[n], f[n - 1])
      <3>1. CASE n = k
        BY <1>4, <2>1, <3>1
      <3>2. CASE n # k
        <4>1. n \in 0..(k - 1)
          BY <1>2, <3>2
        <4>2. f[n] = g[n]
          BY <3>2
        <4>3. n # 0 => n - 1 \in 0..k /\ n - 1 # k
          BY <4>1
        <4> QED
          BY <2>3, <4>1, <4>2, <4>3
      <3> QED
        BY <3>1, <3>2
    <2>5. f = [n \in 0..k |-> IF n = 0 THEN Started(columns)
                              ELSE Step(statements[n], f[n - 1])]
      BY <2>4
    <2>6. Traced(f, k, columns, statements)
      <3> HIDE DEF f
      <3> QED
        BY <2>5 DEF Traced
    <2> QED
      BY <1>2, <2>6
  <1> QED
    BY <1>3, <1>4

LEMMA RunIsTraced ==
    ASSUME NEW columns, NEW statements, Len(statements) \in Nat
    PROVE  \E f : /\ Traced(f, Len(statements), columns, statements)
                  /\ Transact(columns, statements) = f[Len(statements)]
  <1>1. PICK f : Traced(f, Len(statements), columns, statements)
    BY TraceExists
  <1>2. PICK g : g = CHOOSE h : Traced(h, Len(statements), columns, statements)
    OBVIOUS
  <1>3. Transact(columns, statements) = g[Len(statements)]
    BY <1>2, Zenon DEF Transact, Traced
  <1>4. Traced(g, Len(statements), columns, statements)
    BY <1>1, <1>2, Zenon
  <1> QED
    BY <1>3, <1>4

\* A transaction that succeeds leaves a table, and spares the columns when each
\* of its statements does.
LEMMA RunSpares ==
    ASSUME NEW columns, IsTable(columns), NEW statements, Len(statements) \in Nat,
           NEW Marked, NEW Typed \in BOOLEAN,
           Transact(columns, statements).ok
    PROVE  /\ IsTable(Transact(columns, statements).columns)
           /\ (\A n \in 1..Len(statements) : Sparing(statements[n], Marked, Typed))
                => Spared(Marked, Typed, columns, Transact(columns, statements).columns)
  <1>1. PICK f : /\ Traced(f, Len(statements), columns, statements)
                 /\ Transact(columns, statements) = f[Len(statements)]
    BY RunIsTraced
  <1>0. PICK Spare \in BOOLEAN : Spare <=> \A n \in 1..Len(statements) : Sparing(statements[n], Marked, Typed)
    OBVIOUS
  <1> DEFINE Fine(st) == /\ DOMAIN st = {"ok", "columns"}
                         /\ st.ok => /\ IsTable(st.columns)
                                     /\ Spare => Spared(Marked, Typed, columns, st.columns)
             S == {n \in 0..Len(statements) : ~Fine(f[n])}
  <1>2. SUFFICES S = {}
    BY <1>0, <1>1
  <1>3. SUFFICES ASSUME S # {} PROVE FALSE
    OBVIOUS
  <1>4. PICK k \in S : \A j \in S : k <= j
    <2> HIDE DEF S
    <2>1. S \in SUBSET Nat
      BY DEF S
    <2> QED
      BY <1>3, <2>1, LeastIn
  <1>5. k \in 0..Len(statements)
    OBVIOUS
  <1>6. f[k] = IF k = 0 THEN Started(columns) ELSE Step(statements[k], f[k - 1])
    BY <1>1, <1>5, Zenon DEF Traced
  <1>7. Fine(f[k])
    <2>1. CASE k = 0
      BY <1>6, <2>1 DEF Started, Spared
    <2>2. CASE k # 0
      <3>1. k - 1 \in 0..Len(statements) /\ k - 1 \notin S /\ k \in 1..Len(statements)
        BY <1>4, <1>5, <2>2
      <3>2. PICK st, s : st = f[k - 1] /\ s = statements[k]
        OBVIOUS
      <3>3. Fine(st) /\ f[k] = Step(s, st) /\ (Spare => Sparing(s, Marked, Typed))
        BY <1>0, <1>6, <2>2, <3>1, <3>2
      <3>4. CASE st.ok /\ Allowed(st.columns, s)
        <4>1. PICK next : next = Executed(st.columns, s)
          OBVIOUS
        <4>2. IsTable(next) /\ (Spare => Spared(Marked, Typed, st.columns, next))
          BY <3>3, <3>4, <4>1, StatementSpares
        <4>3. f[k] = [ok |-> TRUE, columns |-> next]
          BY <3>3, <3>4, <4>1 DEF Step, Started
        <4>4. Spare => Spared(Marked, Typed, columns, next)
          BY <3>3, <3>4, <4>2 DEF Spared
        <4> QED
          BY <4>2, <4>3, <4>4
      <3>5. CASE ~(st.ok /\ Allowed(st.columns, s))
        <4>1. f[k] = [st EXCEPT !.ok = FALSE]
          BY <3>3, <3>5 DEF Step
        <4> QED
          BY <3>3, <4>1
      <3> QED
        BY <3>4, <3>5
    <2> QED
      BY <2>1, <2>2
  <1> QED
    BY <1>4, <1>7
-----------------------------------------------------------------------------
LEMMA WhenIsSeq ==
    ASSUME NEW condition, NEW x
    PROVE  When(condition, x) \in Seq({x})
  <1>1. <<x>> \in Seq({x})
    OBVIOUS
  <1>2. <<>> \in Seq({x})
    BY EmptySeq, Zenon
  <1> QED
    BY <1>1, <1>2, Zenon DEF When

\* The first m of seqs, one after the other.
Joined(f, m, seqs) == f = [i \in 1..m |-> IF i = 1 THEN seqs[i] ELSE f[i - 1] \o seqs[i]]

\* FlattenSeq's recursive function exists.
LEMMA JoinedExists ==
    ASSUME NEW seqs
    PROVE  \A m \in Nat : \E f : Joined(f, m, seqs)
  <1> DEFINE S == {m \in Nat : ~\E f : Joined(f, m, seqs)}
  <1>1. SUFFICES ASSUME S # {} PROVE FALSE
    OBVIOUS
  <1>2. PICK k \in S : \A j \in S : k <= j
    <2> HIDE DEF S
    <2>1. S \in SUBSET Nat
      BY DEF S
    <2> QED
      BY <1>1, <2>1, LeastIn
  <1>3. CASE k = 0
    <2> DEFINE f == [i \in 1..0 |-> seqs]
    <2>1. Joined(f, 0, seqs)
      BY DEF Joined
    <2> QED
      BY <1>2, <1>3, <2>1
  <1>4. CASE k # 0
    <2>1. k - 1 \in Nat /\ k - 1 \notin S
      BY <1>2, <1>4
    <2>2. PICK g : Joined(g, k - 1, seqs)
      BY <2>1
    <2> DEFINE f == [i \in 1..k |-> IF i # k THEN g[i] ELSE IF i = 1 THEN seqs[i] ELSE g[i - 1] \o seqs[i]]
    <2>3. \A i \in 1..(k - 1) : g[i] = IF i = 1 THEN seqs[i] ELSE g[i - 1] \o seqs[i]
      BY <2>2, Zenon DEF Joined
    <2>4. ASSUME NEW i \in 1..k
          PROVE  f[i] = IF i = 1 THEN seqs[i] ELSE f[i - 1] \o seqs[i]
      <3>1. CASE i = k
        BY <2>1, <3>1
      <3>2. CASE i # k
        <4>1. i \in 1..(k - 1)
          BY <1>2, <3>2
        <4>2. f[i] = g[i]
          BY <3>2
        <4>3. i # 1 => i - 1 \in 1..k /\ i - 1 # k
          BY <4>1
        <4> QED
          BY <2>3, <4>1, <4>2, <4>3
      <3> QED
        BY <3>1, <3>2
    <2>5. f = [i \in 1..k |-> IF i = 1 THEN seqs[i] ELSE f[i - 1] \o seqs[i]]
      BY <2>4
    <2>6. Joined(f, k, seqs)
      <3> HIDE DEF f
      <3> QED
        BY <2>5 DEF Joined
    <2> QED
      BY <1>2, <2>6
  <1> QED
    BY <1>3, <1>4

\* Sequences one after the other hold what each of them holds.
LEMMA Flattened ==
    ASSUME NEW T, NEW seqs, IsSeq(seqs), \A n \in DOMAIN seqs : seqs[n] \in Seq(T)
    PROVE  FlattenSeq(seqs) \in Seq(T)
  <1>1. DOMAIN seqs = 1..Len(seqs) /\ Len(seqs) \in Nat
    BY DEF IsSeq
  <1>2. CASE Len(seqs) = 0
    <2>1. seqs = <<>>
      BY <1>2 DEF IsSeq
    <2>2. FlattenSeq(seqs) = seqs
      BY <1>2 DEF FlattenSeq
    <2> QED
      BY <2>1, <2>2, EmptySeq, Zenon
  <1>3. CASE Len(seqs) # 0
    <2>1. PICK g : g = CHOOSE h : Joined(h, Len(seqs), seqs)
      OBVIOUS
    <2>2. Joined(g, Len(seqs), seqs)
      BY <1>1, <2>1, JoinedExists, Zenon
    <2>3. FlattenSeq(seqs) = g[Len(seqs)]
      BY <1>3, <2>1, Zenon DEF FlattenSeq, Joined
    <2> DEFINE S == {m \in 1..Len(seqs) : g[m] \notin Seq(T)}
    <2>4. SUFFICES ASSUME S # {} PROVE FALSE
      BY <1>1, <1>3, <2>3
    <2>5. PICK k \in S : \A j \in S : k <= j
      <3> HIDE DEF S
      <3>1. S \in SUBSET Nat
        BY DEF S
      <3> QED
        BY <2>4, <3>1, LeastIn
    <2>6. k \in 1..Len(seqs) /\ seqs[k] \in Seq(T)
      BY <1>1
    <2>7. g[k] = IF k = 1 THEN seqs[k] ELSE g[k - 1] \o seqs[k]
      BY <2>2, <2>6, Zenon DEF Joined
    <2>8. CASE k = 1
      BY <2>5, <2>6, <2>7, <2>8
    <2>9. CASE k # 1
      <3>1. g[k - 1] \in Seq(T)
        BY <2>5, <2>6, <2>9
      <3>2. g[k - 1] \o seqs[k] \in Seq(T)
        BY <2>6, <3>1, ConcatProperties, Zenon
      <3> QED
        BY <2>5, <2>7, <2>9, <3>2
    <2> QED
      BY <2>8, <2>9
  <1> QED
    BY <1>2, <1>3
\* What build_alter_table_statements may write for a row.
Written(row, T) ==
    {t \in T : (t.do = "drop" => row.removed /\ t.column = row.original)
               /\ (t.do = "rename" => ~row.removed /\ t.to = row.name)}

LEMMA RowWrites ==
    ASSUME NEW row, NEW detail
    PROVE  \E T : EditStatements(row, detail) \in Seq(Written(row, T))
  <1>1. CASE row.original = New
    <2>1. PICK s : s = [do |-> "add", row |-> row, by |-> "dialog"]
      OBVIOUS
    <2>2. EditStatements(row, detail) = When(~row.removed, s)
      BY <1>1, <2>1 DEF EditStatements
    <2>3. {s} = Written(row, {s})
      BY <2>1 DEF Written
    <2> QED
      BY <2>2, <2>3, WhenIsSeq
  <1>2. CASE row.original # New /\ row.removed
    <2>1. PICK s : s = [do |-> "drop", column |-> row.original]
      OBVIOUS
    <2>2. EditStatements(row, detail) = <<s>>
      BY <1>2, <2>1 DEF EditStatements
    <2>3. s \in Written(row, {s})
      BY <1>2, <2>1 DEF Written
    <2> QED
      BY <2>2, <2>3
  <1>3. CASE row.original # New /\ ~row.removed /\ row.original \notin NamesOf(detail)
    <2>1. EditStatements(row, detail) = <<>>
      BY <1>3 DEF EditStatements
    <2> QED
      BY <2>1, EmptySeq, Zenon
  <1>4. CASE row.original # New /\ ~row.removed /\ row.original \in NamesOf(detail)
    <2>1. PICK current : EditStatements(row, detail) = RowStatements(row, current)
      BY <1>4 DEF EditStatements
    <2>2. PICK a, b, c, d : /\ a = [do |-> "rename", column |-> row.original, to |-> row.name]
                            /\ b = [do |-> "type", column |-> row.name, to |-> row.type]
                            /\ c = [do |-> "null", column |-> row.name, to |-> row.nullable]
                            /\ d = [do |-> "default", column |-> row.name, to |-> row.default]
      OBVIOUS
    <2>3. PICK p, q, u, v : /\ p = When(row.name # row.original, a)
                            /\ q = When(row.type # current.type, b)
                            /\ u = When(row.nullable # current.nullable, c)
                            /\ v = When(row.default # current.default, d)
      OBVIOUS
    <2>4. RowStatements(row, current) = p \o q \o u \o v
      BY <2>2, <2>3 DEF RowStatements
    <2>5. PICK T : T = Written(row, {a, b, c, d})
      OBVIOUS
    <2>6. a \in T /\ b \in T /\ c \in T /\ d \in T
      BY <1>4, <2>2, <2>5 DEF Written
    <2>7. p \in Seq({a}) /\ q \in Seq({b}) /\ u \in Seq({c}) /\ v \in Seq({d})
      BY <2>3, WhenIsSeq
    <2>8. p \in Seq(T) /\ q \in Seq(T) /\ u \in Seq(T) /\ v \in Seq(T)
      <3>1. {a} \subseteq T /\ {b} \subseteq T /\ {c} \subseteq T /\ {d} \subseteq T
        BY <2>6
      <3> QED
        BY <2>7, <3>1, SeqMonotonic, Zenon
    <2>9. p \o q \in Seq(T)
      BY <2>8, ConcatProperties, Zenon
    <2>10. p \o q \o u \in Seq(T)
      BY <2>8, <2>9, ConcatProperties, Zenon
    <2>11. p \o q \o u \o v \in Seq(T)
      BY <2>8, <2>10, ConcatProperties, Zenon
    <2> QED
      BY <2>1, <2>4, <2>5, <2>11
  <1> QED
    BY <1>1, <1>2, <1>3, <1>4

\* Every statement of a script that drops or renames a column is a row's.
LEMMA ScriptWrites ==
    ASSUME NEW detail, NEW f, IsSeq(f.rows), NEW built, built = BuildStatements(detail, f)
    PROVE  /\ Len(built) \in Nat /\ DOMAIN built = 1..Len(built)
           /\ \A n \in 1..Len(built) :
                 /\ built[n].do = "drop" =>
                        \E i \in DOMAIN f.rows : f.rows[i].removed /\ f.rows[i].original = built[n].column
                 /\ built[n].do = "rename" =>
                        \E i \in DOMAIN f.rows : ~f.rows[i].removed /\ f.rows[i].name = built[n].to
  <1> DEFINE Allows(t) ==
                 /\ t.do = "drop" => \E i \in DOMAIN f.rows : f.rows[i].removed /\ f.rows[i].original = t.column
                 /\ t.do = "rename" => \E i \in DOMAIN f.rows : ~f.rows[i].removed /\ f.rows[i].name = t.to
  <1>1. PICK seqs : seqs = [i \in DOMAIN f.rows |-> EditStatements(f.rows[i], detail)]
    OBVIOUS
  <1>2. IsSeq(seqs) /\ DOMAIN seqs = DOMAIN f.rows
    <2>1. DOMAIN f.rows = 1..Len(f.rows) /\ Len(f.rows) \in Nat
      BY DEF IsSeq
    <2> QED
      BY <1>1, <2>1, Listing
  <1>3. PICK a, b, c : a = [do |-> "drop_key"]
                       /\ b = [do |-> "add_key", columns |-> EditedKey(f.rows)]
                       /\ c = [do |-> "rename_table"]
    OBVIOUS
  <1>4. PICK p, q, r : /\ p = When(~KeyUnchanged(detail, f.rows) /\ HasKey(detail), a)
                       /\ q = When(~KeyUnchanged(detail, f.rows)
                                            /\ EditedKey(f.rows) # <<>>, b)
                       /\ r = When(f.renamed, c)
    OBVIOUS
  <1>5. built = p \o FlattenSeq(seqs) \o q \o r
    BY <1>1, <1>3, <1>4 DEF BuildStatements
  <1>6. PICK all : all = {a, b, c} \cup UNION {{seqs[i][j] : j \in DOMAIN seqs[i]} : i \in DOMAIN seqs}
    OBVIOUS
  <1>7. PICK T : T = {t \in all : Allows(t)}
    OBVIOUS
  <1>8. a \in T /\ b \in T /\ c \in T
    BY <1>3, <1>6, <1>7
  <1>9. ASSUME NEW i \in DOMAIN seqs
        PROVE  seqs[i] \in Seq(T)
    <2>1. PICK W : seqs[i] \in Seq(Written(f.rows[i], W))
      BY <1>1, <1>2, RowWrites
    <2>2. DOMAIN seqs[i] = 1..Len(seqs[i]) /\ Len(seqs[i]) \in Nat
      BY <2>1
    <2>3. ASSUME NEW j \in DOMAIN seqs[i]
          PROVE  seqs[i][j] \in T
      <3>1. PICK t : t = seqs[i][j]
        OBVIOUS
      <3>2. t \in Written(f.rows[i], W)
        BY <2>1, <2>2, <3>1
      <3>3. Allows(t)
        BY <1>2, <3>2 DEF Written
      <3>4. t \in all
        BY <1>6, <3>1
      <3> QED
        BY <1>7, <3>1, <3>3, <3>4
    <2>4. PICK one : one = seqs[i]
      OBVIOUS
    <2>5. one = [j \in 1..Len(one) |-> one[j]]
      BY <2>1, <2>4
    <2>6. one \in [1..Len(one) -> T]
      BY <2>2, <2>3, <2>4, <2>5
    <2> QED
      BY <2>2, <2>4, <2>6
  <1>10. FlattenSeq(seqs) \in Seq(T)
    BY <1>2, <1>9, Flattened
  <1>11. p \in Seq(T) /\ q \in Seq(T) /\ r \in Seq(T)
    <2>1. p \in Seq({a}) /\ q \in Seq({b}) /\ r \in Seq({c})
      BY <1>4, WhenIsSeq
    <2>2. {a} \subseteq T /\ {b} \subseteq T /\ {c} \subseteq T
      BY <1>8
    <2> QED
      BY <2>1, <2>2, SeqMonotonic, Zenon
  <1>12. p \o FlattenSeq(seqs) \in Seq(T)
    BY <1>10, <1>11, ConcatProperties, Zenon
  <1>13. p \o FlattenSeq(seqs) \o q \in Seq(T)
    BY <1>11, <1>12, ConcatProperties, Zenon
  <1>14. built \in Seq(T)
    BY <1>5, <1>11, <1>13, ConcatProperties, Zenon
  <1>15. Len(built) \in Nat /\ DOMAIN built = 1..Len(built) /\ \A n \in 1..Len(built) : built[n] \in T
    BY <1>14
  <1> QED
    BY <1>7, <1>15
-----------------------------------------------------------------------------
\* The inductive invariant of the table editor.
EditorInv ==
    /\ IsTable(table)
    /\ IsSeq(form.rows) /\ DOMAIN form = {"rows", "renamed"}
    /\ others \in Nat
    /\ stage = "applying" => \E detail : script = BuildStatements(detail, form)
    /\ others = 0 /\ stage \in {"confirming", "applying"} =>
            shown = BuildStatements(TableDetail(table), form)
    /\ others = 0 /\ stage = "applying" => script = shown

\* The form has one row for each of the columns that table_detail joined.
LEMMA FormIsSeq ==
    ASSUME NEW columns, IsTable(columns), NEW f, f = UntouchedForm(columns)
    PROVE  IsSeq(f.rows) /\ DOMAIN f = {"rows", "renamed"}
  <1>1. DOMAIN columns = 1..Len(columns) /\ Len(columns) \in Nat
    BY DEF IsTable, IsSeq
  <1>2. PICK S : columns \in Seq(S)
    BY DEF IsTable, IsSeq
  <1>3. PICK seqs : seqs = [i \in DOMAIN columns |->
                              [k \in 1..(IF columns[i].fks > 1 THEN columns[i].fks ELSE 1) |-> columns[i]]]
    OBVIOUS
  <1>4. IsSeq(seqs) /\ DOMAIN seqs = DOMAIN columns
    BY <1>1, <1>3, Listing
  <1>5. ASSUME NEW i \in DOMAIN seqs
        PROVE  seqs[i] \in Seq(S)
    <2>1. PICK m \in Nat, c \in S : seqs[i] = [k \in 1..m |-> c]
      BY <1>1, <1>2, <1>3, <1>4 DEF IsTable
    <2> QED
      BY <2>1
  <1>6. PICK detail : detail = TableDetail(columns)
    OBVIOUS
  <1>7. detail \in Seq(S)
    BY <1>3, <1>4, <1>5, <1>6, Flattened DEF TableDetail
  <1>8. f = [rows |-> [i \in DOMAIN detail |-> FormRow(detail[i])], renamed |-> FALSE]
    BY <1>6, Zenon DEF UntouchedForm
  <1>9. PICK rows : rows = [i \in DOMAIN detail |-> FormRow(detail[i])]
    OBVIOUS
  <1>10. IsSeq(rows)
    <2>1. DOMAIN detail = 1..Len(detail) /\ Len(detail) \in Nat
      BY <1>7
    <2>2. rows = [i \in 1..Len(detail) |-> rows[i]]
      BY <1>9, <2>1
    <2> QED
      BY <2>1, <2>2, Listing
  <1> QED
    BY <1>8, <1>9, <1>10

\* A user's change of the form leaves a list of rows.
LEMMA EditKept ==
    ASSUME EditorInv, NEW rows, IsSeq(rows), Edited(rows)
    PROVE  EditorInv'
  <1>1. /\ stage = "editing" /\ UNCHANGED <<table, stage, others>>
        /\ form' = [form EXCEPT !.rows = rows]
    BY DEF Edited
  <1>2. form'.rows = rows /\ DOMAIN form' = {"rows", "renamed"}
    BY <1>1 DEF EditorInv
  <1>3. IsTable(table)' /\ IsSeq(form.rows)'
    BY <1>1, <1>2 DEF EditorInv, IsTable, IsSeq
  <1> QED
    BY <1>1, <1>2, <1>3 DEF EditorInv

LEMMA RowsStaySeq ==
    ASSUME NEW rows, IsSeq(rows)
    PROVE  /\ \A i \in DOMAIN rows : IsSeq(RemoveAt(rows, i))
           /\ \A K : K = [k \in DOMAIN rows |-> K[k]] => IsSeq(K)
           /\ \A row : IsSeq(Append(rows, row))
  <1>1. PICK S : rows \in Seq(S)
    BY DEF IsSeq
  <1>2. DOMAIN rows = 1..Len(rows) /\ Len(rows) \in Nat
    BY <1>1
  <1>3. ASSUME NEW i \in DOMAIN rows
        PROVE  IsSeq(RemoveAt(rows, i))
    <2>1. SubSeq(rows, 1, i - 1) \in Seq(S) /\ SubSeq(rows, i + 1, Len(rows)) \in Seq(S)
      BY <1>1, <1>2
    <2>2. RemoveAt(rows, i) \in Seq(S)
      BY <2>1, ConcatProperties, Zenon DEF RemoveAt
    <2> QED
      BY <2>2 DEF IsSeq
  <1>4. \A K : K = [k \in DOMAIN rows |-> K[k]] => IsSeq(K)
    BY <1>2, Listing
  <1>5. ASSUME NEW row
        PROVE  IsSeq(Append(rows, row))
    <2>1. rows \in Seq(S \cup {row})
      BY <1>1
    <2>2. Append(rows, row) \in Seq(S \cup {row})
      BY <2>1
    <2> QED
      BY <2>2 DEF IsSeq
  <1> QED
    BY <1>3, <1>4, <1>5

LEMMA EditorInit == AlterAssumption /\ FormInit => EditorInv
  <1> SUFFICES ASSUME AlterAssumption, FormInit PROVE EditorInv
    OBVIOUS
  <1>1. PICK C : C = [id : STRING \X STRING, name : STRING, type : STRING, nullable : BOOLEAN,
                      default : STRING, pk : Nat, fks : Nat]
    OBVIOUS
  <1>2. IsTable(table)
    <2>1. table \in Seq(C)
      BY <1>1 DEF AlterAssumption, FormInit
    <2>2. \A i \in DOMAIN table : table[i] \in C
      BY <2>1
    <2>3. \A c \in C : DOMAIN c = ColumnParts /\ c.fks \in Nat
      BY <1>1 DEF ColumnParts
    <2> QED
      BY <2>1, <2>2, <2>3 DEF IsTable, IsSeq
  <1>3. form = [rows |-> <<>>, renamed |-> FALSE] /\ others = 0 /\ stage = "closed"
    BY DEF FormInit
  <1>4. IsSeq(<<>>)
    BY EmptySeq, Zenon DEF IsSeq
  <1> QED
    BY <1>2, <1>3, <1>4 DEF EditorInv
LEMMA ApplyKept ==
    ASSUME EditorInv, Apply
    PROVE  EditorInv'
  <1>1. stage = "applying" /\ stage' \in {"closed", "editing"} /\ UNCHANGED <<form, others>>
    BY DEF Apply
  <1>2. IsTable(table')
    <2>1. PICK detail : script = BuildStatements(detail, form)
      BY <1>1 DEF EditorInv
    <2>2. Len(script) \in Nat
      BY <2>1, ScriptWrites DEF EditorInv
    <2>3. CASE Transact(table, script).ok
      <3>1. table' = Transact(table, script).columns
        BY <2>3 DEF Apply
      <3> QED
        BY <2>2, <2>3, <3>1, RunSpares DEF EditorInv
    <2>4. CASE ~Transact(table, script).ok
      <3>1. table' = table
        BY <2>4 DEF Apply
      <3> QED
        BY <3>1 DEF EditorInv
    <2> QED
      BY <2>3, <2>4
  <1>3. IsTable(table)' /\ IsSeq(form.rows)'
    BY <1>1, <1>2 DEF EditorInv, IsTable, IsSeq
  <1> QED
    BY <1>1, <1>3 DEF EditorInv

LEMMA OtherSessionKept ==
    ASSUME EditorInv, OtherSession
    PROVE  EditorInv'
  <1>1. /\ others' = others + 1 /\ UNCHANGED <<stage, form, script>>
        /\ \E s : Allowed(table, s) /\ table' = Executed(table, s)
    BY DEF OtherSession
  <1>2. IsTable(table')
    BY <1>1, StatementSpares DEF EditorInv
  <1>3. IsTable(table)' /\ IsSeq(form.rows)'
    BY <1>1, <1>2 DEF EditorInv, IsTable, IsSeq
  <1>4. \A detail : BuildStatements(detail, form)' = BuildStatements(detail, form')
    OBVIOUS
  <1> QED
    BY <1>1, <1>3, <1>4 DEF EditorInv

LEMMA EditorNext == EditorInv /\ [FormNext]_formVars => EditorInv'
  <1> SUFFICES ASSUME EditorInv, [FormNext]_formVars PROVE EditorInv'
    OBVIOUS
  <1>1. CASE OpenForm
    <2>1. /\ form' = UntouchedForm(table) /\ stage' = "editing" /\ UNCHANGED <<table, others>>
      BY <1>1 DEF OpenForm
    <2>2. IsSeq(form'.rows) /\ DOMAIN form' = {"rows", "renamed"}
      BY <2>1, FormIsSeq DEF EditorInv
    <2>3. IsTable(table)' /\ IsSeq(form.rows)'
      BY <2>1, <2>2 DEF EditorInv, IsTable, IsSeq
    <2> QED
      BY <2>1, <2>2, <2>3 DEF EditorInv
  <1>2. CASE AddColumn
    BY <1>2, EditKept, RowsStaySeq DEF AddColumn, EditorInv
  <1>3. CASE EditRow
    <2>1. PICK i \in DOMAIN form.rows : \E row : Edited([form.rows EXCEPT ![i] = row])
      BY <1>3, Zenon DEF EditRow
    <2>2. PICK row : Edited([form.rows EXCEPT ![i] = row])
      BY <2>1
    <2>3. PICK rows : rows = [form.rows EXCEPT ![i] = row]
      OBVIOUS
    <2>4. rows = [k \in DOMAIN form.rows |-> rows[k]]
      BY <2>3
    <2> QED
      BY <2>2, <2>3, <2>4, EditKept, RowsStaySeq DEF EditorInv
  <1>4. CASE RemoveRow
    <2>1. \E rows : /\ Edited(rows)
                    /\ \/ rows = [k \in DOMAIN form.rows |-> rows[k]]
                       \/ \E i \in DOMAIN form.rows : rows = RemoveAt(form.rows, i)
      BY <1>4 DEF RemoveRow
    <2> QED
      BY <2>1, EditKept, RowsStaySeq DEF EditorInv
  <1>5. CASE RenameTable
    <2>1. /\ stage = "editing" /\ UNCHANGED <<table, stage, others>>
          /\ form' = [form EXCEPT !.renamed = TRUE]
      BY <1>5 DEF RenameTable
    <2>2. form'.rows = form.rows /\ DOMAIN form' = {"rows", "renamed"}
      BY <2>1 DEF EditorInv
    <2>3. IsTable(table)' /\ IsSeq(form.rows)'
      BY <2>1, <2>2 DEF EditorInv, IsTable, IsSeq
    <2> QED
      BY <2>1, <2>2, <2>3 DEF EditorInv
  <1>6. CASE Preview
    <2>1. /\ stage' \in {"editing", "confirming"} /\ UNCHANGED <<table, form, others>>
          /\ stage' = "confirming" => shown' = BuildStatements(TableDetail(table), form)
      BY <1>6 DEF Preview
    <2>2. IsTable(table)' /\ IsSeq(form.rows)'
      BY <2>1 DEF EditorInv, IsTable, IsSeq
    <2> QED
      BY <2>1, <2>2 DEF EditorInv
  <1>7. CASE Cancel
    <2>1. stage' = "editing" /\ UNCHANGED <<table, form, others>>
      BY <1>7 DEF Cancel
    <2>2. IsTable(table)' /\ IsSeq(form.rows)'
      BY <2>1 DEF EditorInv, IsTable, IsSeq
    <2> QED
      BY <2>1, <2>2 DEF EditorInv
  <1>8. CASE StartApply
    <2>1. /\ stage = "confirming" /\ stage' \in {"editing", "applying"}
          /\ UNCHANGED <<table, form, shown, others>>
          /\ stage' = "applying" => script' = BuildStatements(TableDetail(table), form)
      BY <1>8 DEF StartApply
    <2>2. IsTable(table)' /\ IsSeq(form.rows)'
      BY <2>1 DEF EditorInv, IsTable, IsSeq
    <2> QED
      BY <2>1, <2>2 DEF EditorInv
  <1>9. CASE UNCHANGED formVars
    <2>1. UNCHANGED <<table, stage, form, shown, script, others>>
      BY <1>9 DEF formVars
    <2>2. IsTable(table)' /\ IsSeq(form.rows)'
      BY <2>1 DEF EditorInv, IsTable, IsSeq
    <2> QED
      BY <2>1, <2>2 DEF EditorInv
  <1> QED
    BY <1>1, <1>2, <1>3, <1>4, <1>5, <1>6, <1>7, <1>8, <1>9, ApplyKept, OtherSessionKept DEF FormNext
\* For every table, form and change by other sessions: an application takes away
\* only columns that have the name of a row the user marked.
THEOREM OnlyMarkedAreDropped == FormSpec => OnlyMarkedColumnsAreDropped
  <1>1. EditorInv /\ [FormNext]_formVars =>
          \A c \in ToSet(table) :
            (/\ answer' = "applied" /\ answer # "applied" /\ NamesStayApart
             /\ ~\E d \in ToSet(table') : d.id = c.id)
                => \E r \in ToSet(form.rows) : r.original = c.name /\ r.removed
    <2> SUFFICES ASSUME EditorInv, [FormNext]_formVars, NEW c \in ToSet(table),
                        answer' = "applied", answer # "applied", NamesStayApart,
                        ~\E d \in ToSet(table') : d.id = c.id
                 PROVE  \E r \in ToSet(form.rows) : r.original = c.name /\ r.removed
      OBVIOUS
    <2>1. Apply
      BY DEF FormNext, formVars, OpenForm, AddColumn, EditRow, RemoveRow,
             Edited, RenameTable, Preview, Cancel, StartApply,
             OtherSession
    <2>2. stage = "applying" /\ Transact(table, script).ok /\ table' = Transact(table, script).columns
      BY <2>1 DEF Apply
    <2>3. PICK Marked : Marked = {form.rows[i].original : i \in {j \in DOMAIN form.rows : form.rows[j].removed}}
      OBVIOUS
    <2>4. PICK detail : script = BuildStatements(detail, form)
      BY <2>2 DEF EditorInv
    <2>5. IsTable(table) /\ IsSeq(form.rows)
      BY DEF EditorInv
    <2>6. /\ Len(script) \in Nat
          /\ \A n \in 1..Len(script) :
                /\ script[n].do = "drop" =>
                       \E i \in DOMAIN form.rows : form.rows[i].removed /\ form.rows[i].original = script[n].column
                /\ script[n].do = "rename" =>
                       \E i \in DOMAIN form.rows : ~form.rows[i].removed /\ form.rows[i].name = script[n].to
      BY <2>4, <2>5, ScriptWrites
    <2>7. \A i, j \in DOMAIN form.rows : ~form.rows[i].removed /\ form.rows[j].removed
                => form.rows[i].name # form.rows[j].original
      BY DEF NamesStayApart, ToSet
    <2>8. \A n \in 1..Len(script) : Sparing(script[n], Marked, FALSE)
      BY <2>3, <2>6, <2>7 DEF Sparing
    <2>9. Spared(Marked, FALSE, table, table')
      BY <2>2, <2>5, <2>6, <2>8, RunSpares
    <2>10. PICK i \in DOMAIN table : table[i] = c
      BY DEF ToSet
    <2>11. c.name \in Marked
      BY <2>9, <2>10 DEF Spared, ToSet
    <2> QED
      BY <2>3, <2>11 DEF ToSet
  <1> QED
    BY AlterAssumption, <1>1, EditorInit, EditorNext, PTL DEF FormSpec, OnlyMarkedColumnsAreDropped

\* For every table and form, and no other session: an application takes away a
\* column or converts its values only when the script the user confirmed was
\* announced as destructive.
THEOREM LossesAreConfirmed == FormSpec => LossIsConfirmed
  <1>1. EditorInv /\ [FormNext]_formVars =>
          (others = 0 /\ answer' = "applied" /\ answer # "applied" /\ Loses => Destructive(shown))
    <2> SUFFICES ASSUME EditorInv, [FormNext]_formVars, others = 0,
                        answer' = "applied", answer # "applied", ~Destructive(shown)
                 PROVE  ~Loses
      OBVIOUS
    <2>1. Apply
      BY DEF FormNext, formVars, OpenForm, AddColumn, EditRow, RemoveRow,
             Edited, RenameTable, Preview, Cancel, StartApply,
             OtherSession
    <2>2. stage = "applying" /\ Transact(table, script).ok /\ table' = Transact(table, script).columns
      BY <2>1 DEF Apply
    <2>3. IsTable(table) /\ IsSeq(form.rows) /\ script = shown
      BY <2>2 DEF EditorInv
    <2>4. PICK detail : script = BuildStatements(detail, form)
      BY <2>2 DEF EditorInv
    <2>5. Len(script) \in Nat /\ DOMAIN script = 1..Len(script)
      BY <2>3, <2>4, ScriptWrites
    <2>6. \A n \in 1..Len(script) : Sparing(script[n], {}, TRUE)
      BY <2>3, <2>5 DEF Sparing, Destructive
    <2>7. Spared({}, TRUE, table, table')
      BY <2>2, <2>3, <2>5, <2>6, RunSpares
    <2> QED
      BY <2>7 DEF Spared, Loses, ToSet
  <1> QED
    BY AlterAssumption, <1>1, EditorInit, EditorNext, PTL DEF FormSpec, LossIsConfirmed
=============================================================================
