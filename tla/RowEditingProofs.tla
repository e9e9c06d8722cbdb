-------------------------- MODULE RowEditingProofs --------------------------
(***************************************************************************)
(* An operation reported as done changed the one row the user meant,       *)
(* whatever other sessions did since the page was read: the statement's    *)
(* predicate names a key, the rows it hit are counted, and no two rows     *)
(* have one identity.  And a panel at rest shows its page of the table,    *)
(* whatever requests overlap and fail, unless the table was changed behind *)
(* its back since: for every table, its children included, every number of *)
(* other sessions and every size of the page.                              *)
(***************************************************************************)
EXTENDS RowEditing, FiniteSetTheorems, TLAPS

OpSteps == {"asked", "checked", "answered"}
ValueUpdates == [kind : {"update"}, step : OpSteps, row : TableRow, column : {"value"}, to : Values]
KeyUpdates   == [kind : {"update"}, step : OpSteps, row : TableRow, column : {"key"}, to : Keys]
Deletions    == [kind : {"delete"}, step : OpSteps, row : TableRow, last : BOOLEAN]
Insertions   == [kind : {"insert"}, step : OpSteps, key : Keys, value : Values]
Operations   == ValueUpdates \cup KeyUpdates \cup Deletions \cup Insertions

Loads ==
    {NoLoad} \cup [step : {"metadata"}, offset : Nat]
    \cup [step : {"count"}, offset : Nat, keyed : BOOLEAN]
    \cup [step : {"rows"}, offset : Nat, keyed : BOOLEAN, total : Nat]

Pages == [rows : Seq(TableRow), total : Nat, keyed : BOOLEAN, failed : BOOLEAN, next : BOOLEAN, previous : BOOLEAN]

\* What every variable holds.
Types ==
    /\ visit \in Visits
    /\ keyed \in BOOLEAN /\ loading \in BOOLEAN
    /\ page \in Pages
    /\ offset \in Nat /\ unseen \in BOOLEAN
    /\ load \in Loads
    /\ op \in [Requests -> {NoOp} \cup Operations]
    /\ DOMAIN answer = Requests

\* A set of rows no two of which have one identity.
Distinct(S) ==
    /\ S \subseteq TableRow /\ IsFiniteSet(S)
    /\ \A r, q \in S : r.id = q.id => r = q

\* An identity is given once: the next one is that of no row.
Identified ==
    /\ Distinct(rows)
    /\ IsFiniteSet(used) /\ used = 1..Cardinality(used)
    /\ \A r \in rows : r.id \in used

-----------------------------------------------------------------------------
\* A change was made that the panel is about to be told of.
Pending == \E q \in Requests : op[q] # NoOp /\ op[q].step = "answered" /\ answer[q].end = "done"

PageLength ==
    IF offset < Cardinality(rows) THEN Fewer(PageSize, Cardinality(rows) - offset) ELSE 0

\* The grid shows the page at the offset.
PageCurrent ==
    /\ page.total = Cardinality(rows) /\ page.keyed = keyed
    /\ Len(page.rows) = PageLength
    /\ \A i \in 1..Len(page.rows) :
          /\ page.rows[i] \in rows
          /\ keyed => /\ Cardinality({r \in rows : r.key < page.rows[i].key}) <= offset + i - 1
                      /\ offset + i <= Cardinality({r \in rows : r.key <= page.rows[i].key})

\* What a load has read is so, and what the last one has shown.
Fresh ==
    /\ load.step \in {"count", "rows"} => load.keyed = keyed
    /\ load.step = "rows" => load.total = Cardinality(rows)
    /\ load = NoLoad /\ ~page.failed => PageCurrent

\* The inductive invariant of the panel.
PanelInv ==
    /\ load # NoLoad => load.offset = offset
    /\ ~unseen /\ ~Pending => Fresh

-----------------------------------------------------------------------------
\* What the kind of an operation says of its fields.
LEMMA OperationFields ==
    ASSUME NEW o \in {NoOp} \cup Operations
    PROVE  /\ o # NoOp <=> o \in Operations
           /\ o \in Operations => o.kind \in {"update", "delete", "insert"} /\ o.step \in OpSteps
           /\ o = NoOp => o.kind = "none"
           /\ o.kind = "update" => o \in ValueUpdates \cup KeyUpdates
           /\ o.kind = "delete" => o \in Deletions
           /\ o.kind = "insert" => o \in Insertions
<1>1. NoOp.kind = "none" BY DEF NoOp
<1>2. \A p \in ValueUpdates \cup KeyUpdates : p.kind = "update" /\ p.step \in OpSteps
    BY DEF ValueUpdates, KeyUpdates
<1>3. \A p \in Deletions : p.kind = "delete" /\ p.step \in OpSteps BY DEF Deletions
<1>4. \A p \in Insertions : p.kind = "insert" /\ p.step \in OpSteps BY DEF Insertions
<1>5. QED BY <1>1, <1>2, <1>3, <1>4 DEF Operations

\* The step of an operation goes on and the rest of it stays.
LEMMA OperationMoved ==
    ASSUME NEW o \in Operations, NEW step \in OpSteps
    PROVE  [o EXCEPT !.step = step] \in Operations /\ [o EXCEPT !.step = step].step = step
<1>1. CASE o \in ValueUpdates
    BY <1>1 DEF ValueUpdates, OpSteps, Operations
<1>2. CASE o \in KeyUpdates
    BY <1>2 DEF KeyUpdates, OpSteps, Operations
<1>3. CASE o \in Deletions
    BY <1>3 DEF Deletions, OpSteps, Operations
<1>4. CASE o \in Insertions
    BY <1>4 DEF Insertions, OpSteps, Operations
<1>5. QED BY <1>1, <1>2, <1>3, <1>4 DEF Operations

LEMMA OperationsMade ==
    /\ \A r \in TableRow, v \in Values :
          [kind |-> "update", step |-> "asked", row |-> r, column |-> "value", to |-> v] \in Operations
    /\ \A r \in TableRow, k \in Keys :
          [kind |-> "update", step |-> "asked", row |-> r, column |-> "key", to |-> k] \in Operations
    /\ \A r \in TableRow, b \in BOOLEAN :
          [kind |-> "delete", step |-> "asked", row |-> r, last |-> b] \in Operations
    /\ \A k \in Keys, v \in Values :
          [kind |-> "insert", step |-> "asked", key |-> k, value |-> v] \in Operations
BY DEF Operations, ValueUpdates, KeyUpdates, Deletions, Insertions, OpSteps

\* A row with the cell an update changes.
Changed(r, o) == [r EXCEPT ![o.column] = o.to]
AllChanged(hit, o) == {Changed(r, o) : r \in hit}

\* A changed cell leaves a row of the table, with its identity.
LEMMA RowChanged ==
    ASSUME NEW r \in TableRow, NEW o \in ValueUpdates \cup KeyUpdates
    PROVE  /\ Changed(r, o) \in TableRow
           /\ Changed(r, o).id = r.id
           /\ Changed(r, o).child = r.child
<1>1. CASE o \in ValueUpdates
    <2>1. o.column = "value" /\ o.to \in Values BY <1>1 DEF ValueUpdates
    <2>2. Changed(r, o) = [r EXCEPT !.value = o.to] BY <2>1 DEF Changed
    <2>3. QED BY <2>1, <2>2 DEF TableRow
<1>2. CASE o \in KeyUpdates
    <2>1. o.column = "key" /\ o.to \in Keys BY <1>2 DEF KeyUpdates
    <2>2. Changed(r, o) = [r EXCEPT !.key = o.to] BY <2>1 DEF Changed
    <2>3. QED BY <2>1, <2>2 DEF TableRow
<1>3. QED BY <1>1, <1>2

\* What a page is cut from: the rows, each once.
LEMMA OrderIsSeq ==
    ASSUME NEW b, NEW s \in Orders(b), Identified
    PROVE  /\ Cardinality(rows) \in Nat
           /\ s \in [1..Cardinality(rows) -> rows]
           /\ s \in Seq(TableRow) /\ Len(s) = Cardinality(rows)
           /\ \A i, j \in 1..Cardinality(rows) : i # j => s[i] # s[j]
           /\ b => \A i, j \in 1..Cardinality(rows) : i < j => s[i].key <= s[j].key
<1>1. Cardinality(rows) \in Nat BY FS_CardinalityType DEF Identified, Distinct
<1>2. s \in SetToSeqs(rows) BY DEF Orders
<1>3. /\ s \in [1..Cardinality(rows) -> rows]
      /\ \A i, j \in 1..Cardinality(rows) : i # j => s[i] # s[j]
    BY <1>2 DEF SetToSeqs
<1>4. b => \A i, j \in DOMAIN s : i < j => s[i].key <= s[j].key BY DEF Orders
<1>5. s \in Seq(TableRow) /\ Len(s) = Cardinality(rows)
    BY <1>1, <1>3 DEF Identified, Distinct
<1>6. QED BY <1>1, <1>3, <1>4, <1>5

\* The page a load shows.
LEMMA ShownPart ==
    ASSUME NEW b, NEW s \in Orders(b), Identified, NEW m \in Nat
    PROVE  /\ PageOf(s, m) \in Seq(TableRow)
           /\ \A i \in 1..Len(PageOf(s, m)) :
                 m + i \in 1..Cardinality(rows) /\ PageOf(s, m)[i] = s[m + i]
           /\ Len(PageOf(s, m)) = IF m < Cardinality(rows) THEN Fewer(PageSize, Cardinality(rows) - m) ELSE 0
<1>1. PageSize \in Nat \ {0} BY RowAssumption
<1>2. PICK n \in Nat : n = IF m + PageSize < Len(s) THEN m + PageSize ELSE Len(s)
    BY <1>1, OrderIsSeq
<1>3. n <= Len(s) /\ s \in Seq(TableRow) /\ Len(s) = Cardinality(rows)
    BY <1>1, <1>2, OrderIsSeq
<1>4. PageOf(s, m) = SubSeq(s, m + 1, n) BY <1>2 DEF PageOf
<1>5. PageOf(s, m) \in Seq(TableRow) BY <1>3, <1>4
<1>6. Len(PageOf(s, m)) = IF m <= n THEN n - m ELSE 0
    BY <1>3, <1>4
<1>7. ASSUME NEW i \in 1..Len(PageOf(s, m))
      PROVE  m + i \in 1..n /\ PageOf(s, m)[i] = s[m + i]
    <2>1. i \in 1..(n - m) BY <1>6
    <2>2. SubSeq(s, m + 1, n)[i] = s[m + i] BY <1>3, <2>1
    <2>3. m + i \in 1..n BY <2>1
    <2>4. QED BY <1>4, <2>2, <2>3, Zenon
<1>8. Len(PageOf(s, m)) = IF m < Cardinality(rows) THEN Fewer(PageSize, Cardinality(rows) - m) ELSE 0
    BY <1>1, <1>2, <1>3, <1>6, OrderIsSeq DEF Fewer
<1>9. QED BY <1>3, <1>5, <1>7, <1>8, OrderIsSeq

-----------------------------------------------------------------------------
LEMMA TypesInit == Init => Types
<1> SUFFICES ASSUME Init PROVE Types
    OBVIOUS
<1>1. page \in Pages
    <2>1. <<>> \in Seq(TableRow) OBVIOUS
    <2>2. QED BY <2>1 DEF Init, Pages
<1>2. load \in Loads BY DEF Init, Loads, Loaded
<1>3. op \in [Requests -> {NoOp} \cup Operations] BY DEF Init
<1>4. QED BY <1>1, <1>2, <1>3 DEF Init, Types

\* A load that starts.
LEMMA LoadedIsLoad == \A n \in Nat : Loaded(n) \in Loads
BY DEF Loads, Loaded

\* The answer of a request arrives, and the rest is as it was.
LEMMA AnsweredTyped ==
    ASSUME Types, NEW q \in Requests, op[q] # NoOp, NEW outcome, Answered(q, outcome)
    PROVE  /\ op' \in [Requests -> {NoOp} \cup Operations] /\ DOMAIN answer' = Requests
           /\ op'[q] \in Operations /\ op'[q].step = "answered" /\ answer'[q] = outcome
           /\ \A p \in Requests : p # q => op'[p] = op[p] /\ answer'[p] = answer[p]
           /\ UNCHANGED <<visit, keyed, page, offset, loading, load, ops, others>>
<1>1. op[q] \in Operations BY OperationFields DEF Types
<1>2. PICK o : o = [op[q] EXCEPT !.step = "answered"] OBVIOUS
<1>3. o \in Operations /\ o.step = "answered" BY <1>1, <1>2, OperationMoved DEF OpSteps
<1>4. op' = [op EXCEPT ![q] = o] BY <1>2 DEF Answered
<1>5. QED BY <1>3, <1>4 DEF Answered, Types

LEMMA TypesNext == Types /\ Identified /\ [Next]_vars => Types'
<1> SUFFICES ASSUME Types, Identified, [Next]_vars PROVE Types'
    OBVIOUS
<1> USE DEF Types
<1>1. CASE ReadMetadata
    <2>1. load.offset \in Nat
        BY <1>1 DEF ReadMetadata, Loads, NoLoad
    <2>2. load' \in Loads
        BY <1>1, <2>1 DEF ReadMetadata, Loads
    <2>3. QED BY <1>1, <2>2 DEF ReadMetadata
<1>2. CASE CountRows
    <2>1. load.offset \in Nat /\ load.keyed \in BOOLEAN
        BY <1>2 DEF CountRows, Loads, NoLoad
    <2>2. Cardinality(rows) \in Nat BY FS_CardinalityType DEF Identified, Distinct
    <2>3. load' \in Loads
        BY <1>2, <2>1, <2>2 DEF CountRows, Loads
    <2>4. QED BY <1>2, <2>3 DEF CountRows
<1>3. CASE ShowPage
    <2>1. load.offset \in Nat /\ load.keyed \in BOOLEAN /\ load.total \in Nat
        BY <1>3 DEF ShowPage, Loads, NoLoad
    <2>2. PICK s \in Orders(load.keyed) :
              page' = [rows |-> PageOf(s, load.offset), total |-> load.total, keyed |-> load.keyed, failed |-> FALSE,
                       next |-> offset + Len(PageOf(s, load.offset)) < load.total, previous |-> offset > 0]
        BY <1>3 DEF ShowPage
    <2>3. PICK shown : shown = PageOf(s, load.offset) OBVIOUS
    <2>4. shown \in Seq(TableRow) BY <2>1, <2>3, ShownPart
    <2>5. (offset + Len(shown) < load.total) \in BOOLEAN /\ (offset > 0) \in BOOLEAN BY <2>1, <2>4
    <2>6. page' = [rows |-> shown, total |-> load.total, keyed |-> load.keyed, failed |-> FALSE,
                   next |-> offset + Len(shown) < load.total, previous |-> offset > 0]
        BY <2>2, <2>3
    <2>7. page' \in Pages BY <2>1, <2>4, <2>5, <2>6 DEF Pages
    <2>8. load' \in Loads BY <1>3 DEF ShowPage, Loads
    <2>9. QED BY <1>3, <2>7, <2>8 DEF ShowPage
<1>4. CASE FailLoad
    <2>1. page' = [page EXCEPT !.rows = <<>>, !.keyed = FALSE, !.failed = TRUE] BY <1>4 DEF FailLoad
    <2>2. <<>> \in Seq(TableRow) OBVIOUS
    <2>3. page' \in Pages BY <2>1, <2>2 DEF Pages
    <2>4. QED BY <1>4, <2>3 DEF FailLoad, Loads
<1>5. CASE Turn
    <2>1. offset' \in Nat BY <1>5, RowAssumption DEF Turn
    <2>2. load' \in Loads BY <1>5, <2>1, LoadedIsLoad DEF Turn
    <2>3. QED BY <1>5, <2>1, <2>2 DEF Turn
<1>6. CASE OtherSession
    <2>1. keyed' \in BOOLEAN BY <1>6 DEF OtherSession
    <2>2. /\ UNCHANGED <<visit, page, offset, loading, load, op, answer, ops, fails>>
          /\ unseen' = TRUE
        BY <1>6 DEF OtherSession
    <2>3. QED BY <2>1, <2>2
<1>7. ASSUME NEW q \in Requests, NEW o \in Operations, Ask(q, o) PROVE Types'
    <2>1. op' \in [Requests -> {NoOp} \cup Operations] BY <1>7 DEF Ask
    <2>2. DOMAIN answer' = Requests BY <1>7 DEF Ask
    <2>3. QED BY <1>7, <2>1, <2>2 DEF Ask
<1>8. \A r \in ToSet(page.rows) : r \in TableRow BY DEF ToSet, Pages
<1>9. ASSUME NEW q \in Requests, EditCell(q) PROVE Types'
    BY <1>7, <1>8, <1>9, OperationsMade DEF EditCell
<1>10. ASSUME NEW q \in Requests, DeleteRow(q) PROVE Types'
    BY <1>7, <1>8, <1>10, OperationsMade DEF DeleteRow
<1>11. ASSUME NEW q \in Requests, InsertRow(q) PROVE Types'
    BY <1>7, <1>11, OperationsMade DEF InsertRow
<1>12. ASSUME NEW q \in Requests, op[q] # NoOp, NEW outcome, Answered(q, outcome), unseen' \in BOOLEAN
       PROVE  Types'
    BY <1>12, AnsweredTyped
<1>13. ASSUME NEW q \in Requests, CheckKeys(q) PROVE Types'
    <2>1. op[q] \in Operations /\ op[q] # NoOp BY <1>13, OperationFields DEF CheckKeys
    <2>2. CASE /\ op' = [op EXCEPT ![q].step = "checked"]
               /\ UNCHANGED <<visit, keyed, page, offset, loading, load, answer, ops, others>>
        <3>1. op' = [op EXCEPT ![q] = [op[q] EXCEPT !.step = "checked"]] BY <2>2
        <3>2. op' \in [Requests -> {NoOp} \cup Operations] BY <2>1, <3>1, OperationMoved DEF OpSteps
        <3>3. QED BY <1>13, <2>2, <3>2 DEF CheckKeys
    <2>3. CASE Answered(q, Failure({}))
        BY <1>12, <1>13, <2>1, <2>3 DEF CheckKeys
    <2>4. QED BY <1>13, <2>2, <2>3 DEF CheckKeys
<1>14. ASSUME NEW q \in Requests, RunStatement(q) PROVE Types'
    <2>1. op[q] # NoOp /\ unseen' \in BOOLEAN BY <1>14 DEF RunStatement
    <2>2. PICK outcome : Answered(q, outcome) BY <1>14 DEF RunStatement
    <2>3. QED BY <1>12, <2>1, <2>2
<1>15. ASSUME NEW q \in Requests, LoseRequest(q) PROVE Types'
    <2>1. op[q] # NoOp /\ unseen' \in BOOLEAN BY <1>15 DEF LoseRequest
    <2>2. PICK outcome : Answered(q, outcome) BY <1>15 DEF LoseRequest
    <2>3. QED BY <1>12, <2>1, <2>2
<1>16. ASSUME NEW q \in Requests, TakeAnswer(q) PROVE Types'
    <2>1. UNCHANGED <<visit, rows, keyed, used, page, unseen, answer, ops, others, fails>>
        BY <1>16 DEF TakeAnswer
    <2>2. CASE Succeeded(q)
        <3>1. offset' \in Nat BY <2>2, RowAssumption DEF Succeeded
        <3>2. QED BY <2>1, <2>2, <3>1, LoadedIsLoad DEF Succeeded
    <2>3. CASE Refused(q)
        BY <2>1, <2>3 DEF Refused
    <2>4. QED BY <1>16, <2>2, <2>3 DEF TakeAnswer
<1>17. CASE UNCHANGED vars
    BY <1>17 DEF vars
<1>18. QED
    BY <1>1, <1>2, <1>3, <1>4, <1>5, <1>6, <1>9, <1>10, <1>11, <1>13, <1>14, <1>15, <1>16, <1>17 DEF Next

-----------------------------------------------------------------------------
\* Identities.  What a statement leaves of the rows is rows of the table, each
\* with an identity of its own.
LEMMA HitRemoved ==
    ASSUME NEW S, NEW hit \in SUBSET S, Distinct(S)
    PROVE  Distinct(S \ hit)
<1>1. IsFiniteSet(S \ hit) BY FS_Subset DEF Distinct
<1>2. QED BY <1>1 DEF Distinct

LEMMA HitChanged ==
    ASSUME NEW S, NEW hit \in SUBSET S, Distinct(S), NEW o \in ValueUpdates \cup KeyUpdates
    PROVE  /\ Distinct((S \ hit) \cup AllChanged(hit, o))
           /\ \A p \in AllChanged(hit, o) : \E r \in hit : p.id = r.id
<1>0. PICK new : new = AllChanged(hit, o) OBVIOUS
<1> DEFINE f == [r \in hit |-> Changed(r, o)]
<1>1. \A r \in hit : Changed(r, o) \in TableRow /\ Changed(r, o).id = r.id
    BY RowChanged DEF Distinct
<1>2. f \in Surjection(hit, new) BY <1>0 DEF Surjection, AllChanged
<1>3. IsFiniteSet(hit) /\ IsFiniteSet(S \ hit) BY FS_Subset DEF Distinct
<1>4. IsFiniteSet(new) BY <1>2, <1>3, FS_Surjection
<1>5. IsFiniteSet((S \ hit) \cup new) BY <1>3, <1>4, FS_Union
<1>6. \A p \in new : p \in TableRow /\ \E r \in hit : p = Changed(r, o) /\ p.id = r.id
    BY <1>0, <1>1 DEF AllChanged
<1>7. Distinct((S \ hit) \cup new)
    <2>1. (S \ hit) \cup new \subseteq TableRow BY <1>6 DEF Distinct
    <2>2. ASSUME NEW p \in (S \ hit) \cup new, NEW x \in (S \ hit) \cup new, p.id = x.id
          PROVE  p = x
        BY <1>6, <2>2 DEF Distinct
    <2>3. QED BY <1>5, <2>1, <2>2 DEF Distinct
<1>8. QED BY <1>0, <1>6, <1>7

LEMMA NewAdded ==
    ASSUME NEW S, Distinct(S), NEW r \in TableRow, \A p \in S : p.id # r.id
    PROVE  Distinct(S \cup {r})
<1>1. IsFiniteSet(S \cup {r}) BY FS_AddElement DEF Distinct
<1>2. QED BY <1>1 DEF Distinct

\* The next identity, and that it is used then.
LEMMA NextIdentity ==
    ASSUME Identified
    PROVE  /\ Cardinality(used) \in Nat
           /\ 1 + Cardinality(used) \notin used
           /\ IsFiniteSet(used \cup {1 + Cardinality(used)})
           /\ used \cup {1 + Cardinality(used)} = 1..Cardinality(used \cup {1 + Cardinality(used)})
<1>1. IsFiniteSet(used) /\ used = 1..Cardinality(used) BY DEF Identified
<1>2. Cardinality(used) \in Nat BY <1>1, FS_CardinalityType
<1>3. PICK n \in Nat : n = Cardinality(used) BY <1>2
<1>4. PICK x \in Nat : x = 1 + n BY <1>3
<1>5. x \notin used /\ used \cup {x} = 1..x BY <1>1, <1>3, <1>4
<1>6. IsFiniteSet(used \cup {x}) /\ Cardinality(used \cup {x}) = Cardinality(used) + 1
    BY <1>1, <1>5, FS_AddElement
<1>7. Cardinality(used \cup {x}) = x BY <1>3, <1>4, <1>6
<1>8. x = 1 + Cardinality(used) BY <1>3, <1>4
<1>9. QED BY <1>2, <1>5, <1>6, <1>7, <1>8, Zenon

LEMMA ResultIdentified ==
    ASSUME NEW q \in Requests, op[q] \in Operations, Identified
    PROVE  /\ Distinct(Result(q).after)
           /\ op[q].kind # "insert" => \A p \in Result(q).after : p.id \in used
           /\ op[q].kind = "insert" =>
                 \E r \in TableRow : /\ r.id = 1 + Cardinality(used) /\ r.key = op[q].key /\ ~r.child
                                     /\ Result(q) = [hit |-> {r}, after |-> rows \cup {r}]
           /\ op[q].kind = "delete" =>
                 Result(q) = [hit |-> Matching(op[q].row.key), after |-> rows \ Matching(op[q].row.key)]
           /\ op[q].kind = "update" =>
                 /\ Result(q).hit = Matching(op[q].row.key)
                 /\ Result(q).after = (rows \ Matching(op[q].row.key))
                        \cup AllChanged(Matching(op[q].row.key), op[q])
<1> DEFINE o == op[q]
           hit == Matching(o.row.key)
<1>0. hit \in SUBSET rows /\ Distinct(rows) BY DEF Matching, Identified
<1>1. CASE o.kind = "insert"
    <2>1. o \in Insertions BY <1>1, OperationFields
    <2> DEFINE r == [id |-> 1 + Cardinality(used), key |-> o.key, value |-> o.value, child |-> FALSE]
    <2>2. Cardinality(used) \in Nat /\ 1 + Cardinality(used) \notin used BY NextIdentity
    <2>3. r \in TableRow BY <2>1, <2>2 DEF TableRow, Insertions
    <2>4. Result(q) = [hit |-> {r}, after |-> rows \cup {r}] BY <1>1 DEF Result
    <2>5. \A p \in rows : p.id # r.id BY <2>2 DEF Identified
    <2>6. Distinct(rows \cup {r}) BY <1>0, <2>3, <2>5, NewAdded
    <2>7. r.id = 1 + Cardinality(used) /\ r.key = o.key /\ ~r.child OBVIOUS
    <2> HIDE DEF r
    <2>8. \E p \in TableRow : /\ p.id = 1 + Cardinality(used) /\ p.key = o.key /\ ~p.child
                              /\ Result(q) = [hit |-> {p}, after |-> rows \cup {p}]
        BY <2>3, <2>4, <2>7, Zenon
    <2>9. Distinct(Result(q).after) BY <2>4, <2>6
    <2>10. QED BY <1>1, <2>8, <2>9
<1>2. CASE o.kind = "delete"
    <2>1. Result(q) = [hit |-> hit, after |-> rows \ hit] BY <1>2 DEF Result
    <2>2. Distinct(rows \ hit) BY <1>0, HitRemoved
    <2>3. QED BY <1>2, <2>1, <2>2 DEF Identified
<1>3. CASE o.kind = "update"
    <2>1. o \in ValueUpdates \cup KeyUpdates BY <1>3, OperationFields
    <2> DEFINE new == AllChanged(hit, o)
    <2>2. Result(q) = [hit |-> hit, after |-> (rows \ hit) \cup new] BY <1>3 DEF Result, Changed, AllChanged
    <2>3. Distinct((rows \ hit) \cup new) /\ \A p \in new : \E r \in hit : p.id = r.id
        BY <1>0, <2>1, HitChanged
    <2>4. \A p \in (rows \ hit) \cup new : p.id \in used
        BY <1>0, <2>3 DEF Identified
    <2>5. QED BY <1>3, <2>2, <2>3, <2>4
<1>4. QED BY <1>1, <1>2, <1>3, OperationFields

LEMMA IdentifiedInit == Init => Identified
<1> SUFFICES ASSUME Init PROVE Identified
    OBVIOUS
<1>1. /\ rows \subseteq TableRow /\ IsFiniteSet(rows)
      /\ {r.id : r \in rows} = 1..Cardinality(rows)
      /\ \A r, q \in rows : r # q => r.id # q.id
    BY RowAssumption DEF Init
<1>2. PICK n \in Nat : n = Cardinality(rows) BY <1>1, FS_CardinalityType
<1>3. used = 1..n BY <1>1, <1>2 DEF Init
<1>4. IsFiniteSet(used) /\ Cardinality(used) = n BY <1>3, FS_Interval
<1>5. \A r \in rows : r.id \in used BY DEF Init
<1>6. QED BY <1>1, <1>3, <1>4, <1>5 DEF Identified, Distinct

\* What a statement that ran leaves.
LEMMA RanIdentified ==
    ASSUME NEW q \in Requests, op[q] \in Operations, Identified,
           rows' = Result(q).after, used' = used \cup {r.id : r \in Result(q).after}
    PROVE  Identified'
<1>1. Distinct(rows') BY ResultIdentified
<1>2. CASE op[q].kind # "insert"
    <2>1. \A p \in rows' : p.id \in used BY <1>2, ResultIdentified
    <2>2. used' = used BY <2>1
    <2>3. QED BY <1>1, <2>1, <2>2 DEF Identified
<1>3. CASE op[q].kind = "insert"
    <2>1. PICK r \in TableRow : r.id = 1 + Cardinality(used) /\ Result(q) = [hit |-> {r}, after |-> rows \cup {r}]
        BY <1>3, ResultIdentified
    <2>2. used' = used \cup {1 + Cardinality(used)} BY <2>1 DEF Identified
    <2>3. QED BY <1>1, <2>1, <2>2, NextIdentity DEF Identified
<1>4. QED BY <1>2, <1>3

LEMMA OtherIdentified ==
    ASSUME Identified, OtherSession
    PROVE  Identified'
<1>0. Distinct(rows) BY DEF Identified
<1>1. CASE \E r \in rows, k \in Keys, v \in Values :
              rows' = (rows \ {r}) \cup {[r EXCEPT !.key = k, !.value = v]} /\ UNCHANGED used
    <2>1. PICK r \in rows, k \in Keys, v \in Values :
              rows' = (rows \ {r}) \cup {[r EXCEPT !.key = k, !.value = v]} /\ UNCHANGED used
        BY <1>1
    <2>2. [r EXCEPT !.key = k, !.value = v] \in TableRow /\ [r EXCEPT !.key = k, !.value = v].id = r.id
        BY <1>0 DEF Distinct, TableRow
    <2>3. Distinct(rows \ {r}) BY <1>0, HitRemoved
    <2>4. \A p \in rows \ {r} : p.id # r.id BY <1>0 DEF Distinct
    <2>5. Distinct(rows') BY <2>1, <2>2, <2>3, <2>4, NewAdded
    <2>6. QED BY <2>1, <2>2, <2>5 DEF Identified
<1>2. CASE \E r \in rows : rows' = rows \ {r} /\ UNCHANGED used
    <2>1. Distinct(rows') BY <1>0, <1>2, HitRemoved
    <2>2. QED BY <1>2, <2>1 DEF Identified
<1>3. CASE \E k \in Keys, v \in Values, child \in BOOLEAN :
              /\ rows' = rows \cup {[id |-> 1 + Cardinality(used), key |-> k, value |-> v, child |-> child]}
              /\ used' = used \cup {1 + Cardinality(used)}
    <2>1. PICK k \in Keys, v \in Values, child \in BOOLEAN :
              /\ rows' = rows \cup {[id |-> 1 + Cardinality(used), key |-> k, value |-> v, child |-> child]}
              /\ used' = used \cup {1 + Cardinality(used)}
        BY <1>3
    <2> DEFINE r == [id |-> 1 + Cardinality(used), key |-> k, value |-> v, child |-> child]
    <2>2. Cardinality(used) \in Nat /\ 1 + Cardinality(used) \notin used BY NextIdentity
    <2>3. r \in TableRow /\ r.id = 1 + Cardinality(used) BY <2>2 DEF TableRow
    <2>4. \A p \in rows : p.id # r.id BY <2>2 DEF Identified
    <2>5. Distinct(rows') BY <1>0, <2>1, <2>3, <2>4, NewAdded
    <2>6. \A p \in rows' : p.id \in used' BY <2>1 DEF Identified
    <2>7. QED BY <2>1, <2>5, <2>6, NextIdentity DEF Identified
<1>4. CASE UNCHANGED <<rows, used>>
    BY <1>4 DEF Identified
<1>5. QED BY <1>1, <1>2, <1>3, <1>4 DEF OtherSession

LEMMA IdentifiedNext == Types /\ Identified /\ [Next]_vars => Identified'
<1> SUFFICES ASSUME Types, Identified, [Next]_vars PROVE Identified'
    OBVIOUS
<1>1. CASE UNCHANGED <<rows, used>>
    BY <1>1 DEF Identified
<1>2. ASSUME NEW q \in Requests, RunStatement(q) \/ LoseRequest(q) PROVE Identified'
    <2>1. op[q] \in Operations BY <1>2, OperationFields DEF RunStatement, LoseRequest, Types
    <2>2. \/ UNCHANGED <<rows, used>>
          \/ rows' = Result(q).after /\ used' = used \cup {r.id : r \in Result(q).after}
        BY <1>2 DEF RunStatement, LoseRequest
    <2>3. QED BY <1>1, <2>1, <2>2, RanIdentified
<1>3. ASSUME NEW q \in Requests, EditCell(q) \/ DeleteRow(q) \/ InsertRow(q) \/ CheckKeys(q) \/ TakeAnswer(q)
      PROVE  Identified'
    BY <1>1, <1>3 DEF EditCell, DeleteRow, InsertRow, CheckKeys, TakeAnswer, Ask
<1>4. CASE ReadMetadata \/ CountRows \/ ShowPage \/ FailLoad \/ Turn
    BY <1>1, <1>4 DEF ReadMetadata, CountRows, ShowPage, FailLoad, Turn
<1>5. CASE UNCHANGED vars
    BY <1>1, <1>5 DEF vars
<1>6. QED BY <1>2, <1>3, <1>4, <1>5, OtherIdentified DEF Next

\* A statement whose answer is "done" changed one row, with the key it was given.
LEMMA DoneIsOneRow ==
    ASSUME Types, Identified, NEW q \in Requests, RunStatement(q), answer'[q].end = "done"
    PROVE  \E id \in answer'[q].changed :
              /\ {r \in rows : r.id # id} = {r \in rows' : r.id # id}
              /\ \A r \in rows : r.id = id => r.key = op[q].row.key
<1>1. op[q] \in Operations BY OperationFields DEF RunStatement, Types
<1>2. /\ rows' = Result(q).after /\ SingleRow(Result(q).hit)
      /\ answer'[q].changed = {r.id : r \in Result(q).hit}
    <2>1. op[q] # NoOp BY DEF RunStatement
    <2>2. \A changed : ~Answered(q, Failure(changed))
        <3>1. SUFFICES ASSUME NEW changed, Answered(q, Failure(changed)) PROVE FALSE
            OBVIOUS
        <3>2. answer'[q] = Failure(changed) BY <2>1, <3>1, AnsweredTyped
        <3>3. QED BY <3>2 DEF Failure
    <2>3. /\ rows' = Result(q).after /\ SingleRow(Result(q).hit)
          /\ Answered(q, [end |-> "done", changed |-> {r.id : r \in Result(q).hit}])
        BY <2>2 DEF RunStatement
    <2>4. answer'[q] = [end |-> "done", changed |-> {r.id : r \in Result(q).hit}]
        BY <2>1, <2>3, AnsweredTyped
    <2>5. QED BY <2>3, <2>4
<1>3. ASSUME op[q].kind = "insert"
      PROVE  \E id \in answer'[q].changed :
              /\ {r \in rows : r.id # id} = {r \in rows' : r.id # id}
              /\ \A r \in rows : r.id # id
    <2>1. PICK r \in TableRow : r.id = 1 + Cardinality(used) /\ Result(q) = [hit |-> {r}, after |-> rows \cup {r}]
        BY <1>1, <1>3, ResultIdentified
    <2>2. r.id \in answer'[q].changed /\ rows' = rows \cup {r} BY <1>2, <2>1
    <2>3. \A p \in rows : p.id # r.id BY <2>1, NextIdentity DEF Identified
    <2>4. QED BY <2>2, <2>3
<1>4. ASSUME op[q].kind # "insert"
      PROVE  \E r \in rows :
                /\ r.key = op[q].row.key
                /\ r.id \in answer'[q].changed
                /\ {p \in rows : p.id # r.id} = {p \in rows' : p.id # r.id}
    <2>1. op[q].kind \in {"update", "delete"} BY <1>1, <1>4, OperationFields
    <2>2. Result(q).hit = Matching(op[q].row.key) BY <1>1, <2>1, ResultIdentified
    <2>3. PICK r : Matching(op[q].row.key) = {r}
        <3>1. IsFiniteSet(Matching(op[q].row.key)) BY FS_Subset DEF Matching, Identified, Distinct
        <3>2. QED BY <1>2, <2>2, <3>1, FS_Singleton DEF SingleRow
    <2>4. r \in rows /\ r.key = op[q].row.key BY <2>3 DEF Matching
    <2>5. r.id \in answer'[q].changed BY <1>2, <2>2, <2>3
    <2>6. CASE op[q].kind = "delete"
        <3>1. rows' = rows \ {r} BY <1>1, <1>2, <2>3, <2>6, ResultIdentified
        <3>2. QED BY <2>4, <2>5, <3>1
    <2>7. CASE op[q].kind = "update"
        <3>1. rows' = (rows \ {r}) \cup {Changed(r, op[q])}
            BY <1>1, <1>2, <2>3, <2>7, ResultIdentified DEF AllChanged
        <3>2. Changed(r, op[q]).id = r.id
            BY <1>1, <2>4, <2>7, OperationFields, RowChanged DEF Identified, Distinct
        <3>3. QED BY <2>4, <2>5, <3>1, <3>2
    <2>8. QED BY <2>1, <2>6, <2>7
<1>5. CASE op[q].kind = "insert"
    BY <1>3, <1>5
<1>6. CASE op[q].kind # "insert"
    <2>1. PICK r \in rows : /\ r.key = op[q].row.key
                            /\ r.id \in answer'[q].changed
                            /\ {p \in rows : p.id # r.id} = {p \in rows' : p.id # r.id}
        BY <1>4, <1>6
    <2>2. \A p \in rows : p.id = r.id => p = r BY DEF Identified, Distinct
    <2>3. QED BY <2>1, <2>2
<1>7. QED BY <1>5, <1>6

\* An operation reported as done changed one row, and it is the row with the
\* key of the row the user picked, whatever other sessions did in between.
THEOREM EditsCorrect == Spec => DoneChangedOneRow
<1> DEFINE Done(q) ==
        answer'[q].end = "done" /\ answer[q].end # "done" =>
            \E id \in answer'[q].changed :
                /\ {r \in rows : r.id # id} = {r \in rows' : r.id # id}
                /\ \A r \in rows : r.id = id => r.key = op[q].row.key
<1>1. Init => Types /\ Identified BY TypesInit, IdentifiedInit
<1>2. Types /\ Identified /\ [Next]_vars => (Types /\ Identified)' BY TypesNext, IdentifiedNext
<1>3. Types /\ Identified /\ [Next]_vars => [\A q \in Requests : Done(q)]_vars
    <2> SUFFICES ASSUME Types, Identified, Next, NEW q \in Requests,
                        answer'[q].end = "done", answer[q].end # "done"
                 PROVE  Done(q)
        OBVIOUS
    <2>1. ASSUME NEW p \in Requests, op[p] # NoOp, NEW changed, Answered(p, Failure(changed)) PROVE FALSE
        BY <2>1, AnsweredTyped DEF Failure
    <2>2. ASSUME NEW p \in Requests,
                 EditCell(p) \/ DeleteRow(p) \/ InsertRow(p) \/ CheckKeys(p) \/ LoseRequest(p) \/ TakeAnswer(p)
          PROVE  FALSE
        <3>1. \/ answer' = [answer EXCEPT ![p] = NoAnswer]
              \/ op[p] # NoOp /\ \E changed : Answered(p, Failure(changed))
              \/ answer' = answer
            BY <2>2 DEF EditCell, DeleteRow, InsertRow, CheckKeys, LoseRequest, TakeAnswer, Ask
        <3>2. QED BY <2>1, <3>1 DEF NoAnswer, Types
    <2>3. ASSUME NEW p \in Requests, RunStatement(p) PROVE p = q
        <3>1. op[p] # NoOp /\ \E outcome : Answered(p, outcome) BY <2>3 DEF RunStatement
        <3>2. QED BY <3>1, AnsweredTyped
    <2>4. CASE ReadMetadata \/ CountRows \/ ShowPage \/ FailLoad \/ Turn \/ OtherSession
        BY <2>4 DEF ReadMetadata, CountRows, ShowPage, FailLoad, Turn, OtherSession
    <2>5. QED BY <2>2, <2>3, <2>4, DoneIsOneRow DEF Next
<1>4. QED BY <1>1, <1>2, <1>3, PTL DEF Spec, DoneChangedOneRow

-----------------------------------------------------------------------------
\* In rows ordered by key, the k-th has at most k - 1 rows with a smaller key,
\* and there are k rows whose key is not greater.
LEMMA OrderCounts ==
    ASSUME Identified, NEW s \in Orders(TRUE), NEW k \in 1..Cardinality(rows)
    PROVE  /\ Cardinality({r \in rows : r.key < s[k].key}) <= k - 1
           /\ k <= Cardinality({r \in rows : r.key <= s[k].key})
<1>1. PICK n \in Nat : n = Cardinality(rows) BY OrderIsSeq
<1>2. /\ s \in [1..n -> rows]
      /\ \A i, j \in 1..n : i # j => s[i] # s[j]
      /\ \A i, j \in 1..n : i < j => s[i].key <= s[j].key
    BY <1>1, OrderIsSeq
<1>3. IsFiniteSet(rows) /\ \A r \in rows : r.key \in Nat
    BY RowAssumption DEF Identified, Distinct, TableRow
<1>4. \A r \in rows : \E j \in 1..n : s[j] = r
    <2>1. s \in Injection(1..n, rows) BY <1>2 DEF Injection, IsInjective
    <2>2. Cardinality(1..n) = n BY FS_Interval
    <2>3. s \in Surjection(1..n, rows) BY <1>1, <1>3, <2>1, <2>2, FS_Injection
    <2>4. QED BY <2>3 DEF Surjection
<1>5. k \in 1..n BY <1>1
<1>6. Cardinality({r \in rows : r.key < s[k].key}) <= k - 1
    <2>1. PICK m \in Nat : m = k - 1 BY <1>5
    <2> DEFINE T == {s[j] : j \in 1..m}
               f == [j \in 1..m |-> s[j]]
    <2>2. f \in Surjection(1..m, T) BY DEF Surjection
    <2>3. IsFiniteSet(1..m) /\ Cardinality(1..m) = m BY FS_Interval
    <2>4. IsFiniteSet(T) /\ Cardinality(T) <= m BY <2>2, <2>3, FS_Surjection
    <2>5. {r \in rows : r.key < s[k].key} \subseteq T
        <3>1. SUFFICES ASSUME NEW r \in rows, r.key < s[k].key PROVE r \in T
            OBVIOUS
        <3>2. PICK j \in 1..n : s[j] = r BY <1>4
        <3>3. ~(k < j) /\ k # j
            BY <1>2, <1>3, <1>5, <3>1, <3>2
        <3>4. j \in 1..m BY <1>5, <2>1, <3>3
        <3>5. QED BY <3>2, <3>4
    <2>6. PICK L : L = {r \in rows : r.key < s[k].key} OBVIOUS
    <2> HIDE DEF T
    <2>7. Cardinality(L) <= Cardinality(T) /\ IsFiniteSet(L) BY <2>4, <2>5, <2>6, FS_Subset
    <2>8. Cardinality(L) \in Nat /\ Cardinality(T) \in Nat BY <2>4, <2>7, FS_CardinalityType
    <2>9. Cardinality(L) <= k - 1 BY <2>1, <2>4, <2>7, <2>8
    <2>10. QED BY <2>6, <2>9
<1>7. k <= Cardinality({r \in rows : r.key <= s[k].key})
    <2> DEFINE T == {s[j] : j \in 1..k}
               f == [j \in 1..k |-> s[j]]
    <2>1. \A j \in 1..k : j \in 1..n BY <1>5
    <2>2. f \in Surjection(1..k, T) BY DEF Surjection
    <2>3. f \in Injection(1..k, T) BY <1>2, <2>1 DEF Injection, IsInjective
    <2>4. IsFiniteSet(1..k) /\ Cardinality(1..k) = k BY <1>5, FS_Interval
    <2>5. Cardinality(T) = k BY <2>2, <2>3, <2>4, FS_Surjection
    <2>6. T \subseteq {r \in rows : r.key <= s[k].key}
        <3>1. SUFFICES ASSUME NEW j \in 1..k PROVE s[j] \in rows /\ s[j].key <= s[k].key
            OBVIOUS
        <3>2. s[j] \in rows /\ s[j].key \in Nat BY <1>2, <1>3, <2>1
        <3>3. CASE j = k BY <3>2, <3>3
        <3>4. CASE j < k BY <1>2, <1>5, <2>1, <3>2, <3>4
        <3>5. QED BY <1>5, <3>3, <3>4
    <2>7. PICK L : L = {r \in rows : r.key <= s[k].key} OBVIOUS
    <2> HIDE DEF T
    <2>8. IsFiniteSet(L) BY <1>3, <2>7, FS_Subset
    <2>9. Cardinality(T) <= Cardinality(L) BY <2>6, <2>7, <2>8, FS_Subset
    <2>10. QED BY <2>5, <2>7, <2>9
<1>8. QED BY <1>6, <1>7

\* The steps of a load, and no load.
LEMMA LoadSteps ==
    ASSUME NEW l \in Loads
    PROVE  /\ l = NoLoad <=> l.step = "none"
           /\ l # NoLoad => l.offset \in Nat /\ l.step \in {"metadata", "count", "rows"}
           /\ l.step \in {"count", "rows"} => l.keyed \in BOOLEAN
           /\ l.step = "rows" => l.total \in Nat
BY DEF Loads, NoLoad

LEMMA LoadedNow == \A n : Loaded(n) # NoLoad /\ Loaded(n).offset = n /\ Loaded(n).step = "metadata"
BY DEF Loaded, NoLoad

LEMMA RowCount ==
    ASSUME Identified
    PROVE  IsFiniteSet(rows) /\ Cardinality(rows) \in Nat
BY FS_CardinalityType DEF Identified, Distinct

LEMMA PanelInit == Init => PanelInv
BY LoadedNow DEF Init, PanelInv, Fresh

-----------------------------------------------------------------------------
\* A step that changes neither the table nor what the panel has of it.
LEMMA Unmoved ==
    ASSUME PanelInv, UNCHANGED <<rows, keyed, page, offset, load, unseen>>, Pending => Pending'
    PROVE  PanelInv'
<1>1. Fresh => Fresh' BY DEF Fresh, PageCurrent, PageLength
<1>2. QED BY <1>1 DEF PanelInv

\* A step of an operation that is not reported as done leaves what is.
LEMMA PendingStays ==
    ASSUME NEW q \in Requests, op[q] = NoOp \/ op[q].step # "answered" \/ answer[q].end # "done",
           \A p \in Requests : p # q => op'[p] = op[p] /\ answer'[p] = answer[p]
    PROVE  Pending => Pending'
BY DEF Pending

LEMMA ReadMetadataFresh ==
    ASSUME Types, PanelInv, ReadMetadata PROVE PanelInv'
<1>1. /\ load.step = "metadata" /\ load # NoLoad
      /\ load' = [step |-> "count", offset |-> load.offset, keyed |-> keyed]
      /\ UNCHANGED <<keyed, offset>>
    BY LoadSteps DEF ReadMetadata, Types
<1>2. load' # NoLoad /\ load'.offset = load.offset /\ load'.keyed = keyed /\ load'.step = "count"
    BY <1>1 DEF NoLoad
<1>3. Fresh' BY <1>1, <1>2 DEF Fresh
<1>4. QED BY <1>1, <1>2, <1>3 DEF PanelInv

LEMMA CountRowsFresh ==
    ASSUME Types, PanelInv, CountRows PROVE PanelInv'
<1>1. /\ load.step = "count" /\ load # NoLoad
      /\ load' = [step |-> "rows", offset |-> load.offset, keyed |-> load.keyed, total |-> Cardinality(rows)]
      /\ UNCHANGED <<rows, keyed, offset, unseen, op, answer>>
    BY LoadSteps DEF CountRows, Types
<1>2. /\ load' # NoLoad /\ load'.offset = load.offset /\ load'.keyed = load.keyed
      /\ load'.total = Cardinality(rows) /\ load'.step = "rows"
    BY <1>1 DEF NoLoad
<1>3. Fresh => Fresh' BY <1>1, <1>2 DEF Fresh
<1>4. Pending' <=> Pending BY <1>1 DEF Pending
<1>5. QED BY <1>1, <1>2, <1>3, <1>4 DEF PanelInv

\* The page that arrives is the page at the offset.
LEMMA ShowPageFresh ==
    ASSUME Types, Identified, PanelInv, ShowPage PROVE PanelInv'
<1>1. /\ load.step = "rows" /\ load # NoLoad /\ load' = NoLoad
      /\ UNCHANGED <<rows, keyed, offset, unseen, op, answer>>
    BY LoadSteps DEF ShowPage, Types
<1>2. load.offset = offset BY <1>1 DEF PanelInv
<1>3. PICK s \in Orders(load.keyed) :
          page' = [rows |-> PageOf(s, load.offset), total |-> load.total, keyed |-> load.keyed, failed |-> FALSE,
                   next |-> offset + Len(PageOf(s, load.offset)) < load.total, previous |-> offset > 0]
    BY DEF ShowPage
<1>4. page'.rows = PageOf(s, offset) /\ page'.total = load.total /\ page'.keyed = load.keyed
    BY <1>2, <1>3
<1>5. offset \in Nat /\ Cardinality(rows) \in Nat BY RowCount DEF Types
<1>6. ASSUME Fresh PROVE PageCurrent'
    <2>1. load.keyed = keyed /\ load.total = Cardinality(rows) BY <1>1, <1>6 DEF Fresh
    <2>2. /\ Len(page'.rows) = PageLength
          /\ \A i \in 1..Len(page'.rows) :
                offset + i \in 1..Cardinality(rows) /\ page'.rows[i] = s[offset + i]
        BY <1>4, <1>5, ShownPart DEF PageLength
    <2>3. ASSUME NEW i \in 1..Len(page'.rows)
          PROVE  /\ page'.rows[i] \in rows
                 /\ keyed => /\ Cardinality({r \in rows : r.key < page'.rows[i].key}) <= offset + i - 1
                             /\ offset + i <= Cardinality({r \in rows : r.key <= page'.rows[i].key})
        <3>1. PICK k \in 1..Cardinality(rows) : k = offset + i /\ page'.rows[i] = s[k] BY <2>2
        <3>2. s[k] \in rows BY OrderIsSeq
        <3>3. PICK x : x = page'.rows[i] OBVIOUS
        <3>4. x = s[k] BY <3>1, <3>3
        <3>5. ASSUME keyed
              PROVE  /\ Cardinality({r \in rows : r.key < x.key}) <= offset + i - 1
                     /\ offset + i <= Cardinality({r \in rows : r.key <= x.key})
            <4>1. s \in Orders(TRUE) BY <2>1, <3>5 DEF Orders
            <4>2. /\ Cardinality({r \in rows : r.key < s[k].key}) <= k - 1
                  /\ k <= Cardinality({r \in rows : r.key <= s[k].key})
                BY <4>1, OrderCounts
            <4>3. /\ Cardinality({r \in rows : r.key < x.key}) <= k - 1
                  /\ k <= Cardinality({r \in rows : r.key <= x.key})
                BY <3>4, <4>2, Zenon
            <4>4. PICK a, b : /\ a = Cardinality({r \in rows : r.key < x.key})
                              /\ b = Cardinality({r \in rows : r.key <= x.key})
                OBVIOUS
            <4>5. a <= k - 1 /\ k <= b BY <4>3, <4>4
            <4>6. a <= offset + i - 1 /\ offset + i <= b BY <1>5, <3>1, <4>5
            <4>7. QED BY <4>4, <4>6
        <3>6. QED BY <3>2, <3>3, <3>4, <3>5, Zenon
    <2>4. PageLength' = PageLength BY <1>1 DEF PageLength
    <2>5. QED BY <1>1, <1>4, <2>1, <2>2, <2>3, <2>4 DEF PageCurrent
<1>7. Fresh => Fresh' BY <1>1, <1>6 DEF Fresh, NoLoad
<1>8. Pending' <=> Pending BY <1>1 DEF Pending
<1>9. QED BY <1>1, <1>7, <1>8 DEF PanelInv

\* A load that fails leaves no page to be right about.
LEMMA FailLoadFresh ==
    ASSUME Types, PanelInv, FailLoad PROVE PanelInv'
<1>1. load' = NoLoad /\ page'.failed BY DEF FailLoad, Types, Pages
<1>2. QED BY <1>1 DEF PanelInv, Fresh, NoLoad

\* A load that starts has read nothing.
LEMMA LoadStarts ==
    ASSUME load' = Loaded(offset') PROVE PanelInv'
BY LoadedNow DEF PanelInv, Fresh

\* A request asked for, checked, or failed for good.
LEMMA AskFresh ==
    ASSUME Types, PanelInv, NEW q \in Requests, EditCell(q) \/ DeleteRow(q) \/ InsertRow(q)
    PROVE  PanelInv'
<1>1. PICK o : Ask(q, o) BY DEF EditCell, DeleteRow, InsertRow
<1>2. Pending => Pending' BY <1>1, PendingStays DEF Ask, Types
<1>3. UNCHANGED <<rows, keyed, page, offset, load, unseen>> BY <1>1 DEF Ask
<1>4. QED BY <1>2, <1>3, Unmoved

LEMMA CheckKeysFresh ==
    ASSUME Types, PanelInv, NEW q \in Requests, CheckKeys(q) PROVE PanelInv'
<1>1. op[q] # NoOp /\ op[q].step = "asked" BY DEF CheckKeys
<1>2. \A p \in Requests : p # q => op'[p] = op[p] /\ answer'[p] = answer[p]
    BY <1>1, AnsweredTyped DEF CheckKeys, Types
<1>3. Pending => Pending' BY <1>1, <1>2, PendingStays
<1>4. UNCHANGED <<rows, keyed, page, offset, load, unseen>>
    BY <1>1, AnsweredTyped DEF CheckKeys
<1>5. QED BY <1>3, <1>4, Unmoved

\* A statement that hits no row leaves the table as it was.
LEMMA HitNone ==
    ASSUME Types, Identified, NEW q \in Requests, op[q] \in Operations, Result(q).hit = {}
    PROVE  Result(q).after = rows
<1>1. op[q].kind # "insert" BY ResultIdentified
<1>2. Matching(op[q].row.key) = {} BY <1>1, OperationFields, ResultIdentified
<1>3. AllChanged(Matching(op[q].row.key), op[q]) = {} BY <1>2 DEF AllChanged
<1>4. CASE op[q].kind = "update" BY <1>2, <1>3, <1>4, ResultIdentified
<1>5. CASE op[q].kind = "delete"
    <2>1. Result(q).after = rows \ Matching(op[q].row.key) BY <1>5, ResultIdentified
    <2>2. QED BY <1>2, <2>1
<1>6. QED BY <1>1, <1>4, <1>5, OperationFields

LEMMA RunStatementFresh ==
    ASSUME Types, Identified, PanelInv, NEW q \in Requests, RunStatement(q) PROVE PanelInv'
<1>1. op[q] # NoOp /\ op[q].step = "checked" /\ op[q] \in Operations
    BY OperationFields DEF RunStatement, Types
<1>2. PICK outcome : Answered(q, outcome) BY DEF RunStatement
<1>3. /\ UNCHANGED <<keyed, page, offset, load>>
      /\ \A p \in Requests : p # q => op'[p] = op[p] /\ answer'[p] = answer[p]
      /\ op'[q].step = "answered" /\ op'[q] \in Operations
    BY <1>1, <1>2, AnsweredTyped
<1>4. Pending => Pending' BY <1>1, <1>3, PendingStays
<1>5. CASE UNCHANGED <<rows, unseen>>
    BY <1>3, <1>4, <1>5, Unmoved
<1>6. CASE unseen'
    BY <1>3, <1>6 DEF PanelInv
<1>7. CASE Answered(q, [end |-> "done", changed |-> {r.id : r \in Result(q).hit}])
    <2>1. answer'[q].end = "done" BY <1>1, <1>7, AnsweredTyped
    <2>2. op'[q] # NoOp BY <1>3, OperationFields
    <2>3. Pending' BY <1>3, <2>1, <2>2 DEF Pending
    <2>4. QED BY <1>3, <2>3 DEF PanelInv
<1>8. CASE rows' = Result(q).after /\ unseen' = (unseen \/ {r.id : r \in Result(q).hit} # {})
    <2>1. CASE Result(q).hit = {}
        <3>1. rows' = rows BY <1>1, <1>8, <2>1, HitNone
        <3>2. {r.id : r \in Result(q).hit} = {} BY <2>1
        <3>3. unseen' = unseen BY <1>8, <3>2 DEF Types
        <3>4. QED BY <1>5, <3>1, <3>3
    <2>2. CASE Result(q).hit # {}
        <3>1. {r.id : r \in Result(q).hit} # {} BY <2>2
        <3>2. QED BY <1>6, <1>8, <3>1
    <2>3. QED BY <2>1, <2>2
<1>9. QED BY <1>5, <1>7, <1>8 DEF RunStatement

LEMMA LoseRequestFresh ==
    ASSUME Types, PanelInv, NEW q \in Requests, LoseRequest(q) PROVE PanelInv'
<1>1. op[q] # NoOp /\ op[q].step # "answered" BY DEF LoseRequest
<1>2. PICK outcome : Answered(q, outcome) BY DEF LoseRequest
<1>3. /\ UNCHANGED <<keyed, page, offset, load>>
      /\ \A p \in Requests : p # q => op'[p] = op[p] /\ answer'[p] = answer[p]
    BY <1>1, <1>2, AnsweredTyped
<1>4. Pending => Pending' BY <1>1, <1>3, PendingStays
<1>5. CASE UNCHANGED <<rows, unseen>>
    BY <1>3, <1>4, <1>5, Unmoved
<1>6. CASE unseen'
    BY <1>3, <1>6 DEF PanelInv
<1>7. QED BY <1>5, <1>6 DEF LoseRequest

LEMMA TakeAnswerFresh ==
    ASSUME Types, PanelInv, NEW q \in Requests, TakeAnswer(q) PROVE PanelInv'
<1>1. CASE Succeeded(q)
    BY <1>1, LoadStarts DEF Succeeded
<1>2. CASE answer[q].end # "done" /\ Refused(q)
    <2>1. UNCHANGED <<rows, keyed, page, offset, load, unseen>>
        BY <1>2 DEF TakeAnswer, Refused
    <2>2. \A p \in Requests : p # q => op'[p] = op[p] /\ answer'[p] = answer[p]
        BY <1>2 DEF TakeAnswer, Refused, Types
    <2>3. Pending => Pending' BY <1>2, <2>2, PendingStays
    <2>4. QED BY <2>1, <2>3, Unmoved
<1>3. QED BY <1>1, <1>2 DEF TakeAnswer

LEMMA PanelNext == Types /\ Identified /\ PanelInv /\ [Next]_vars => PanelInv'
<1> SUFFICES ASSUME Types, Identified, PanelInv, [Next]_vars PROVE PanelInv'
    OBVIOUS
<1>1. CASE UNCHANGED vars
    <2>1. Pending => Pending' BY <1>1 DEF vars, Pending
    <2>2. QED BY <1>1, <2>1, Unmoved DEF vars
<1>2. CASE OtherSession
    BY <1>2 DEF OtherSession, PanelInv
<1>3. CASE Turn
    BY <1>3, LoadStarts DEF Turn
<1>4. QED
    BY <1>1, <1>2, <1>3, ReadMetadataFresh, CountRowsFresh, ShowPageFresh, FailLoadFresh, AskFresh,
       CheckKeysFresh, RunStatementFresh, LoseRequestFresh, TakeAnswerFresh DEF Next

\* A panel at rest shows the table: its page of the rows, in the order of the key,
\* unless it shows an error or the table was changed behind its back since it was
\* read last.
THEOREM PageCorrect == Spec => []PageShowsTable
<1>1. Init => Types /\ Identified /\ PanelInv BY TypesInit, IdentifiedInit, PanelInit
<1>2. Types /\ Identified /\ PanelInv /\ [Next]_vars => (Types /\ Identified /\ PanelInv)'
    BY TypesNext, IdentifiedNext, PanelNext
<1>3. Types /\ Identified /\ PanelInv => PageShowsTable
    <2> SUFFICES ASSUME Types, Identified, PanelInv, Quiet, ~page.failed, ~unseen
                 PROVE  /\ page.total = Cardinality(rows) /\ page.keyed = keyed
                        /\ Len(page.rows) = PageLength
                        /\ ToSet(page.rows) \subseteq rows
                        /\ keyed => \A i \in DOMAIN page.rows :
                              /\ Cardinality({r \in rows : r.key < page.rows[i].key}) <= offset + i - 1
                              /\ offset + i <= Cardinality({r \in rows : r.key <= page.rows[i].key})
        BY DEF PageShowsTable, PageLength
    <2>1. load = NoLoad /\ ~Pending BY DEF Quiet, Pending
    <2>2. PageCurrent BY <2>1 DEF PanelInv, Fresh
    <2>3. DOMAIN page.rows = 1..Len(page.rows) BY DEF Types, Pages
    <2>4. ToSet(page.rows) \subseteq rows BY <2>2, <2>3 DEF PageCurrent, ToSet
    <2>5. QED BY <2>2, <2>3, <2>4 DEF PageCurrent
<1>4. QED BY <1>1, <1>2, <1>3, PTL DEF Spec
=============================================================================
