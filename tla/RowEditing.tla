------------------------------ MODULE RowEditing ------------------------------
(***************************************************************************)
(* The data panel of a table: pages of rows, read by several statements    *)
(* one after the other, and cell updates, insertions and deletions that    *)
(* name their row by the values of its primary key.  The table may have    *)
(* children (inheritance): the statements reach their rows too, and the    *)
(* parent's key does not bind them.  Other sessions change rows and key.   *)
(*                                                                         *)
(* The grid's buttons stay active during a request, so that several may be *)
(* under way.  A request may fail anywhere: before its statement, with it, *)
(* or after it was committed, when only the answer is lost.                *)
(* PostgreSQL's side (Violates, Matching, Orders) is external.             *)
(***************************************************************************)
EXTENDS Naturals, FiniteSets, SequencesExt

CONSTANTS
    Keys, Values,
    Visits,      \* what the panel may go through: [rows, ops, others, fails]
    Requests,    \* row operations that may be under way together
    PageSize,    \* fifty in the code
    MaxRows      \* bound: identities of rows

\* child: the row is one of a child table.
TableRow == [id : Nat, key : Keys, value : Values, child : BOOLEAN]

\* The rows at first have identities of their own, and the key holds for the parent's.
ASSUME RowAssumption ==
    /\ Keys \subseteq Nat
    /\ PageSize \in Nat \ {0}
    /\ \A v \in Visits :
          /\ {v.ops, v.others, v.fails} \subseteq Nat
          /\ v.rows \subseteq TableRow /\ IsFiniteSet(v.rows)
          /\ {r.id : r \in v.rows} = 1..Cardinality(v.rows)
          /\ \A r, q \in v.rows : r # q => r.id # q.id /\ (r.child \/ q.child \/ r.key # q.key)
    /\ MaxRows \in Nat

VARIABLES
    visit,    \* its rows at first, and bounds on the row operations, the changes of other
              \* sessions and the requests that fail
    rows,     \* [id, key, value, child]
    keyed,    \* the table has its primary key
    used,     \* identities given to rows so far
    page,     \* what the grid shows: [rows, total, keyed, failed], and whether the buttons
              \* for the next and the previous page work: [next, previous]
    offset,
    loading,  \* the flag that disables the buttons of the heading
    load,     \* the latest loadPage: [step, keyed, total, offset]
    unseen,   \* the table was changed behind the panel's back since the last load began:
              \* by another session, or by an operation answered with an error
    op,       \* request -> its operation
    answer,   \* request -> how its last operation ended, and the rows it changed
    ops, others, fails

vars == <<visit, rows, keyed, used, page, offset, loading, load, unseen, op, answer, ops, others, fails>>

-----------------------------------------------------------------------------
\* Orders a SELECT may return the rows in: by the key columns, if it has any.
Orders(byKey) ==
    {s \in SetToSeqs(rows) :
        byKey => \A i, j \in DOMAIN s : i < j => s[i].key <= s[j].key}

\* A change of the parent's rows its primary key refuses.
Violates(after) ==
    keyed /\ \E r, q \in after : r.id # q.id /\ r.key = q.key /\ ~r.child /\ ~q.child

Matching(key) == {r \in rows : r.key = key}

NoOp == [kind |-> "none"]
NoLoad == [step |-> "none"]
NoAnswer == [end |-> "none"]
Loaded(at) == [step |-> "metadata", offset |-> at]

Init ==
    /\ visit \in Visits /\ rows = visit.rows /\ keyed = TRUE
    /\ used = {r.id : r \in rows}
    /\ page = [rows |-> <<>>, total |-> 0, keyed |-> FALSE, failed |-> FALSE, next |-> FALSE, previous |-> FALSE]
    /\ offset = 0 /\ loading = TRUE /\ load = Loaded(0) /\ unseen = FALSE
    /\ op = [q \in Requests |-> NoOp] /\ answer = [q \in Requests |-> NoAnswer]
    /\ ops = 0 /\ others = 0 /\ fails = 0

-----------------------------------------------------------------------------
\* loadPage's request: table_edit_metadata, then the statements of
\* browse_table_data_ordered.
ReadMetadata ==
    /\ load.step = "metadata"
    /\ load' = [step |-> "count", offset |-> load.offset, keyed |-> keyed]
    /\ unseen' = FALSE
    /\ UNCHANGED <<visit, rows, keyed, used, page, offset, loading, op, answer, ops, others, fails>>

CountRows ==
    /\ load.step = "count"
    /\ load' = [step |-> "rows", offset |-> load.offset, keyed |-> load.keyed,
                total |-> Cardinality(rows)]
    /\ UNCHANGED <<visit, rows, keyed, used, page, offset, loading, unseen, op, answer, ops, others, fails>>

\* The rows of a page: LIMIT and OFFSET.
PageOf(s, from) == SubSeq(s, from + 1, IF from + PageSize < Len(s) THEN from + PageSize ELSE Len(s))

\* The rows arrive and the grid is built again.
ShowPage ==
    /\ load.step = "rows"
    /\ \E s \in Orders(load.keyed) :
          page' = [rows |-> PageOf(s, load.offset), total |-> load.total, keyed |-> load.keyed, failed |-> FALSE,
                   next |-> offset + Len(PageOf(s, load.offset)) < load.total, previous |-> offset > 0]
    /\ load' = NoLoad /\ loading' = FALSE
    /\ UNCHANGED <<visit, rows, keyed, used, offset, unseen, op, answer, ops, others, fails>>

\* A load fails, whichever of its statements: an error replaces the grid, and the
\* buttons work as they did for the page before.
FailLoad ==
    /\ load # NoLoad /\ fails < visit.fails
    /\ page' = [page EXCEPT !.rows = <<>>, !.keyed = FALSE, !.failed = TRUE]
    /\ load' = NoLoad /\ loading' = FALSE
    /\ fails' = fails + 1
    /\ UNCHANGED <<visit, rows, keyed, used, offset, unseen, op, answer, ops, others>>

\* The heading's buttons: refresh, next and previous.
Turn ==
    /\ ~loading
    /\ \/ offset' = offset
       \/ page.next /\ offset' = offset + PageSize
       \/ page.previous /\ offset' = IF offset > PageSize THEN offset - PageSize ELSE 0
    /\ loading' = TRUE /\ load' = Loaded(offset')
    /\ UNCHANGED <<visit, rows, keyed, used, page, unseen, op, answer, ops, others, fails>>

-----------------------------------------------------------------------------
Ask(q, operation) ==
    /\ op[q] = NoOp /\ ops < visit.ops
    /\ op' = [op EXCEPT ![q] = operation]
    /\ answer' = [answer EXCEPT ![q] = NoAnswer]
    /\ loading' = TRUE /\ ops' = ops + 1
    /\ UNCHANGED <<visit, rows, keyed, used, page, offset, load, unseen, others, fails>>

\* A cell of a shown row, the key's own cell included.
EditCell(q) ==
    /\ page.keyed
    /\ \E r \in ToSet(page.rows) :
        \/ \E v \in Values : v # r.value /\
              Ask(q, [kind |-> "update", step |-> "asked", row |-> r, column |-> "value", to |-> v])
        \/ \E k \in Keys : k # r.key /\
              Ask(q, [kind |-> "update", step |-> "asked", row |-> r, column |-> "key", to |-> k])

\* last: the deleted row was the page's only one when the grid was built.
DeleteRow(q) ==
    /\ page.keyed
    /\ \E r \in ToSet(page.rows) :
          Ask(q, [kind |-> "delete", step |-> "asked", row |-> r, last |-> Len(page.rows) = 1])

InsertRow(q) ==
    /\ ~loading
    /\ \E k \in Keys, v \in Values :
          Ask(q, [kind |-> "insert", step |-> "asked", key |-> k, value |-> v])

Failure(changed) == [end |-> "failed", changed |-> changed]

\* The answer of a request is on its way to the page.
Answered(q, outcome) ==
    /\ op' = [op EXCEPT ![q].step = "answered"]
    /\ answer' = [answer EXCEPT ![q] = outcome]
    /\ UNCHANGED <<visit, keyed, page, offset, loading, load, ops, others>>

\* Application::update_table_cell, insert_table_row and delete_table_row: the
\* table's metadata and the checks against it.
CheckKeys(q) ==
    /\ op[q] # NoOp /\ op[q].step = "asked"
    /\ \/ /\ op[q].kind = "insert" \/ keyed
          /\ op' = [op EXCEPT ![q].step = "checked"]
          /\ UNCHANGED <<visit, keyed, page, offset, loading, load, answer, ops, others>>
       \/ op[q].kind # "insert" /\ ~keyed /\ Answered(q, Failure({}))
    /\ UNCHANGED <<rows, used, unseen, fails>>

\* What the request's statement makes of the rows, and the rows it matched.
Result(q) ==
    LET o == op[q]
        hit == IF o.kind = "insert" THEN {} ELSE Matching(o.row.key)
        new == {[id |-> 1 + Cardinality(used), key |-> o.key, value |-> o.value, child |-> FALSE]}
    IN  CASE o.kind = "insert" -> [hit |-> new, after |-> rows \cup new]
          [] o.kind = "delete" -> [hit |-> hit, after |-> rows \ hit]
          [] OTHER -> [hit |-> hit, after |-> (rows \ hit) \cup {[r EXCEPT ![o.column] = o.to] : r \in hit}]

\* Mutant of SingleRow: only that some row was hit.
SomeRow(hit) == hit # {}

\* ensure_single_row, after the statement
SingleRow(hit) == Cardinality(hit) = 1

\* The statement commits by itself; its answer is judged afterwards.
RunStatement(q) ==
    /\ op[q] # NoOp /\ op[q].step = "checked"
    /\ op[q].kind = "insert" => Cardinality(used) < MaxRows
    /\ LET end == Result(q)
           changed == {r.id : r \in end.hit}
       IN  \/ Violates(end.after) /\ Answered(q, Failure({})) /\ UNCHANGED <<rows, used, unseen>>
           \/ /\ ~Violates(end.after)
              /\ rows' = end.after /\ used' = used \cup {r.id : r \in end.after}
              /\ \/ /\ SingleRow(end.hit) /\ Answered(q, [end |-> "done", changed |-> changed])
                    /\ UNCHANGED unseen
                 \/ /\ ~SingleRow(end.hit) /\ Answered(q, Failure(changed))
                    /\ unseen' = (unseen \/ changed # {})
    /\ UNCHANGED fails

\* A request fails with its connection: before its statement, or after the statement
\* was committed.
LoseRequest(q) ==
    /\ op[q] # NoOp /\ op[q].step \in {"asked", "checked"} /\ fails < visit.fails
    /\ \/ Answered(q, Failure({})) /\ UNCHANGED <<rows, used, unseen>>
       \/ /\ op[q].step = "checked" /\ ~Violates(Result(q).after)
          /\ op[q].kind = "insert" => Cardinality(used) < MaxRows
          /\ rows' = Result(q).after /\ used' = used \cup {r.id : r \in Result(q).after}
          /\ Answered(q, Failure({r.id : r \in Result(q).hit})) /\ unseen' = TRUE
    /\ fails' = fails + 1

\* Mutant of Succeeded: the page is asked for while the flag of the operation still
\* stands, and loadPage returns at once.
SucceededWhileLoading(q) ==
    /\ offset' = IF op[q].kind = "delete" /\ op[q].last /\ offset > 0
                 THEN IF offset > PageSize THEN offset - PageSize ELSE 0
                 ELSE offset
    /\ loading' = TRUE /\ UNCHANGED load
    /\ op' = [op EXCEPT ![q] = NoOp]

\* Reload after a success; a deletion that emptied its page shows the one before.
Succeeded(q) ==
    /\ offset' = IF op[q].kind = "delete" /\ op[q].last /\ offset > 0
                 THEN IF offset > PageSize THEN offset - PageSize ELSE 0
                 ELSE offset
    /\ loading' = TRUE /\ load' = Loaded(offset')
    /\ op' = [op EXCEPT ![q] = NoOp]

\* The buttons come back; the grid stays as it was.
Refused(q) ==
    /\ op' = [op EXCEPT ![q] = NoOp] /\ loading' = FALSE
    /\ UNCHANGED <<offset, load>>

TakeAnswer(q) ==
    /\ op[q] # NoOp /\ op[q].step = "answered"
    /\ \/ answer[q].end = "done" /\ Succeeded(q)
       \/ answer[q].end # "done" /\ Refused(q)
    /\ UNCHANGED <<visit, rows, keyed, used, page, unseen, answer, ops, others, fails>>

\* Another session changes a row, adds one, takes one away, or drops the key.
OtherSession ==
    /\ others < visit.others
    /\ \/ \E r \in rows, k \in Keys, v \in Values :
             /\ rows' = (rows \ {r}) \cup {[r EXCEPT !.key = k, !.value = v]}
             /\ ~Violates(rows') /\ UNCHANGED <<used, keyed>>
       \/ \E r \in rows : rows' = rows \ {r} /\ UNCHANGED <<used, keyed>>
       \/ \E k \in Keys, v \in Values, child \in BOOLEAN :
             /\ Cardinality(used) < MaxRows
             /\ rows' = rows \cup {[id |-> 1 + Cardinality(used), key |-> k, value |-> v, child |-> child]}
             /\ ~Violates(rows') /\ used' = used \cup {1 + Cardinality(used)}
             /\ UNCHANGED keyed
       \/ keyed /\ keyed' = FALSE /\ UNCHANGED <<rows, used>>
    /\ others' = others + 1 /\ unseen' = TRUE
    /\ UNCHANGED <<visit, page, offset, loading, load, op, answer, ops, fails>>

Next ==
    \/ ReadMetadata \/ CountRows \/ ShowPage \/ FailLoad \/ Turn \/ OtherSession
    \/ \E q \in Requests :
          \/ EditCell(q) \/ DeleteRow(q) \/ InsertRow(q)
          \/ CheckKeys(q) \/ RunStatement(q) \/ LoseRequest(q) \/ TakeAnswer(q)

Spec == Init /\ [][Next]_vars

-----------------------------------------------------------------------------
\* The state is made of what the program can hold.
TypeOK ==
    /\ \A r \in rows : r.key \in Keys /\ r.value \in Values /\ r.child \in BOOLEAN
    /\ Cardinality({r.id : r \in rows}) = Cardinality(rows)
    /\ used = 1..Cardinality(used)
    /\ Len(page.rows) <= PageSize
    /\ offset % PageSize = 0
    /\ load.step \in {"none", "metadata", "count", "rows"}
    /\ fails \in 0..visit.fails /\ others \in 0..visit.others /\ ops \in 0..visit.ops
    /\ \A q \in Requests : answer[q].end \in {"none", "done", "failed"}

Quiet == load = NoLoad /\ \A q \in Requests : op[q] = NoOp

Fewer(n, m) == IF n < m THEN n ELSE m

\* A panel at rest shows the table, unless it shows an error or the table was changed
\* behind its back since it last read it: as many rows as there are from the offset
\* on, at most a page of them, rows of the table, and with a key those that have
\* these places in its order.  Whatever loads and operations overlap and fail, the
\* last load is one that began after the last change the panel was told of
\* (requestSequence, and setLoading(false) before loadPage).
PageShowsTable ==
    Quiet /\ ~page.failed /\ ~unseen =>
        /\ page.total = Cardinality(rows) /\ page.keyed = keyed
        /\ Len(page.rows) = IF offset < Cardinality(rows) THEN Fewer(PageSize, Cardinality(rows) - offset) ELSE 0
        /\ ToSet(page.rows) \subseteq rows
        /\ keyed => \A i \in DOMAIN page.rows :
              /\ Cardinality({r \in rows : r.key < page.rows[i].key}) <= offset + i - 1
              /\ offset + i <= Cardinality({r \in rows : r.key <= page.rows[i].key})

\* An operation reported as done changed one row, and it is the row with the key
\* of the row the user picked (validate_row_keys, json_key_predicate and
\* ensure_single_row, whatever other sessions did between the page and now).
DoneChangedOneRow ==
    [][\A q \in Requests : answer'[q].end = "done" /\ answer[q].end # "done" =>
        \E id \in answer'[q].changed :
            /\ {r \in rows : r.id # id} = {r \in rows' : r.id # id}
            /\ \A r \in rows : r.id = id => r.key = op[q].row.key]_vars
=============================================================================
