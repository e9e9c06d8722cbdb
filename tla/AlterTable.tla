------------------------------ MODULE AlterTable ------------------------------
(***************************************************************************)
(* The table editor: a form filled from one read of the table, a preview   *)
(* built from a second read, the user's confirmation of that preview, and  *)
(* an application that reads the table a third time, builds the statements *)
(* again and runs them as one transaction.  Another session may change the *)
(* table between any two of these.                                         *)
(*                                                                         *)
(* PostgreSQL's side (Executed and what it uses) is external.  The table   *)
(* has no rows and nothing depends on it, so that a statement fails only   *)
(* for what the statements before it did, or another session.              *)
(***************************************************************************)
EXTENDS Naturals, FiniteSets, SequencesExt

CONSTANTS
    Tables,      \* the columns the table may start with
    NewNames,    \* names the user may give to a column
    Types,       \* types a column may be given, spelled as format_type does
    DataType,    \* spelling of a type -> its name in information_schema
    Listed,      \* the types the dialog offers for every column
    SerialOf,    \* listed types that are none -> the type of a column added with it
    Assignable,  \* pairs <<from, to>> with an assignment cast
    Defaults,    \* default expressions that fit every type, NoDefault among them
    NoDefault,
    NextValue,   \* the default of a column added as a serial one
    MaxChanges,  \* bound: changes the user makes to the form and other sessions to the table
    MaxOthers    \* bound: those of other sessions

ASSUME AlterAssumption ==
    /\ Tables \subseteq Seq([id : STRING \X STRING, name : STRING, type : STRING, nullable : BOOLEAN,
                             default : STRING, pk : Nat, fks : Nat])
    /\ NoDefault \in Defaults
    /\ "text" \in Listed
    /\ MaxChanges \in Nat /\ MaxOthers \in Nat

VARIABLES
    table,    \* the columns, in order
    renamed,  \* the table has the new name
    stage,    \* of the dialog
    form,     \* its column rows, and whether its table name was changed
    shown,    \* the statements the user was last asked to confirm
    script,   \* the statements being applied
    answer,   \* of the last preview or application
    edits, others

formVars == <<table, renamed, stage, form, shown, script, answer, edits, others>>

New == "" \* the original name of an added column: none

-----------------------------------------------------------------------------
NamesOf(columns) == {columns[i].name : i \in DOMAIN columns}
Place(names, name) == CHOOSE i \in DOMAIN names : names[i] = name
Where(columns, name) == CHOOSE i \in DOMAIN columns : columns[i].name = name
\* The field pk of a column is its place in the primary key, or 0.
HasKey(columns) == \E i \in DOMAIN columns : columns[i].pk > 0
Keyless(columns) == [i \in DOMAIN columns |-> [columns[i] EXCEPT !.pk = 0]]
Serial(row) == row.type \in DOMAIN SerialOf
RealType(row) == IF Serial(row) THEN SerialOf[row.type] ELSE row.type
RealDefault(row) == IF Serial(row) THEN NextValue ELSE row.default
Column(row, id) ==
    [id |-> id, name |-> row.name, type |-> RealType(row), nullable |-> row.nullable /\ ~Serial(row),
     default |-> RealDefault(row), pk |-> 0, fks |-> 0]

\* What PostgreSQL accepts of a statement, and what the columns are after it.
Allowed(columns, s) ==
    CASE s.do = "drop_key" -> HasKey(columns)
      [] s.do = "add_key" -> ~HasKey(columns) /\ ToSet(s.columns) \subseteq NamesOf(columns)
      [] s.do = "add" -> /\ s.row.name \notin NamesOf(columns)
                         /\ Serial(s.row) => s.row.default = NoDefault
      [] s.do = "rename_table" -> TRUE
      [] s.do = "rename" -> s.column \in NamesOf(columns) /\ s.to \notin NamesOf(columns)
      [] OTHER ->
            /\ s.column \in NamesOf(columns)
            /\ LET c == columns[Where(columns, s.column)]
               IN  /\ s.do = "type" => /\ s.to \notin DOMAIN SerialOf
                                       /\ c.default = NoDefault \/ <<c.type, s.to>> \in Assignable
                   /\ s.do = "null" => (s.to => c.pk = 0)

Executed(columns, s) ==
    LET At(field) == [columns EXCEPT ![Where(columns, s.column)] = [@ EXCEPT ![field] = s.to]]
    IN  CASE s.do = "drop_key" -> Keyless(columns)
          [] s.do = "add_key" ->
                [i \in DOMAIN columns |->
                    IF columns[i].name \in ToSet(s.columns)
                    THEN [columns[i] EXCEPT !.pk = Place(s.columns, columns[i].name), !.nullable = FALSE]
                    ELSE columns[i]]
          [] s.do = "add" -> Append(columns, Column(s.row, <<s.by, s.row.name>>))
          [] s.do = "drop" ->
                LET i == Where(columns, s.column)
                IN  RemoveAt(IF columns[i].pk > 0 THEN Keyless(columns) ELSE columns, i)
          [] s.do = "rename" -> At("name")
          [] s.do = "type" -> At("type")
          [] s.do = "null" -> At("nullable")
          [] s.do = "default" -> At("default")
          [] OTHER -> columns

Started(columns) == [ok |-> TRUE, columns |-> columns]
Step(s, st) ==
    IF st.ok /\ Allowed(st.columns, s) THEN Started(Executed(st.columns, s))
    ELSE [st EXCEPT !.ok = FALSE]
Transact(columns, statements) ==
    LET after[n \in 0..Len(statements)] ==
            IF n = 0 THEN Started(columns) ELSE Step(statements[n], after[n - 1])
    IN  after[Len(statements)]

-----------------------------------------------------------------------------
\* get_table_detail joins the columns with the foreign keys they are part of.
TableDetail(columns) ==
    FlattenSeq([i \in DOMAIN columns |->
        [k \in 1..(IF columns[i].fks > 1 THEN columns[i].fks ELSE 1) |-> columns[i]]])

\* The type a row of the form starts with.
PresetType(type) ==
    IF type \notin Listed THEN type
    ELSE IF DataType[type] \in Listed THEN DataType[type] ELSE "text"

FormRow(c) ==
    [original |-> c.name, name |-> c.name, type |-> PresetType(c.type), nullable |-> c.nullable,
     default |-> c.default, pk |-> c.pk > 0, removed |-> FALSE]
AddedRow(name) ==
    [original |-> New, name |-> name, type |-> "text", nullable |-> TRUE,
     default |-> NoDefault, pk |-> FALSE, removed |-> FALSE]
UntouchedForm(columns) ==
    LET detail == TableDetail(columns)
    IN  [rows |-> [i \in DOMAIN detail |-> FormRow(detail[i])], renamed |-> FALSE]

Active(rows) == SelectSeq(rows, LAMBDA r : ~r.removed)

\* build_alter_table_preview's conditions, those on the texts aside.
FormAccepted(rows, detail) ==
    LET existing == {i \in DOMAIN rows : rows[i].original # New}
        active == {i \in DOMAIN rows : ~rows[i].removed}
    IN  /\ {rows[i].original : i \in existing} = NamesOf(detail)
        /\ Cardinality(existing) = Cardinality(NamesOf(detail))
        /\ Cardinality({rows[i].name : i \in active}) = Cardinality(active)

-----------------------------------------------------------------------------
\* build_alter_table_statements
OriginalKey(detail) == [i \in DOMAIN SelectSeq(detail, LAMBDA c : c.pk > 0) |->
                            SelectSeq(detail, LAMBDA c : c.pk > 0)[i].name]
EditedKey(rows) == [i \in DOMAIN SelectSeq(rows, LAMBDA r : r.pk /\ ~r.removed) |->
                        SelectSeq(rows, LAMBDA r : r.pk /\ ~r.removed)[i].name]

\* Mutant of KeyUnchanged: only the number of key columns is compared.
KeyUnchangedByLength(detail, rows) == Len(OriginalKey(detail)) = Len(EditedKey(rows))

KeyUnchanged(detail, rows) ==
    /\ Len(OriginalKey(detail)) = Len(EditedKey(rows))
    /\ \A i \in DOMAIN EditedKey(rows) : \E j \in DOMAIN rows :
          /\ rows[j].original = OriginalKey(detail)[i]
          /\ rows[j].name = EditedKey(rows)[i]
          /\ ~rows[j].removed

When(condition, statement) == IF condition THEN <<statement>> ELSE <<>>

RowStatements(row, current) ==
    When(row.name # row.original, [do |-> "rename", column |-> row.original, to |-> row.name])
    \o When(row.type # current.type, [do |-> "type", column |-> row.name, to |-> row.type])
    \o When(row.nullable # current.nullable, [do |-> "null", column |-> row.name, to |-> row.nullable])
    \o When(row.default # current.default, [do |-> "default", column |-> row.name, to |-> row.default])

\* Mutant of EditStatements: a removed column is dropped under its edited name.
EditStatementsByName(row, detail) ==
    CASE row.original = New -> When(~row.removed, [do |-> "add", row |-> row, by |-> "dialog"])
      [] row.original # New /\ row.removed -> <<[do |-> "drop", column |-> row.name]>>
      [] OTHER -> IF row.original \in NamesOf(detail)
                  THEN RowStatements(row, detail[Where(detail, row.original)]) ELSE <<>>

EditStatements(row, detail) ==
    CASE row.original = New -> When(~row.removed, [do |-> "add", row |-> row, by |-> "dialog"])
      [] row.original # New /\ row.removed -> <<[do |-> "drop", column |-> row.original]>>
      [] OTHER -> IF row.original \in NamesOf(detail)
                  THEN RowStatements(row, detail[Where(detail, row.original)]) ELSE <<>>

\* Mutant of BuildStatements: the old key goes after the columns were changed.
BuildStatementsKeyLast(detail, f) ==
    FlattenSeq([i \in DOMAIN f.rows |-> EditStatements(f.rows[i], detail)])
    \o When(~KeyUnchanged(detail, f.rows) /\ HasKey(detail), [do |-> "drop_key"])
    \o When(~KeyUnchanged(detail, f.rows) /\ EditedKey(f.rows) # <<>>,
            [do |-> "add_key", columns |-> EditedKey(f.rows)])
    \o When(f.renamed, [do |-> "rename_table"])

BuildStatements(detail, f) ==
    When(~KeyUnchanged(detail, f.rows) /\ HasKey(detail), [do |-> "drop_key"])
    \o FlattenSeq([i \in DOMAIN f.rows |-> EditStatements(f.rows[i], detail)])
    \o When(~KeyUnchanged(detail, f.rows) /\ EditedKey(f.rows) # <<>>,
            [do |-> "add_key", columns |-> EditedKey(f.rows)])
    \o When(f.renamed, [do |-> "rename_table"])

\* Mutant of Destructive: a conversion is not announced.
DestructiveDropsOnly(statements) ==
    \E i \in DOMAIN statements : statements[i].do \in {"drop", "drop_key", "add_key"}

\* alter_table_is_destructive
Destructive(statements) ==
    \E i \in DOMAIN statements : statements[i].do \in {"drop", "type", "drop_key", "add_key"}

-----------------------------------------------------------------------------
FormInit ==
    /\ table \in Tables /\ renamed = FALSE
    /\ stage = "closed" /\ form = [rows |-> <<>>, renamed |-> FALSE]
    /\ shown = <<>> /\ script = <<>> /\ answer = "none"
    /\ edits = 0 /\ others = 0

\* openAlterTableDialog, with the detail table_detail has just read.
OpenForm ==
    /\ stage = "closed" /\ answer # "applied"
    /\ stage' = "editing" /\ form' = UntouchedForm(table)
    /\ UNCHANGED <<table, renamed, shown, script, answer, edits, others>>

Edited(rows) ==
    /\ stage = "editing" /\ edits + others < MaxChanges
    /\ edits' = edits + 1
    /\ form' = [form EXCEPT !.rows = rows]
    /\ answer' = "none"
    /\ UNCHANGED <<table, renamed, stage, shown, script, others>>

AddColumn == \E name \in NewNames : Edited(Append(form.rows, AddedRow(name)))

\* A removed row's controls are disabled.
EditRow ==
    \E i \in DOMAIN form.rows :
        /\ ~form.rows[i].removed
        /\ \/ \E name \in NewNames : Edited([form.rows EXCEPT ![i].name = name])
           \/ \E type \in Types : Edited([form.rows EXCEPT ![i].type = type])
           \/ \E default \in Defaults : Edited([form.rows EXCEPT ![i].default = default])
           \/ Edited([form.rows EXCEPT ![i].nullable = ~@])
           \/ Edited([form.rows EXCEPT ![i].pk = ~@])

\* The row's button: removes an added row, marks or unmarks another.
RemoveRow ==
    \E i \in DOMAIN form.rows :
        Edited(IF form.rows[i].original = New THEN RemoveAt(form.rows, i)
               ELSE [form.rows EXCEPT ![i].removed = ~@])

RenameTable ==
    /\ stage = "editing" /\ ~form.renamed /\ edits + others < MaxChanges
    /\ form' = [form EXCEPT !.renamed = TRUE] /\ edits' = edits + 1
    /\ answer' = "none"
    /\ UNCHANGED <<table, renamed, stage, shown, script, others>>

\* The apply button asks for a preview and shows it.
Preview ==
    /\ stage = "editing"
    /\ LET detail == TableDetail(table)
           statements == BuildStatements(detail, form)
       IN  \/ /\ ~FormAccepted(form.rows, detail)
              /\ answer' = "refused" /\ UNCHANGED <<stage, shown>>
           \/ /\ FormAccepted(form.rows, detail) /\ statements = <<>>
              /\ answer' = "unchanged" /\ UNCHANGED <<stage, shown>>
           \/ /\ FormAccepted(form.rows, detail) /\ statements # <<>>
              /\ answer' = "none" /\ stage' = "confirming" /\ shown' = statements
    /\ UNCHANGED <<table, renamed, form, script, edits, others>>

Cancel ==
    /\ stage = "confirming" /\ stage' = "editing"
    /\ UNCHANGED <<table, renamed, form, shown, script, answer, edits, others>>

\* Confirmed: Application::alter_table reads the table and builds the statements
\* from what it is now.
StartApply ==
    /\ stage = "confirming"
    /\ LET detail == TableDetail(table)
       IN  \/ /\ ~FormAccepted(form.rows, detail)
              /\ answer' = "refused" /\ stage' = "editing" /\ UNCHANGED script
           \/ /\ FormAccepted(form.rows, detail)
              /\ script' = BuildStatements(detail, form) /\ stage' = "applying"
              /\ UNCHANGED answer
    /\ UNCHANGED <<table, renamed, form, shown, edits, others>>

\* queries::alter_table: all of the statements or none.
Apply ==
    /\ stage = "applying"
    /\ LET end == Transact(table, script)
       IN  \/ /\ end.ok
              /\ table' = end.columns /\ renamed' = form.renamed
              /\ answer' = "applied" /\ stage' = "closed"
           \/ /\ ~end.ok
              /\ answer' = "failed" /\ stage' = "editing" /\ UNCHANGED <<table, renamed>>
    /\ UNCHANGED <<form, shown, script, edits, others>>

\* Another session alters one column of the table.
OtherSession ==
    /\ others < MaxOthers /\ edits + others < MaxChanges /\ answer # "applied"
    /\ \E c \in ToSet(table), type \in Types, default \in Defaults, name \in NewNames :
        \E s \in {[do |-> "type", column |-> c.name, to |-> type],
                  [do |-> "default", column |-> c.name, to |-> default],
                  [do |-> "null", column |-> c.name, to |-> ~c.nullable],
                  [do |-> "rename", column |-> c.name, to |-> name],
                  [do |-> "drop", column |-> c.name],
                  [do |-> "add", row |-> AddedRow(name), by |-> "other"]} :
            /\ Allowed(table, s) /\ Len(Executed(table, s)) > 0
            /\ table' = Executed(table, s) /\ table' # table
    /\ others' = others + 1
    /\ UNCHANGED <<renamed, stage, form, shown, script, answer, edits>>

FormNext ==
    \/ OpenForm \/ AddColumn \/ EditRow \/ RemoveRow \/ RenameTable
    \/ Preview \/ Cancel \/ StartApply \/ Apply \/ OtherSession

FormSpec == FormInit /\ [][FormNext]_formVars

-----------------------------------------------------------------------------
\* The form marks just the columns of the key the table has.
SameKey(columns, rows) ==
    {r.original : r \in {q \in ToSet(Active(rows)) : q.pk}} = {c.name : c \in {d \in ToSet(columns) : d.pk > 0}}

\* The table a form describes: its active rows, on the columns they stand for.
\* PostgreSQL makes the columns of a primary key NOT NULL, a column added as serial
\* an integer with a sequence.  A form that marks other columns than the key has
\* asks for a key in the order of its rows.
Described(row) ==
    <<row.name, RealType(row), row.nullable /\ ~row.pk /\ ~Serial(row), RealDefault(row),
      IF ~row.pk THEN 0
      ELSE IF SameKey(table, form.rows) THEN table[Where(table, row.original)].pk
      ELSE Place(EditedKey(form.rows), row.name)>>
DescribedColumn(c) == <<c.name, c.type, c.nullable, c.default, c.pk>>

\* Every part of the state is what the program can hold.
FormTypeOK ==
    /\ \A c \in ToSet(table) : c.type \in Types \cup Listed /\ c.default \in Defaults \cup {NextValue} /\ (c.pk > 0 => ~c.nullable)
    /\ Cardinality(NamesOf(table)) = Len(table)
    /\ renamed \in BOOLEAN
    /\ stage \in {"closed", "editing", "confirming", "applying"}
    /\ \A r \in ToSet(form.rows) : r.type \in Types \cup Listed /\ r.default \in Defaults \cup {NextValue}
    /\ answer \in {"none", "refused", "unchanged", "applied", "failed"}
    /\ edits + others \in 0..MaxChanges /\ others \in 0..MaxOthers

\* An application that succeeds leaves the table the form describes, if no other
\* session changed it: the columns it lists, in its order, each with its name, type,
\* nullability, default and place in the key, which keeps its order if the form leaves
\* it alone and has that of the rows if not (build_alter_table_statements).
AppliedTableIsTheForm ==
    [][others = 0 /\ answer' = "applied" /\ answer # "applied" =>
        /\ [i \in DOMAIN table' |-> DescribedColumn(table'[i])]
             = [i \in DOMAIN Active(form.rows) |-> Described(Active(form.rows)[i])]
        /\ renamed' = form.renamed]_formVars

\* The form asks for nothing that PostgreSQL refuses: no key column is nullable, no
\* column takes the name of another one, serial is for added columns without a
\* default, and the default a column has can be converted with it.  (DROP DEFAULT
\* and SET DEFAULT come after TYPE: a form that also changes such a default fails.)
SelfConsistent ==
    \A r \in ToSet(Active(form.rows)) :
        /\ ~(r.pk /\ r.nullable)
        /\ r.name = r.original \/ r.name \notin NamesOf(table)
        /\ r.original = New /\ Serial(r) => r.default = NoDefault
        /\ r.original # New =>
              /\ ~Serial(r)
              /\ LET c == table[Where(table, r.original)]
                 IN  c.default = NoDefault \/ <<c.type, r.type>> \in Assignable

\* A form that asks for nothing PostgreSQL refuses can be applied to the table it was
\* filled from: build_alter_table_statements drops the old key before the columns that
\* leave it, renames a column before it changes it, and adds the new key last.
ValidFormsApply == others = 0 /\ answer = "failed" => ~SelfConsistent

\* The changes of Apply by which values can be lost.
Loses ==
    \E c \in ToSet(table) : ~\E d \in ToSet(table') : d.id = c.id /\ d.type = c.type

\* No application drops a column or converts its values unless what the user
\* confirmed was announced as destructive (alter_table_is_destructive), or another
\* session changed the table since.
LossIsConfirmed ==
    [][others = 0 /\ answer' = "applied" /\ answer # "applied" /\ Loses => Destructive(shown)]_formVars

\* No row takes the name of a column that another row removes.
NamesStayApart ==
    \A r, q \in ToSet(form.rows) : ~r.removed /\ q.removed => r.name # q.original

\* Whatever other sessions do meanwhile, an application drops only columns with
\* the name of a row the user marked: a renaming before the DROP COLUMN never
\* makes it reach another column, unless the form gives that column the name of
\* the marked one and another session has taken the name away from it.
OnlyMarkedColumnsAreDropped ==
    [][\A c \in ToSet(table) :
        (/\ answer' = "applied" /\ answer # "applied" /\ NamesStayApart
         /\ ~\E d \in ToSet(table') : d.id = c.id)
            => \E r \in ToSet(form.rows) : r.original = c.name /\ r.removed]_formVars
=============================================================================
