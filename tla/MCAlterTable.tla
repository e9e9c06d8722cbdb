----------------------------- MODULE MCAlterTable -----------------------------
(* Instances of AlterTable: tables of two columns, with and without a key. *)
EXTENDS AlterTable

Col(name, type, place) ==
    [id |-> <<"table", name>>, name |-> name, type |-> type, nullable |-> place = 0, default |-> NoDefault,
     pk |-> place, fks |-> 0]
WithDefault(c, default) == [c EXCEPT !.default = default]

KeyFirst == <<WithDefault(Col("a", "integer", 1), NextValue), Col("b", "text", 0)>>
KeyBoth == <<Col("a", "integer", 2), WithDefault(Col("b", "text", 1), "d1")>>
NoKey == <<Col("a", "integer", 0), WithDefault(Col("b", "integer", 0), "d1")>>

NumericTable == {<<Col("a", "integer", 1), Col("b", "numeric(10,2)", 0)>>}
ForeignTable == {<<Col("a", "integer", 1), [Col("b", "integer", 0) EXCEPT !.fks = 2]>>}
SomeTables == {KeyFirst, KeyBoth, NoKey} \cup NumericTable \cup ForeignTable

Serials == [serial |-> "integer", bigserial |-> "bigint"]
RealTypes == {"text", "integer", "bigint", "numeric(10,2)"}
Dialog == RealTypes \cup DOMAIN Serials
InformationSchema == [type \in Dialog |-> IF type = "numeric(10,2)" THEN "numeric" ELSE type]
SomeTypes == {"text", "integer"} \cup DOMAIN Serials

\* PostgreSQL assigns a number to a column of another number type or of type text,
\* and a text to no number.
AssignmentCasts == {cast \in RealTypes \X RealTypes : cast[1] # "text" \/ cast[2] = "text"}
=============================================================================
