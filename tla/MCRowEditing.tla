----------------------------- MODULE MCRowEditing -----------------------------
(* Instances of RowEditing: two or three rows on pages of two; requests that  *)
(* fail, or another session beside a table with a child.                      *)
EXTENDS RowEditing, TLC

Row(id, key, child) == [id |-> id, key |-> key, value |-> "v", child |-> child]
OnePage == {Row(1, 1, FALSE), Row(2, 2, FALSE)}
TwoPages == OnePage \cup {Row(3, 3, FALSE)}
OneChild == {Row(1, 1, FALSE), Row(2, 2, TRUE)}

Growing == [rows |-> OnePage, ops |-> 2, others |-> 0, fails |-> 2]
Paged   == [rows |-> TwoPages, ops |-> 2, others |-> 0, fails |-> 1]
Shared  == [rows |-> OneChild, ops |-> 2, others |-> 1, fails |-> 0]

\* Requests differ in nothing but their name.
RequestSymmetry == Permutations(Requests)

SomeVisits == {Growing, Paged, Shared}
=============================================================================
