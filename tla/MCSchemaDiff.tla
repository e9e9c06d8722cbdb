----------------------------- MODULE MCSchemaDiff -----------------------------
(* Families of schemas; every member of one is compared with every other.    *)
EXTENDS SchemaDiff, TLC

TheNames == <<"none", "dst", "src", "a", "b", "c", "f", "g", "s", "t", "u", "v", "w">>

Def(text, refs) == [text |-> text, refs |-> refs]
On(id, value) == {id :> value}
Optional(S) == S \cup {<<>>}
All(A, B) == {x @@ y : x \in A, y \in B}

Table(t) == On(<<"table", t>>, [definition |-> Unset])
Column(type, not_null, default, identity, generated) ==
    [type |-> type, not_null |-> not_null, default |-> default, identity |-> identity, generated |-> generated]
Plain(t, c) == On(<<"column", t, c>>, Column("int", TRUE, Unset, "none", Unset))
Defined(text, sch, ids) == [definition |-> Def(text, {<<sch, id>> : id \in ids})]
Constraint(t, n, kind, sch, cols) ==
    On(<<"constraint", t, n>>, [kind |-> kind] @@ Defined("x", sch, cols))
View(v, text, materialized, sch, ids) ==
    On(<<"view", v>>, [materialized |-> materialized] @@ Defined(text, sch, ids))
Routine(arg, text) == On(<<"routine", "f", arg>>, Defined(text, "", {}))
Serial(n) == On(<<"sequence", "s">>, [options |-> n])
A(t) == <<"column", t, "a">>

Paired(F(_)) == {[source |-> x, target |-> y, owned |-> {}] : x \in F(Source), y \in F(Target)}
                \ {[source |-> x, target |-> y, owned |-> {}] : x \in {<<>>}, y \in {<<>>}}

\* One table: everything a column may be.
ColumnFamily(sch) ==
    {<<>>} \cup All(All(Table("t") \cup On(<<"table", "t">>, Defined("range", sch, {})), Optional(Plain("t", "b"))),
        Optional({<<"column", "t", "a">> :> c : c \in
            {Column(ty, n, d, "none", Unset) : ty \in {"int", "text"}, n \in BOOLEAN, d \in {Unset, Def("one", {})}}
            \cup {Column(ty, TRUE, Unset, i, Unset) : ty \in {"int", "text"}, i \in {"always", "default"}}
            \cup {Column("int", n, Unset, "none", Def("sum", {})) : n \in BOOLEAN}}))

\* Two tables, a foreign key, an index and a sequence.
RelationFamily(sch) ==
    LET owner == All(Table("t"), Plain("t", "a"))
        fk == {<<"constraint", "t", "f">> :> ([kind |-> "f"] @@ Defined(x, sch, {A("t"), A("u")})) : x \in {"x", "y"}}
        default == <<"column", "u", "b">> :> Column("int", FALSE, Def("next", {<<sch, <<"sequence", "s">>>>}), "none", Unset)
        key == All(All(Table("u"), Plain("u", "a")), Constraint("u", "c", "p", sch, {A("u")}))
        index == {<<"index", "u", "g">> :> Defined(x, sch, {A("u")}) : x \in {"x", "y"}}
    IN  All(Optional(Serial(1) \cup Serial(2)), Optional(owner))
        \cup All(All({<<>>} \cup owner \cup All(owner, fk), All(key, Optional(index))),
                 {<<>>} \cup Serial(1) \cup Serial(2) \cup All(Serial(1) \cup Serial(2), {default}))

\* A table with a trigger, the trigger's routine, and a view.
RoutineFamily(sch) ==
    LET t == All(Table("t"), Plain("t", "a"))
        f == Routine("none", "x") \cup Routine("none", "y")
        trigger == {<<"trigger", "t", "g">> :> Defined(x, sch, {<<"routine", "f", "none">>}) : x \in {"x", "y"}}
        v == UNION {View("v", x, m, sch, {A("t")}) : x \in {"x", "y"}, m \in BOOLEAN}
    IN  Optional(f) \cup All(All(t, Optional(v)), {<<>>} \cup f \cup All(f, trigger))

\* A table that is removed with its trigger keeps the trigger's routine.
KeepsTriggerRoutine(p) ==
    (\E id \in DOMAIN p.target : id[1] = "trigger") /\ <<"table", "t">> \notin DOMAIN p.source
        => \E id \in DOMAIN p.source : id[1] = "routine"

\* Two views, one of the other.
ViewFamily(sch) ==
    LET t == All(Table("t"), Plain("t", "a"))
        v == View("v", "x", FALSE, sch, {A("t")})
        w == View("w", "x", FALSE, sch, {<<"view", "v">>})
    IN  t \cup All(t, All(v, Optional(w)))

\* A column with a unique key.
UniqueFamily(sch) ==
    All(All(Table("t"), Plain("t", "a")),
        Optional(All(Plain("t", "b"), Optional(Constraint("t", "u", "u", sch, {<<"column", "t", "b">>})))))

\* A table with a serial column.
SerialFamily(sch) ==
    Optional(All(All(Table("t"), Serial(1) \cup Serial(2)),
                 On(A("t"), Column("int", TRUE, Def("next", {<<sch, <<"sequence", "s">>>>}), "none", Unset))))

Keeps(p, id) == id \in DOMAIN p.target => id \in DOMAIN p.source

ColumnPairs   == Paired(ColumnFamily)
RelationPairs == Paired(RelationFamily)
RoutinePairs  == {p \in Paired(RoutineFamily) : KeepsTriggerRoutine(p)}
ViewPairs     == {p \in Paired(ViewFamily) : Keeps(p, <<"view", "w">>)}
UniquePairs   == {p \in Paired(UniqueFamily) : Keeps(p, <<"constraint", "t", "u">>)}
SerialPairs   == {[p EXCEPT !.owned = {<<<<"sequence", "s">>, A("t")>>}] :
                     p \in {q \in Paired(SerialFamily) : Keeps(q, <<"table", "t">>)}}

SomePairs == UNION {ColumnPairs, RelationPairs, RoutinePairs, ViewPairs, UniquePairs, SerialPairs}
=============================================================================
