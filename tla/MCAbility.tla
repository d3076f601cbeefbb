----------------------------- MODULE MCAbility -----------------------------
(* Instances of Ability for TLC: applications of up to three methods out of    *)
(* groups and permissions whose keys coincide, nest, and differ in spelling    *)
(* only, and whose subjects, actions and fields overlap.                       *)
EXTENDS Ability

\* Segments, and the identifiers they become: "ite-m" and "ite_m" become one.
SomeSegments == {"order", "ite-m", "ite_m", "read"}
Identifiers == [s \in SomeSegments |-> IF s \in {"ite-m", "ite_m"} THEN "IteM" ELSE s]

SomeKeys ==
    {<<"order", "read">>, <<"order", "ite-m">>, <<"order", "ite-m", "read">>,
     <<"order", "ite_m", "read">>, <<"order", "ite-m", "ite-m">>, <<"order", "ite-m", "ite-m", "read">>,
     <<"order", "ite_m">>, <<"order", "ite_m", "ite-m">>, <<"order", "ite_m", "ite-m", "read">>}
TeamRead == {<<"order", "ite_m", "read">>}

\* localeCompare puts "_" before "-" where code units do the opposite.
Locale(s) == CASE s = "ite_m" -> 1 [] s = "ite-m" -> 2 [] s = "order" -> 3 [] OTHER -> 4
Code(s) == CASE s = "ite-m" -> 1 [] s = "ite_m" -> 2 [] s = "order" -> 3 [] OTHER -> 4
Weight(k, i, R(_)) == IF i > Len(k) THEN 0 ELSE R(k[i])
RankBy(R(_)) == [k \in SomeKeys |->
    125 * Weight(k, 1, R) + 25 * Weight(k, 2, R) + 5 * Weight(k, 3, R) + Weight(k, 4, R)]
ByLocale == RankBy(Locale)
ByCode == RankBy(Code)

Group(p, n) == [path |-> p, name |-> n]
Orders == Group(<<"order">>, "Order")
Items == Group(<<"order", "ite-m">>, "Order Ite M")
Items2 == Group(<<"order", "ite_m">>, "Order Ite M")
SomeGroups == {Orders, Items, Items2}

Leaf(p, s, a, f) == [path |-> p, text |-> 1, subject |-> s, action |-> a, fields |-> f, valid |-> TRUE]
Read == Leaf(<<"read">>, "Order", "read", {})
ReadAnew == [Read EXCEPT !.text = 2]
ReadBlank == [Read EXCEPT !.valid = FALSE]
ReadId == Leaf(<<"read">>, "Order", "read", {"id"})
Item == Leaf(<<"ite-m">>, "Order", "manage", {"id", "rank"})
ItemRead == Leaf(<<"ite-m", "read">>, "Item", "read", {"id"})
SomeLeaves == {Read, ReadAnew, ReadBlank, ReadId, Item, ItemRead}

Method(g, l) == [made |-> TRUE, group |-> g, leaf |-> l]
SomeMethods ==
    {Method(g, l) : g \in {Orders, Items}, l \in {Read, Item, ItemRead}} \cup
    {Method(Items2, Read), Method(Orders, ReadAnew), Method(Items2, ReadBlank), Method(Items, ReadId),
     Method(Nil, Read), Method(Orders, Nil), [Method(Nil, Read) EXCEPT !.made = FALSE]}
SomeApps == UNION {[1 .. n -> SomeMethods] : n \in 0 .. 3}

\* One role with up to two stored effects, none, or two roles that disagree.
Stored(j, k, e, f) == [[NoEffects EXCEPT ![j] = e] EXCEPT ![k] = f]
SomeTables == {Stored(j, k, e, f) : j, k \in StoredKeys, e, f \in Effects}
SomeTableSets ==
    {{}} \cup {{t} : t \in SomeTables} \cup
    {{Stored(Star, Star, "ALLOW", "ALLOW"), Stored(k, k, "DENY", "DENY")} : k \in Keys}
=============================================================================
