------------------------------- MODULE Ability -------------------------------
(* Two ways to one decision.  The server's guard (packages/nest/src/index.ts)  *)
(* composes a method's permission and evaluates it over the actor's roles.     *)
(* The client asks for its ability: the plugin evaluates every permission of   *)
(* its catalog and toCaslRules (packages/casl/src/index.ts) makes a rule list  *)
(* of the decisions, which CASL reads backwards, so that the last rule that    *)
(* matches a question answers it.                                              *)
EXTENDS Catalog

CONSTANTS
    Fields,
    NoField,        \* a question that names no field
    TableSets       \* bound: the roles' tables that an actor may have

ASSUME FieldAssumption == NoField \notin Fields /\ \A l \in Leaves : l.fields \subseteq Fields
ASSUME TablesAssumption == TableSets \subseteq SUBSET Tables
ASSUME ActorAssumption == Nil \notin [owner : BOOLEAN, wildcard : BOOLEAN, tables : TableSets]

Actors == [owner : BOOLEAN, wildcard : BOOLEAN, tables : TableSets]

VARIABLES
    who,        \* the actor whose ability is made
    left,       \* the permissions that toCaslRules has not come to
    rules       \* the rules so far

abilityVars == <<who, left, rules>>
vars == <<catalogVars, abilityVars>>

\* fields: {} for a rule without a field list.
Rule(d, inverted) ==
    [subject |-> d.subject, action |-> d.action, fields |-> d.fields, inverted |-> inverted]
Everything == [subject |-> "all", action |-> "manage", fields |-> {}, inverted |-> FALSE]
RuleRecords == {Rule(d, i) : d \in Definitions, i \in BOOLEAN} \cup {Everything}

TypeOK ==
    /\ CatalogTypeOK
    /\ who \in Actors \cup {Nil}
    /\ left \subseteq Keys
    /\ rules \in Seq(RuleRecords)

Init == CatalogInit /\ who = Nil /\ left = {} /\ rules = <<>>

-----------------------------------------------------------------------------
(* The client's way. *)

\* IamService.ability: the decision on key k.  An owner needs no role.
Decided(a, k) == IF a.owner THEN "ALLOW" ELSE Decide(a.tables, k, FALSE)

\* Roles have no rows for other keys than the catalog's (assertKnownEffects).
KnownKeys(a) ==
    \A t \in a.tables : KnownEffects(t) /\ \A k \in Keys : t[k] # "NONE" => plugin[k] # Nil

\* Each ability is made from nothing; the bound is one of them.
AskAbility(a) ==
    /\ phase = "serve" /\ who = Nil /\ KnownKeys(a)
    /\ who' = a
    /\ left' = IF a.wildcard THEN {} ELSE KeysOf(plugin)
    /\ rules' = IF a.wildcard THEN <<Everything>> ELSE <<>>
    /\ UNCHANGED catalogVars

\* Mutant of Emitted: a denial loses its inversion.
EmitUpright(k) ==
    IF Decided(who, k) = "NONE" THEN <<>> ELSE <<Rule(plugin[k], FALSE)>>

Emitted(k) ==
    IF Decided(who, k) = "NONE" THEN <<>> ELSE <<Rule(plugin[k], Decided(who, k) = "DENY")>>

\* One turn of toCaslRules.
Emit ==
    /\ left # {}
    /\ LET k == Foremost(left, LocaleRank)
       IN  left' = left \ {k} /\ rules' = rules \o Emitted(k)
    /\ UNCHANGED <<catalogVars, who>>

\* CASL: "manage" matches every action and "all" every subject.
Speaks(r, subject, action) == r.subject \in {subject, "all"} /\ r.action \in {action, "manage"}

\* A rule with fields answers a question about one of them; one that names no
\* field is answered by a rule with fields only if the rule allows.
Matches(r, q) ==
    /\ Speaks(r, q.subject, q.action)
    /\ r.fields # {} => IF q.field = NoField THEN ~r.inverted ELSE q.field \in r.fields

\* The last rule that matches allows.
Can(q) ==
    \E i \in 1 .. Len(rules) :
        /\ Matches(rules[i], q) /\ ~rules[i].inverted
        /\ \A j \in i + 1 .. Len(rules) : Matches(rules[j], q) => ~rules[j].inverted

-----------------------------------------------------------------------------
(* The server's way. *)

\* PermissionContextResolver: an owner's role allows every key of the catalog.
OwnerRole == [k \in StoredKeys |-> IF k \in KeysOf(catalog) THEN "ALLOW" ELSE "NONE"]
ContextTables(a) == IF a.owner THEN {OwnerRole} ELSE a.tables

\* PermissionGuard on a method, for a request outside any team.
GuardAllows(a, m) ==
    a.wildcard \/ Decide(ContextTables(a), Compose(m).key, FALSE) = "ALLOW"

-----------------------------------------------------------------------------

Next == (CatalogNext /\ UNCHANGED abilityVars) \/ (\E a \in Actors : AskAbility(a)) \/ Emit

Spec == Init /\ [][Next]_vars

-----------------------------------------------------------------------------

\* The questions a user interface asks about a permission.
Questions(d) ==
    {[subject |-> d.subject, action |-> d.action, field |-> f] :
        f \in {NoField} \cup (IF d.fields = {} THEN Fields ELSE d.fields)}

\* Another permission of the catalog has something to say about the question.
Shared(d, q) ==
    \E k \in KeysOf(plugin) \ {d.key} :
        /\ Speaks(plugin[k], q.subject, q.action)
        /\ q.field = NoField \/ plugin[k].fields = {} \/ q.field \in plugin[k].fields

\* The ability is complete.
Shown == phase = "serve" /\ who # Nil /\ left = {}

Guarded == {m \in Decorated : Compose(m).key \notin TeamKeys}

\* The client shows what the server decides: for a method's permission of
\* organization scope that shares no question with another, CASL's answer from
\* the rules is the guard's, for members of any roles, owners and wildcard
\* actors.
ClientAgrees ==
    Shown => \A m \in Guarded : \A q \in Questions(Compose(m)) :
        ~Shared(Compose(m), q) => (Can(q) <=> GuardAllows(who, m))

\* Where permissions do share a question the client still shows nothing for
\* nothing: some permission that answers it is allowed by the guard.
NothingForNothing ==
    Shown /\ ~who.wildcard /\ ~who.owner => \A m \in Guarded : \A q \in Questions(Compose(m)) :
        Can(q) => \E n \in Decorated : Speaks(Compose(n), q.subject, q.action) /\ GuardAllows(who, n)
=============================================================================
