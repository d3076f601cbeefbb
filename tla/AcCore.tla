------------------------------- MODULE AcCore -------------------------------
(* The pure rules of @better-auth-ac/core (packages/core/src/index.ts): how    *)
(* the stored effects of several roles resolve to one decision, which role     *)
(* changes an actor may make, which effect lists are storable and what the     *)
(* audit log says of a change of effects.  The module has no variables: the    *)
(* service modules build their guards from these operators.                    *)
(*                                                                             *)
(* A role's stored effects are a table from stored keys to effects; "NONE"     *)
(* stands for the absence of a row.                                            *)
EXTENDS Integers, FiniteSets

CONSTANTS
    Keys,       \* permission keys of the catalog
    TeamKeys,   \* the keys of permissions whose scope is "team"
    Star        \* WILDCARD_PERMISSION, the "*" key

ASSUME CatalogAssumption == TeamKeys \subseteq Keys /\ Star \notin Keys

-----------------------------------------------------------------------------
(* Stored effects. *)

StoredKeys == Keys \cup {Star}
Effects == {"ALLOW", "DENY", "NONE"}
Tables == [StoredKeys -> Effects]

NoEffects == [k \in StoredKeys |-> "NONE"]

\* The keys a table allows: what a mutation passes as grantedKeys.
AllowedKeys(t) == {k \in StoredKeys : t[k] = "ALLOW"}

\* assertKnownEffects on a list without duplicates over the catalog and "*".
KnownEffects(t) == t[Star] # "DENY"

-----------------------------------------------------------------------------
(* Decisions. *)

\* The effect one role contributes for key k: a denial of the key or of "*"
\* wins, then the key's own row, then the wildcard row.
RoleEffect(t, k) ==
    IF "DENY" \in {t[k], t[Star]} THEN "DENY"
    ELSE IF t[k] # "NONE" THEN t[k] ELSE t[Star]

\* The effect of a set of tables, in no order: a denial wins, then an allowance.
Resolve(ts, k) ==
    LET es == {RoleEffect(t, k) : t \in ts}
    IN  IF "DENY" \in es THEN "DENY"
        ELSE IF "ALLOW" \in es THEN "ALLOW" ELSE "NONE"

\* evaluate: the role effects, then the team check on what they allow.
Decide(ts, k, inTeam) ==
    LET e == Resolve(ts, k)
    IN  IF e = "ALLOW" /\ k \in TeamKeys /\ ~inTeam THEN "NONE" ELSE e

\* The decisions of `effective`, which never names a team.
Decisions(ts) == [k \in Keys |-> Decide(ts, k, FALSE)]

Held(ts) == {k \in Keys : Decisions(ts)[k] = "ALLOW"}

-----------------------------------------------------------------------------
(* Role changes. *)

\* Mutant of MayChange: a role of the actor's own rank may be changed.
MayChangePeers(b, org, rank, prot, granted) ==
    /\ b.org = org
    /\ ~prot
    /\ b.owner \/ (rank >= b.rank /\ granted \subseteq b.held)

\* assertRoleMutation: may an actor with boundary b change a role of
\* organization org with this rank and protection, granting these keys?
MayChange(b, org, rank, prot, granted) ==
    /\ b.org = org
    /\ ~prot
    /\ \/ b.owner
       \/ rank > b.rank /\ granted \subseteq b.held

\* Mutant of DiffEffects: the effects that were taken away are left out.
DiffPresent(before, after) ==
    [added   |-> {<<k, after[k]>> : k \in {x \in StoredKeys : before[x] = "NONE" /\ after[x] # "NONE"}},
     changed |-> {<<k, before[k], after[k]>> :
                    k \in {x \in StoredKeys : "NONE" \notin {before[x], after[x]} /\ before[x] # after[x]}},
     removed |-> {}]

\* diffEffects: what the audit event of a permission change carries.
DiffEffects(before, after) ==
    [added   |-> {<<k, after[k]>> :
                    k \in {x \in StoredKeys : before[x] = "NONE" /\ after[x] # "NONE"}},
     changed |-> {<<k, before[k], after[k]>> :
                    k \in {x \in StoredKeys : /\ before[x] # "NONE" /\ after[x] # "NONE"
                                              /\ before[x] # after[x]}},
     removed |-> {k \in StoredKeys : before[k] # "NONE" /\ after[k] = "NONE"}]
=============================================================================
