----------------------------- MODULE AcEvaluate -----------------------------
(* evaluate of packages/core/src/index.ts as the loop it is: the roles, sorted *)
(* by id, are considered one after the other, each adds an entry to the trace  *)
(* and may move the resolved effect, and the team check comes last.  AcCore's  *)
(* Decide says what the loop must return: a function of the set of the         *)
(* tenant's tables, in which neither the order nor a foreign role counts.      *)
EXTENDS AcCore, Sequences

CONSTANTS
    Orgs, Teams,
    NoTeam,     \* an absent requiredTeamId
    MaxRoles,   \* bound: the roles of one input
    Pending     \* no decision yet

ASSUME PendingAssumption == Pending \notin Effects
ASSUME TeamAssumption == NoTeam \notin Teams
ASSUME MaxRolesAssumption == MaxRoles \in Nat

AssignedRoles == [org : Orgs, perm : Tables]
Lists == UNION {[1 .. n -> AssignedRoles] : n \in 0 .. MaxRoles}

Inputs == [key : Keys, roles : Lists, org : Orgs, teams : SUBSET Teams,
           team : Teams \cup {NoTeam}, wildcard : BOOLEAN]

VARIABLES
    input,      \* the EvaluateInput, its roles sorted by id
    next,       \* the role the loop considers next
    resolved,   \* the effect resolved so far
    trace,      \* the effects of the trace entries
    decision    \* the effect returned

vars == <<input, next, resolved, trace, decision>>

TypeOK ==
    /\ input \in Inputs
    /\ next \in 1 .. Len(input.roles) + 1
    /\ resolved \in Effects
    /\ trace \in Seq(Effects)
    /\ decision \in Effects \cup {Pending}

Init ==
    /\ input \in Inputs
    /\ next = 1
    /\ resolved = "NONE"
    /\ trace = <<>>
    /\ decision = Pending

\* The actor holds every permission: no role is considered.
Bypass ==
    /\ decision = Pending /\ input.wildcard
    /\ decision' = "ALLOW"
    /\ UNCHANGED <<input, next, resolved, trace>>

\* Mutants of Absorb: an allowance that outlives a denial; the last effect wins.
AllowWins(before, e) ==
    IF e = "ALLOW" THEN "ALLOW" ELSE IF before = "NONE" THEN e ELSE before
LastWins(before, e) == IF e = "NONE" THEN before ELSE e

\* What one role makes of the resolved effect.
Absorb(before, e) ==
    IF e = "DENY" THEN "DENY"
    ELSE IF e = "ALLOW" /\ before = "NONE" THEN "ALLOW" ELSE before

\* Mutant of Advance: the loop steps over a role.
Overstep == next' = next + 2

Advance == next' = next + 1

\* One turn of the loop.  A role of another tenant leaves a trace entry only.
Consider ==
    LET r == input.roles[next]
        e == IF r.org = input.org THEN RoleEffect(r.perm, input.key) ELSE "NONE"
    IN  /\ decision = Pending /\ ~input.wildcard
        /\ next <= Len(input.roles)
        /\ trace' = Append(trace, e)
        /\ resolved' = Absorb(resolved, e)
        /\ Advance
        /\ UNCHANGED <<input, decision>>

\* Mutant of InTeam: no required team counts as being in it.
AnyTeam == input.team = NoTeam \/ input.team \in input.teams

InTeam == input.team # NoTeam /\ input.team \in input.teams

Conclude ==
    /\ decision = Pending /\ ~input.wildcard
    /\ next > Len(input.roles)
    /\ decision' = IF resolved = "ALLOW" /\ input.key \in TeamKeys /\ ~InTeam
                   THEN "NONE" ELSE resolved
    /\ UNCHANGED <<input, next, resolved, trace>>

Next == Bypass \/ Consider \/ Conclude

Spec == Init /\ [][Next]_vars

-----------------------------------------------------------------------------

\* The tables of the tenant's roles among the first n.
TablesBefore(n) ==
    {input.roles[j].perm : j \in {x \in 1 .. n : input.roles[x].org = input.org}}

\* The loop invariant: what is resolved is the resolution of the set of tables
\* considered, and the trace has one entry per role considered.
LoopAgrees ==
    /\ resolved = Resolve(TablesBefore(next - 1), input.key)
    /\ Len(trace) = next - 1

\* evaluate returns the declarative decision: an explicit denial beats any
\* allowance, a role of another tenant never counts, a team permission is
\* allowed in the required team only, and what no role allows is not allowed,
\* whatever the order of the roles.
EvaluateAgrees ==
    decision # Pending =>
        decision = IF input.wildcard THEN "ALLOW"
                   ELSE Decide(TablesBefore(Len(input.roles)), input.key, input.team \in input.teams)

\* The trace explains the decision: it is a denial exactly when an entry
\* denies, and an allowance needs an entry that allows.
TraceExplains ==
    decision # Pending /\ ~input.wildcard =>
        LET es == {trace[j] : j \in 1 .. Len(trace)}
        IN  /\ decision = "DENY" <=> "DENY" \in es
            /\ decision = "ALLOW" => "ALLOW" \in es
=============================================================================
