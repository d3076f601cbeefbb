---------------------------- MODULE RoleRegistry ----------------------------
(* What the role and membership service promises, with no requests, no         *)
(* statements and no locks: a registry of roles in which each change happens   *)
(* at once, at exactly the version its client expected, leaves one audit event *)
(* that tells it, and keeps names unique and assignments live.  IamService     *)
(* implements it (ImplementsRegistry); the web client's panels run over it.    *)
EXTENDS AcCore

CONSTANTS
    RegOrgs, RegMembers, RegRoleIds, RegNames, RegRanks,
    RegOrgOf,       \* the organization of a member
    Absent          \* no such role; no difference to tell

VARIABLES
    roles,      \* [org, name, rank, prot, version], or Absent
    effects,    \* the table of each role
    assigned,   \* the roles of each member
    versions,   \* the version of each member's roles
    log         \* the audit events

regVars == <<roles, effects, assigned, versions, log>>

Exists(r) == roles[r] # Absent
RegRolesIn(org) == {r \in RegRoleIds : Exists(r) /\ roles[r].org = org}

Told(type, target, from, to, diff) ==
    log' = log \cup {[type |-> type, target |-> target, from |-> from, to |-> to, diff |-> diff]}

\* No other role of the organization has the name.
NameFree(org, name, r) == \A s \in RegRolesIn(org) \ {r} : roles[s].name # name

\* The id of a deleted role is never given again.
Gone(r) == \E e \in log : e.type = "IAM_ROLE_DELETED" /\ e.target = r

CreateRole(r, org, name, rank) ==
    /\ ~Exists(r) /\ ~Gone(r)
    /\ NameFree(org, name, r)
    /\ roles' = [roles EXCEPT ![r] =
         [org |-> org, name |-> name, rank |-> rank, prot |-> FALSE, version |-> 0]]
    /\ Told("IAM_ROLE_CREATED", r, 0, 0, Absent)
    /\ UNCHANGED <<effects, assigned, versions>>

UpdateRole(r, name, rank) ==
    LET v == roles[r].version
    IN  /\ Exists(r) /\ ~roles[r].prot
        /\ NameFree(roles[r].org, name, r)
        /\ roles' = [roles EXCEPT ![r].name = name, ![r].rank = rank, ![r].version = v + 1]
        /\ Told("IAM_ROLE_UPDATED", r, v, v + 1, Absent)
        /\ UNCHANGED <<effects, assigned, versions>>

\* The event carries the difference to what the change replaces.
SetRolePermissions(r, t) ==
    LET v == roles[r].version
    IN  /\ Exists(r) /\ ~roles[r].prot
        /\ KnownEffects(t) /\ t # effects[r]
        /\ roles' = [roles EXCEPT ![r].version = v + 1]
        /\ effects' = [effects EXCEPT ![r] = t]
        /\ Told("IAM_ROLE_PERMISSIONS_CHANGED", r, v, v + 1, DiffEffects(effects[r], t))
        /\ UNCHANGED <<assigned, versions>>

\* Mutant of Unassigned: the assignments stay.
StillAssigned(r) == [m \in RegMembers |-> assigned[m] \ ({r} \ RegRoleIds)]

Unassigned(r) == [m \in RegMembers |-> assigned[m] \ {r}]

\* Nothing of the role stays.
DeleteRole(r) ==
    LET v == roles[r].version
    IN  /\ Exists(r) /\ ~roles[r].prot
        /\ roles' = [roles EXCEPT ![r] = Absent]
        /\ effects' = [effects EXCEPT ![r] = NoEffects]
        /\ assigned' = Unassigned(r)
        /\ Told("IAM_ROLE_DELETED", r, v, v, Absent)
        /\ UNCHANGED versions

\* All roles of the member are replaced.
SetMemberRoles(m, rs) ==
    LET v == versions[m]
    IN  /\ rs \subseteq RegRolesIn(RegOrgOf[m])
        /\ assigned' = [assigned EXCEPT ![m] = rs]
        /\ versions' = [versions EXCEPT ![m] = v + 1]
        /\ Told("IAM_MEMBER_ROLES_CHANGED", m, v, v + 1, Absent)
        /\ UNCHANGED <<roles, effects>>

RegRows == [org : RegOrgs, name : RegNames, rank : RegRanks, prot : BOOLEAN, version : Nat]

\* One name per role of an organization, assignments to live roles of the
\* member's organization, and no effects but those of roles.
WellFormed ==
    /\ \A r, s \in RegRoleIds :
         Exists(r) /\ Exists(s) /\ roles[r].org = roles[s].org /\ roles[r].name = roles[s].name => r = s
    /\ \A m \in RegMembers : assigned[m] \subseteq RegRolesIn(RegOrgOf[m])
    /\ \A r \in RegRoleIds : ~Exists(r) => effects[r] = NoEffects

RegInit ==
    /\ roles \in [RegRoleIds -> RegRows \cup {Absent}]
    /\ effects \in [RegRoleIds -> Tables]
    /\ assigned \in [RegMembers -> SUBSET RegRoleIds]
    /\ versions \in [RegMembers -> Nat]
    /\ log = {}
    /\ WellFormed

Change ==
    \/ \E r \in RegRoleIds :
         \/ \E org \in RegOrgs, name \in RegNames, rank \in RegRanks : CreateRole(r, org, name, rank)
         \/ \E name \in RegNames, rank \in RegRanks : UpdateRole(r, name, rank)
         \/ \E t \in Tables : SetRolePermissions(r, t)
         \/ DeleteRole(r)
    \/ \E m \in RegMembers, rs \in SUBSET RegRoleIds : SetMemberRoles(m, rs)

\* A change makes or removes a role or moves a version.
RegNext == <<roles, versions>>' # <<roles, versions>> /\ Change

\* Each change happens at once or not at all: nothing else moves the registry.
RegSpec == RegInit /\ [][RegNext]_regVars
=============================================================================
