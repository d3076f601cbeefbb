---------------------------- MODULE MCIamService ----------------------------
(* Instances of IamService for TLC, over the role tables that a migration      *)
(* left: an organization with an owner and a manager whose role allows it to   *)
(* manage roles and members, or with members of other ranks, changed also by   *)
(* an administrator of the installation, who acts by wildcard.                 *)
EXTENDS IamService, TLC

CONSTANTS o1, o2, owner, manager, worker, rManager, rA, rB, nManager, nA, nB, nC,
          kManage

ProcSymmetry == Permutations(Procs)

OneOrg == [m \in Members |-> o1]
Actor(m, own) == [org |-> o1, member |-> m, owner |-> own, wildcard |-> FALSE]

OwnerAndManager == {Actor(owner, TRUE), Actor(manager, FALSE)}
OwnerOnly == {Actor(owner, TRUE)}

Row(n, k, prot) == [org |-> o1, name |-> n, rank |-> k, prot |-> prot, version |-> 0]

\* rManager exists with the best rank, rA below it; any other id is free.
ManagerAndA == [r \in RoleIds |-> CASE r = rManager -> Row(nManager, 1, TRUE)
                                    [] r = rA       -> Row(nA, 2, FALSE)
                                    [] OTHER        -> Nil]
JustA == [r \in RoleIds |-> IF r = rA THEN Row(nA, 2, FALSE) ELSE Nil]
AandB == [r \in RoleIds |-> CASE r = rA -> Row(nA, 1, FALSE)
                              [] r = rB -> Row(nB, 2, FALSE)
                              [] OTHER  -> Nil]

AllowManage == [NoEffects EXCEPT ![kManage] = "ALLOW"]
ManagerAllowed == [r \in RoleIds |-> IF r = rManager THEN AllowManage ELSE NoEffects]
AllowedByA == [r \in RoleIds |-> IF r = rA THEN AllowManage ELSE NoEffects]
ManagerAssigned == [m \in Members |-> IF m = manager THEN {rManager} ELSE {}]
NothingAllowed == [r \in RoleIds |-> NoEffects]
NoneAssigned == [m \in Members |-> {}]
OwnerHasA == [m \in Members |-> IF m = owner THEN {rA} ELSE {}]

\* The manager and the worker share both roles.  An administrator of the
\* installation, who is a member of another organization, acts by wildcard.
BothShared == [m \in Members |-> IF m = owner THEN {} ELSE {rA, rB}]
OwnerElsewhere == [m \in Members |-> IF m = owner THEN o2 ELSE o1]
Root(org) == [org |-> org, member |-> owner, owner |-> FALSE, wildcard |-> TRUE]
RootOnly == {Root(o1)}
OwnerManagerAndRoot == OwnerAndManager \cup {Root(o2)}

\* The requests of each run.
Ask(ops) == {q \in Requests : q.op \in ops /\ (q.op = "setPerms" => q.perm \in {NoEffects, AllowManage})}
AskMembers == {q \in Ask({"delete", "setMember", "update"}) :
    /\ q.op = "setMember" => rA \in q.roles /\ q.member # manager
    /\ q.op = "update" => q.name = nC /\ q.rank = 2}
AskRoles == {q \in Ask({"create", "update", "delete", "setPerms"}) :
    /\ q.role = IF q.op = "create" THEN rB ELSE rA
    /\ q.op \in {"create", "update"} => q.name # nManager
    /\ q.op \in {"create", "delete"} => q.actor.owner
    /\ q.op = "create" => q.rank = 2}
AskManager == Ask({"update", "setPerms"})
AskAll == Ask({"update", "delete", "setPerms", "setMember", "readMember"})
AskMember == Ask({"setMember", "readMember"})
AskRenames == Ask({"create", "update", "delete"})
AskSessions == Ask({"setMember", "setPerms", "delete"})

NullVersions == [m \in Members |-> Nil]
ZeroVersions == [m \in Members |-> 0]
=============================================================================
