------------------------------ MODULE MCPanels ------------------------------
(* One organization of two members, with a role or with none yet.              *)
EXTENDS Panels

CONSTANTS o1, r1, nA

OneOrg == [m \in RegMembers |-> o1]

Row1 == [org |-> o1, name |-> nA, rank |-> 1, prot |-> FALSE, version |-> 0]

Allow(key) == [NoEffects EXCEPT ![key] = "ALLOW"]
FormAllows == {NoEffects, Allow(CHOOSE k \in Keys : TRUE)}
StarAllows == {Allow(Star)}

Start ==
    /\ \E there \in {{}, {r1}} :
         roles = [r \in RegRoleIds |-> IF r \in there THEN Row1 ELSE Absent]
    /\ effects = [r \in RegRoleIds |-> NoEffects]
    /\ assigned = [m \in RegMembers |-> {}]
    /\ versions = [m \in RegMembers |-> 0]
    /\ log = {}
    /\ PanelInit

MCSpec == Start /\ [][Next]_vars
=============================================================================
