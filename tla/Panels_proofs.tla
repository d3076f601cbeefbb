---------------------------- MODULE Panels_proofs ----------------------------
(* What a panel's save replaces, and what a panel at rest shows, for every     *)
(* number of roles, members, calls and other clients' changes.                 *)
EXTENDS Panels, TLAPS, FiniteSetTheorems, WellFoundedInduction

-----------------------------------------------------------------------------
(* The registry under the panels. *)

RegTyped ==
    /\ roles \in [RegRoleIds -> RegRows \cup {Absent}]
    /\ effects \in [RegRoleIds -> Tables]
    /\ assigned \in [RegMembers -> SUBSET RegRoleIds]
    /\ versions \in [RegMembers -> Nat]

RegInv == RegTyped /\ WellFormed

Live == {r \in RegRoleIds : Exists(r)}
Dead == {r \in RegRoleIds : Gone(r)}

\* The registry only grows older: a role's content changes with its version, a
\* deleted role never comes back, and a member's roles change with the member's
\* version or with the death of a role.
Ages ==
    /\ Dead \subseteq Dead'
    /\ \A r \in Live : IF Exists(r)' THEN \/ roles'[r] = roles[r] /\ effects'[r] = effects[r]
                                          \/ roles'[r].version = roles[r].version + 1
                                     ELSE Gone(r)'
    /\ \A r \in RegRoleIds \ Live : Exists(r)' => ~Gone(r)
    /\ \A m \in RegMembers : \/ versions'[m] = versions[m] + 1
                             \/ versions'[m] = versions[m] /\ assigned'[m] = assigned[m] \cap Live'

LEMMA ToldStays ==
    ASSUME NEW type, NEW target, NEW from, NEW to, NEW diff, Told(type, target, from, to, diff)
    PROVE  /\ Dead \subseteq Dead'
           /\ \E e \in log' : e.type = type /\ e.target = target
<1> DEFINE e == [type |-> type, target |-> target, from |-> from, to |-> to, diff |-> diff]
<1>1. log' = log \cup {e} /\ e.type = type /\ e.target = target
  BY DEF Told
<1> HIDE DEF e
<1> QED
  BY <1>1 DEF Dead, Gone

LEMMA CreateAges ==
    ASSUME RegInv, NEW r \in RegRoleIds, NEW org \in RegOrgs, NEW name \in RegNames,
           NEW rank \in RegRanks, CreateRole(r, org, name, rank)
    PROVE  RegInv' /\ Ages
<1> DEFINE row == [org |-> org, name |-> name, rank |-> rank, prot |-> FALSE, version |-> 0]
<1>1. /\ roles' = [roles EXCEPT ![r] = row] /\ UNCHANGED <<effects, assigned, versions>>
      /\ ~Exists(r) /\ ~Gone(r) /\ NameFree(org, name, r)
  BY DEF CreateRole
<1>9. row \in RegRows /\ row.org = org /\ row.name = name
  BY DEF RegRows
<1> HIDE DEF row
<1>2. row \in RegRows /\ row.org = org /\ row.name = name /\ row # Absent
  BY <1>9, AbsentAssumption
<1>3. /\ roles' \in [RegRoleIds -> RegRows \cup {Absent}] /\ roles'[r] = row
      /\ \A s \in RegRoleIds \ {r} : roles'[s] = roles[s]
  BY <1>1, <1>2 DEF RegInv, RegTyped
<1>4. \A m \in RegMembers : r \notin assigned[m]
  BY <1>1 DEF RegInv, WellFormed, RegRolesIn
<1>5. WellFormed'
  <2>1. ASSUME NEW s \in RegRoleIds, NEW t \in RegRoleIds, Exists(s)', Exists(t)',
               roles'[s].org = roles'[t].org, roles'[s].name = roles'[t].name
        PROVE  s = t
    BY <1>1, <1>2, <1>3, <2>1 DEF RegInv, WellFormed, Exists, NameFree, RegRolesIn
  <2>2. \A m \in RegMembers : assigned'[m] \subseteq RegRolesIn(RegOrgOf[m])'
    BY <1>1, <1>3, <1>4 DEF RegInv, RegTyped, WellFormed, RegRolesIn, Exists
  <2>3. \A s \in RegRoleIds : ~Exists(s)' => effects'[s] = NoEffects
    BY <1>1, <1>2, <1>3 DEF RegInv, WellFormed, Exists
  <2> QED
    BY <2>1, <2>2, <2>3 DEF WellFormed
<1>6. Dead \subseteq Dead'
  BY ToldStays DEF CreateRole
<1>7. \A m \in RegMembers : versions'[m] = versions[m] /\ assigned'[m] = assigned[m] \cap Live'
  BY <1>1, <1>3, <1>4 DEF RegInv, RegTyped, WellFormed, RegRolesIn, Exists, Live
<1>8. Ages
  BY <1>1, <1>3, <1>6, <1>7 DEF Ages, Live, Exists
<1> QED
  BY <1>1, <1>3, <1>5, <1>8 DEF RegInv, RegTyped

\* A role keeps its organization, and another name is a free one.
LEMMA ChangeAges ==
    ASSUME RegInv, NEW r \in Live, NEW row \in RegRows,
           roles' = [roles EXCEPT ![r] = row], row.version = roles[r].version + 1,
           row.org = roles[r].org, NameFree(roles[r].org, row.name, r),
           NEW t \in Tables, effects' = [effects EXCEPT ![r] = t],
           UNCHANGED <<assigned, versions>>, Dead \subseteq Dead'
    PROVE  RegInv' /\ Ages
<1>1. r \in RegRoleIds /\ Exists(r) /\ row # Absent
  BY AbsentAssumption DEF Live
<1>2. /\ roles' \in [RegRoleIds -> RegRows \cup {Absent}] /\ roles'[r] = row
      /\ \A s \in RegRoleIds \ {r} : roles'[s] = roles[s]
      /\ effects' \in [RegRoleIds -> Tables]
      /\ \A s \in RegRoleIds \ {r} : effects'[s] = effects[s]
  BY <1>1 DEF RegInv, RegTyped
<1>3. WellFormed'
  <2>1. ASSUME NEW s \in RegRoleIds, NEW u \in RegRoleIds, Exists(s)', Exists(u)',
               roles'[s].org = roles'[u].org, roles'[s].name = roles'[u].name
        PROVE  s = u
    BY <1>1, <1>2, <2>1 DEF RegInv, WellFormed, Exists, NameFree, RegRolesIn
  <2>2. \A m \in RegMembers : assigned'[m] \subseteq RegRolesIn(RegOrgOf[m])'
    BY <1>1, <1>2 DEF RegInv, RegTyped, WellFormed, RegRolesIn, Exists
  <2>3. \A s \in RegRoleIds : ~Exists(s)' => effects'[s] = NoEffects
    BY <1>1, <1>2 DEF RegInv, WellFormed, Exists
  <2> QED
    BY <2>1, <2>2, <2>3 DEF WellFormed
<1>4. \A m \in RegMembers : versions'[m] = versions[m] /\ assigned'[m] = assigned[m] \cap Live'
  BY <1>1, <1>2 DEF RegInv, RegTyped, WellFormed, RegRolesIn, Exists, Live
<1>5. Ages
  BY <1>1, <1>2, <1>4 DEF Ages, Live, Exists
<1> QED
  BY <1>2, <1>3, <1>5 DEF RegInv, RegTyped

LEMMA UpdateAges ==
    ASSUME RegInv, NEW r \in RegRoleIds, NEW name \in RegNames, NEW rank \in RegRanks,
           UpdateRole(r, name, rank)
    PROVE  RegInv' /\ Ages
<1> DEFINE row == [roles[r] EXCEPT !.name = name, !.rank = rank, !.version = roles[r].version + 1]
<1>1. /\ Exists(r) /\ NameFree(roles[r].org, name, r)
      /\ roles' = [roles EXCEPT ![r].name = name, ![r].rank = rank,
                                ![r].version = roles[r].version + 1]
      /\ UNCHANGED <<effects, assigned, versions>>
  BY DEF UpdateRole
<1>2. roles[r] \in RegRows /\ effects[r] \in Tables
  BY <1>1 DEF RegInv, RegTyped, Exists
<1>3. /\ row \in RegRows /\ row.org = roles[r].org /\ row.name = name
      /\ row.version = roles[r].version + 1
  <2> DEFINE k == roles[r]
             v == k.version + 1
  <2>1. v \in Nat /\ k \in RegRows
    BY <1>2 DEF RegRows
  <2> HIDE DEF k, v
  <2>2. LET x == [k EXCEPT !.name = name, !.rank = rank, !.version = v]
        IN  x \in RegRows /\ x.org = k.org /\ x.name = name /\ x.version = v
    BY <2>1 DEF RegRows
  <2> QED
    BY <2>2 DEF k, v
<1>4. roles' = [roles EXCEPT ![r] = row]
  BY <1>1 DEF RegInv, RegTyped
<1>5. effects' = [effects EXCEPT ![r] = effects[r]]
  BY <1>1 DEF RegInv, RegTyped
<1>6. Dead \subseteq Dead' /\ r \in Live
  BY <1>1, ToldStays DEF UpdateRole, Live
<1> HIDE DEF row
<1> QED
  BY <1>1, <1>2, <1>3, <1>4, <1>5, <1>6, ChangeAges

LEMMA PermissionsAges ==
    ASSUME RegInv, NEW r \in RegRoleIds, NEW t \in Tables, SetRolePermissions(r, t)
    PROVE  RegInv' /\ Ages
<1> DEFINE row == [roles[r] EXCEPT !.version = roles[r].version + 1]
<1>1. /\ Exists(r) /\ roles' = [roles EXCEPT ![r].version = roles[r].version + 1]
      /\ effects' = [effects EXCEPT ![r] = t] /\ UNCHANGED <<assigned, versions>>
  BY DEF SetRolePermissions
<1>2. roles[r] \in RegRows
  BY <1>1 DEF RegInv, RegTyped, Exists
<1>3. /\ row \in RegRows /\ row.org = roles[r].org /\ row.name = roles[r].name
      /\ row.version = roles[r].version + 1
  BY <1>2 DEF RegRows
<1>4. roles' = [roles EXCEPT ![r] = row]
  BY <1>1 DEF RegInv, RegTyped
<1>5. NameFree(roles[r].org, roles[r].name, r)
  BY <1>1 DEF RegInv, WellFormed, NameFree, RegRolesIn
<1>6. Dead \subseteq Dead' /\ r \in Live
  BY <1>1, ToldStays DEF SetRolePermissions, Live
<1> HIDE DEF row
<1> QED
  BY <1>1, <1>3, <1>4, <1>5, <1>6, ChangeAges

LEMMA DeleteAges ==
    ASSUME RegInv, NEW r \in RegRoleIds, DeleteRole(r)
    PROVE  RegInv' /\ Ages
<1>1. /\ Exists(r) /\ roles' = [roles EXCEPT ![r] = Absent]
      /\ effects' = [effects EXCEPT ![r] = NoEffects]
      /\ assigned' = [m \in RegMembers |-> assigned[m] \ {r}] /\ UNCHANGED versions
  BY DEF DeleteRole, Unassigned
<1>2. NoEffects \in Tables
  BY DEF NoEffects, Tables, Effects
<1>3. /\ roles' \in [RegRoleIds -> RegRows \cup {Absent}] /\ ~Exists(r)'
      /\ \A s \in RegRoleIds \ {r} : roles'[s] = roles[s]
      /\ effects' \in [RegRoleIds -> Tables] /\ effects'[r] = NoEffects
      /\ \A s \in RegRoleIds \ {r} : effects'[s] = effects[s]
      /\ assigned' \in [RegMembers -> SUBSET RegRoleIds]
      /\ \A m \in RegMembers : assigned'[m] = assigned[m] \ {r}
  BY <1>1, <1>2 DEF RegInv, RegTyped, Exists
<1>4. WellFormed'
  BY <1>1, <1>3 DEF RegInv, WellFormed, RegRolesIn, Exists
<1>5. Dead \subseteq Dead' /\ Gone(r)'
  <2>1. Told("IAM_ROLE_DELETED", r, roles[r].version, roles[r].version, Absent)
    BY DEF DeleteRole
  <2> QED
    BY <2>1, ToldStays DEF Gone
<1>6. \A m \in RegMembers : versions'[m] = versions[m] /\ assigned'[m] = assigned[m] \cap Live'
  BY <1>1, <1>3 DEF RegInv, RegTyped, WellFormed, RegRolesIn, Exists, Live
<1>7. Ages
  BY <1>3, <1>5, <1>6 DEF Ages, Live, Exists
<1> QED
  BY <1>1, <1>3, <1>4, <1>7 DEF RegInv, RegTyped

LEMMA MemberAges ==
    ASSUME RegInv, NEW m \in RegMembers, NEW rs \in SUBSET RegRoleIds, SetMemberRoles(m, rs)
    PROVE  RegInv' /\ Ages
<1>1. /\ rs \subseteq RegRolesIn(RegOrgOf[m]) /\ assigned' = [assigned EXCEPT ![m] = rs]
      /\ versions' = [versions EXCEPT ![m] = versions[m] + 1] /\ UNCHANGED <<roles, effects>>
  BY DEF SetMemberRoles
<1>2. assigned' \in [RegMembers -> SUBSET RegRoleIds] /\ versions' \in [RegMembers -> Nat]
  BY <1>1 DEF RegInv, RegTyped
<1>3. WellFormed'
  BY <1>1, <1>2 DEF RegInv, RegTyped, WellFormed, RegRolesIn, Exists
<1>4. Dead \subseteq Dead'
  BY ToldStays DEF SetMemberRoles
<1>5. \A n \in RegMembers : \/ versions'[n] = versions[n] + 1
                            \/ versions'[n] = versions[n] /\ assigned'[n] = assigned[n] \cap Live'
  BY <1>1, <1>2 DEF RegInv, RegTyped, WellFormed, RegRolesIn, Exists, Live
<1>6. Ages
  BY <1>1, <1>4, <1>5 DEF Ages, Live, Exists
<1> QED
  BY <1>1, <1>2, <1>3, <1>6 DEF RegInv, RegTyped

LEMMA StutterAges ==
    ASSUME RegInv, UNCHANGED regVars
    PROVE  RegInv' /\ Ages
<1>1. RegInv'
  BY DEF RegInv, RegTyped, WellFormed, RegRolesIn, Exists, regVars
<1>2. \A m \in RegMembers : versions'[m] = versions[m] /\ assigned'[m] = assigned[m] \cap Live'
  BY DEF RegInv, RegTyped, WellFormed, RegRolesIn, Exists, Live, regVars
<1> QED
  BY <1>1, <1>2 DEF Ages, Live, Dead, Exists, Gone, regVars

-----------------------------------------------------------------------------
(* What a panel holds.  Rows and boxes are compared with a registry that is    *)
(* given, so that what was held before a step can be told of the registry      *)
(* after it.                                                                   *)

\* A row that the server answered is the role's as long as the version is; it is
\* never ahead of the role, and never of an id that may still be given.
RowTrue(row, role, table, gone) ==
    row # Absent /\ row.answered =>
        IF role = Absent THEN gone
        ELSE /\ row.version <= role.version
             /\ row.version = role.version =>
                  row = [name |-> role.name, rank |-> role.rank, perm |-> table,
                         version |-> role.version, answered |-> TRUE]

ListTrue(list, rs, es, dead) == \A r \in RegRoleIds : RowTrue(list[r], rs[r], es[r], r \in dead)

\* The same of a member's boxes, which may name roles that died since.
FormTrue(f, vs, as, live, dead) ==
    f.answered /\ f.of \in RegMembers =>
        /\ f.version <= vs[f.of]
        /\ f.version = vs[f.of] => as[f.of] = f.roles \cap live
        /\ f.roles \subseteq live \cup dead

\* A save expects the version that the panel held when it was made.
Expects(k) ==
    /\ k.q.op \in {"update", "setPerms", "delete"} =>
         k.rows[k.q.role] # Absent /\ k.q.expected = k.rows[k.q.role].version
    /\ k.q.op = "setMember" => k.q.expected = k.boxes.version

CallTrue(k, rs, es, vs, as, live, dead) ==
    /\ ListTrue(k.rows, rs, es, dead) /\ ListTrue(k.list, rs, es, dead)
    /\ FormTrue(k.boxes, vs, as, live, dead) /\ FormTrue(k.answer, vs, as, live, dead)
    /\ Expects(k)

PanelInv ==
    /\ TypeOK /\ RegTyped
    /\ ListTrue(shown, roles, effects, Dead)
    /\ FormTrue(form, versions, assigned, Live, Dead)
    /\ \A i \in Slots : calls[i] # Absent =>
         CallTrue(calls[i], roles, effects, versions, assigned, Live, Dead)

LEMMA RegInvOf ==
    ASSUME PanelInv
    PROVE  RegInv
BY DEF PanelInv, TypeOK, RegInv

LEMMA ListStays ==
    ASSUME RegInv, RegInv', Ages, NEW list \in PanelLists, ListTrue(list, roles, effects, Dead)
    PROVE  ListTrue(list, roles', effects', Dead')
<1> SUFFICES ASSUME NEW r \in RegRoleIds, NEW row, row = list[r], row # Absent, row.answered
             PROVE  RowTrue(row, roles'[r], effects'[r], r \in Dead')
  BY DEF ListTrue, RowTrue
<1>1. row \in PanelRows /\ row.version \in Nat
  BY DEF PanelLists, PanelRows
<1>2. RowTrue(row, roles[r], effects[r], r \in Dead)
  BY DEF ListTrue
<1>3. CASE roles[r] = Absent
  <2>1. r \in Dead
    BY <1>2, <1>3 DEF RowTrue
  <2>2. ~Exists(r)' /\ r \in Dead'
    BY <1>3, <2>1 DEF Ages, Live, Dead, Exists
  <2> QED
    BY <2>2 DEF RowTrue, Exists
<1>4. CASE roles[r] # Absent
  <2>1. r \in Live /\ roles[r].version \in Nat
    BY <1>4 DEF RegInv, RegTyped, RegRows, Live, Exists
  <2>2. CASE ~Exists(r)'
    BY <2>1, <2>2 DEF Ages, RowTrue, Exists, Dead
  <2>3. CASE Exists(r)' /\ roles'[r] = roles[r] /\ effects'[r] = effects[r]
    BY <1>2, <1>4, <2>3 DEF RowTrue
  <2>4. CASE Exists(r)' /\ roles'[r].version = roles[r].version + 1
    BY <1>1, <1>2, <1>4, <2>1, <2>4 DEF RowTrue, Exists
  <2> QED
    BY <2>1, <2>2, <2>3, <2>4 DEF Ages
<1> QED
  BY <1>3, <1>4

LEMMA FormStays ==
    ASSUME RegInv, RegInv', Ages, NEW f \in Forms, FormTrue(f, versions, assigned, Live, Dead)
    PROVE  FormTrue(f, versions', assigned', Live', Dead')
<1> SUFFICES ASSUME f.answered, NEW m \in RegMembers, f.of = m
             PROVE  /\ f.version <= versions'[m]
                    /\ f.version = versions'[m] => assigned'[m] = f.roles \cap Live'
                    /\ f.roles \subseteq Live' \cup Dead'
  BY DEF FormTrue
<1>1. /\ f.version \in Int /\ f.roles \in SUBSET RegRoleIds
      /\ versions[m] \in Nat /\ versions'[m] \in Nat
  BY DEF Forms, RegInv, RegTyped
<1>2. /\ f.version <= versions[m]
      /\ f.version = versions[m] => assigned[m] = f.roles \cap Live
      /\ f.roles \subseteq Live \cup Dead
  BY DEF FormTrue
<1>3. f.roles \subseteq Live' \cup Dead'
  BY <1>1, <1>2 DEF Ages, Live, Dead
<1>4. f.roles \cap Live' \subseteq Live
  BY <1>1, <1>2 DEF Ages, Live, Dead
<1>5. CASE versions'[m] = versions[m] + 1
  BY <1>1, <1>2, <1>3, <1>5
<1>6. CASE versions'[m] = versions[m] /\ assigned'[m] = assigned[m] \cap Live'
  BY <1>1, <1>2, <1>3, <1>4, <1>6
<1> QED
  BY <1>5, <1>6 DEF Ages

\* A call that was there before a step, or that the step makes.
Continued(k, i) ==
    /\ calls[i] # Absent
    /\ k.q = calls[i].q /\ k.rows = calls[i].rows /\ k.boxes = calls[i].boxes
    /\ k.list = calls[i].list \/ ListTrue(k.list, roles', effects', Dead')
    /\ k.answer = calls[i].answer \/ FormTrue(k.answer, versions', assigned', Live', Dead')

Begun(k) == k.rows = shown /\ k.boxes = form /\ k.list = NoRows /\ k.answer = NoForm /\ Expects(k)

CallsTurn ==
    /\ calls' \in [Slots -> Calls \cup {Absent}]
    /\ \A i \in Slots : calls'[i] # Absent => Continued(calls'[i], i) \/ Begun(calls'[i])

LEMMA NothingTrue ==
    ASSUME NEW rs, NEW es, NEW vs, NEW as, NEW live, NEW dead
    PROVE  /\ ListTrue(NoRows, rs, es, dead) /\ FormTrue(NoForm, vs, as, live, dead)
           /\ NoRows \in PanelLists /\ NoForm \in Forms
BY DEF ListTrue, RowTrue, FormTrue, NoRows, NoForm, PanelLists, Forms

\* A step of the registry and the calls keeps what the panel holds true.
LEMMA Turn ==
    ASSUME PanelInv, TypeOK', RegInv', Ages, CallsTurn,
           ListTrue(shown', roles', effects', Dead'),
           FormTrue(form', versions', assigned', Live', Dead')
    PROVE  PanelInv'
<1>1. RegInv
  BY RegInvOf
<1>2. ASSUME NEW i \in Slots, calls'[i] # Absent
      PROVE  CallTrue(calls'[i], roles', effects', versions', assigned', Live', Dead')
  <2> DEFINE k == calls'[i]
  <2>1. shown \in PanelLists /\ form \in Forms
    BY DEF PanelInv, TypeOK
  <2>2. CASE Continued(k, i)
    <3>1. calls[i] \in Calls /\ CallTrue(calls[i], roles, effects, versions, assigned, Live, Dead)
      BY <2>2 DEF PanelInv, TypeOK, Continued
    <3>2. /\ calls[i].rows \in PanelLists /\ calls[i].list \in PanelLists
          /\ calls[i].boxes \in Forms /\ calls[i].answer \in Forms
      BY <3>1 DEF Calls
    <3>3. /\ ListTrue(calls[i].rows, roles', effects', Dead')
          /\ ListTrue(calls[i].list, roles', effects', Dead')
      BY <1>1, <3>1, <3>2, ListStays DEF CallTrue
    <3>4. /\ FormTrue(calls[i].boxes, versions', assigned', Live', Dead')
          /\ FormTrue(calls[i].answer, versions', assigned', Live', Dead')
      BY <1>1, <3>1, <3>2, FormStays DEF CallTrue
    <3>5. Expects(k)
      BY <2>2, <3>1 DEF CallTrue, Expects, Continued
    <3> QED
      BY <2>2, <3>3, <3>4, <3>5 DEF CallTrue, Continued
  <2>3. CASE Begun(k)
    <3>1. ListTrue(shown, roles', effects', Dead') /\ FormTrue(form, versions', assigned', Live', Dead')
      BY <1>1, <2>1, ListStays, FormStays DEF PanelInv
    <3>2. ListTrue(NoRows, roles', effects', Dead') /\ FormTrue(NoForm, versions', assigned', Live', Dead')
      BY NothingTrue
    <3> QED
      BY <2>3, <3>1, <3>2 DEF CallTrue, Begun
  <2> QED
    BY <1>2, <2>2, <2>3 DEF CallsTurn
<1> QED
  BY <1>2 DEF PanelInv, RegInv

-----------------------------------------------------------------------------
(* The server's steps. *)

LEMMA SaveFields ==
    ASSUME NEW k \in Calls
    PROVE  /\ k.q.op \in {"create", "update", "setPerms", "delete", "setMember", "load", "loadMember"}
           /\ k.q.op = "create" => k.q.name \in RegNames /\ k.q.rank \in RegRanks
           /\ k.q.op = "update" =>
                k.q.role \in RegRoleIds /\ k.q.name \in RegNames /\ k.q.rank \in RegRanks
           /\ k.q.op = "setPerms" => k.q.role \in RegRoleIds /\ k.q.perm \in Tables
           /\ k.q.op = "delete" => k.q.role \in RegRoleIds
           /\ k.q.op = "setMember" => k.q.member \in RegMembers /\ k.q.roles \in SUBSET RegRoleIds
           /\ k.q.op = "loadMember" => k.q.member \in RegMembers
<1>1. k.q \in RoleSaves \/ k.q \in MemberSaves \/ k.q \in Loads
  BY DEF Calls
<1>2. FormTables \subseteq Tables
  BY TablesAssumption
<1>3. CASE k.q \in RoleSaves
  BY <1>2, <1>3 DEF RoleSaves
<1>4. CASE k.q \in MemberSaves
  BY <1>4 DEF MemberSaves
<1>5. CASE k.q \in Loads
  BY <1>5 DEF Loads
<1> QED
  BY <1>1, <1>3, <1>4, <1>5

LEMMA RowsNowTrue ==
    ASSUME RegInv', NEW rs \in SUBSET RegRoleIds
    PROVE  RowsNow(rs) \in PanelLists /\ ListTrue(RowsNow(rs), roles', effects', Dead')
<1>1. ASSUME NEW r \in RegRoleIds, roles'[r] # Absent
      PROVE  /\ RowOf(r) \in PanelRows
             /\ RowTrue(RowOf(r), roles'[r], effects'[r], r \in Dead')
  <2>1. roles'[r] \in RegRows /\ effects'[r] \in Tables
    BY <1>1 DEF RegInv, RegTyped
  <2>2. roles'[r].version \in Nat
    BY <2>1 DEF RegRows
  <2>3. RowOf(r) \in PanelRows
    BY <2>1 DEF RowOf, PanelRows, RegRows
  <2>4. RowOf(r).version = roles'[r].version
    BY DEF RowOf
  <2>5. RowTrue(RowOf(r), roles'[r], effects'[r], r \in Dead')
    BY <1>1, <2>2, <2>4 DEF RowTrue, RowOf
  <2> QED
    BY <2>3, <2>5
<1>2. RowsNow(rs) \in PanelLists
  BY <1>1 DEF RowsNow, PanelLists
<1>3. ASSUME NEW r \in RegRoleIds
      PROVE  RowTrue(RowsNow(rs)[r], roles'[r], effects'[r], r \in Dead')
  <2>1. RowsNow(rs)[r] = IF r \in rs /\ roles'[r] # Absent THEN RowOf(r) ELSE Absent
    BY DEF RowsNow
  <2>2. RowTrue(Absent, roles'[r], effects'[r], r \in Dead')
    BY DEF RowTrue
  <2> QED
    BY <1>1, <2>1, <2>2
<1> QED
  BY <1>2, <1>3 DEF ListTrue

LEMMA FormNowTrue ==
    ASSUME RegInv', NEW m \in RegMembers
    PROVE  FormNow(m) \in Forms /\ FormTrue(FormNow(m), versions', assigned', Live', Dead')
<1>1. assigned'[m] \in SUBSET RegRoleIds /\ versions'[m] \in Nat
  BY DEF RegInv, RegTyped
<1>2. assigned'[m] \subseteq Live'
  BY <1>1 DEF RegInv, WellFormed, RegRolesIn, Live
<1>3. /\ FormNow(m).of = m /\ FormNow(m).roles = assigned'[m]
      /\ FormNow(m).version = versions'[m]
  BY DEF FormNow
<1>4. FormNow(m) \in Forms
  BY <1>1 DEF FormNow, Forms
<1> QED
  BY <1>1, <1>2, <1>3, <1>4 DEF FormTrue

\* What an answer does to the calls.
Answers(i, ok) ==
    /\ calls'[i].ok = ok /\ calls'[i].stage = "answered"
    /\ calls'[i].q = calls[i].q /\ calls'[i].rows = calls[i].rows /\ calls'[i].boxes = calls[i].boxes
    /\ \A j \in Slots \ {i} : calls'[j] = calls[j]

LEMMA Replied ==
    ASSUME PanelInv, NEW i \in Slots, calls[i] # Absent, NEW ok \in BOOLEAN,
           NEW list \in PanelLists, ListTrue(list, roles', effects', Dead'),
           NEW answer \in Forms, FormTrue(answer, versions', assigned', Live', Dead'),
           Reply(i, ok, list, answer)
    PROVE  CallsTurn /\ Answers(i, ok)
<1> DEFINE k == calls[i]
           over == IF IsLoad(calls[i]) THEN {j \in Out : calls[j].stage = "answered"} ELSE {}
           r == [k EXCEPT !.stage = "answered", !.ok = ok, !.list = list, !.answer = answer,
                          !.over = over]
<1>1. calls \in [Slots -> Calls \cup {Absent}] /\ k \in Calls
  BY DEF PanelInv, TypeOK
<1>2. over \in SUBSET Slots
  BY DEF Out
<1>3. calls' = [calls EXCEPT ![i] = r]
  BY DEF Reply
<1>4. /\ r \in Calls /\ r.ok = ok /\ r.stage = "answered" /\ r.list = list /\ r.answer = answer
      /\ r.q = k.q /\ r.rows = k.rows /\ r.boxes = k.boxes
  <2> HIDE DEF k, over
  <2> QED
    BY <1>1, <1>2 DEF Calls
<1> HIDE DEF r
<1>5. /\ calls' \in [Slots -> Calls \cup {Absent}] /\ calls'[i] = r
      /\ \A j \in Slots \ {i} : calls'[j] = calls[j]
  BY <1>1, <1>3, <1>4
<1>6. Continued(calls'[i], i)
  BY <1>4, <1>5 DEF Continued
<1>7. \A j \in Slots \ {i} : calls'[j] # Absent => Continued(calls'[j], j)
  BY <1>5 DEF Continued
<1> QED
  BY <1>4, <1>5, <1>6, <1>7 DEF CallsTurn, Answers

\* A step of the server leaves the page alone.
LEMMA ServerStep ==
    ASSUME PanelInv, RegInv', Ages, CallsTurn, events' \in Nat, 
           UNCHANGED <<tab, page, member, blemish>>, used' \in [saves : Nat, others : Nat]
    PROVE  PanelInv'
<1>1. RegInv /\ shown \in PanelLists /\ form \in Forms
  BY RegInvOf DEF PanelInv, TypeOK
<1>2. UNCHANGED <<shown, drafts, form>>
  BY DEF page
<1>3. ListTrue(shown', roles', effects', Dead') /\ FormTrue(form', versions', assigned', Live', Dead')
  BY <1>1, <1>2, ListStays, FormStays DEF PanelInv
<1>4. TypeOK'
  BY <1>2 DEF PanelInv, TypeOK, RegInv, CallsTurn
<1> QED
  BY <1>3, <1>4, Turn

LEMMA ReadStep ==
    ASSUME PanelInv, NEW i \in Slots, Read(i)
    PROVE  PanelInv' /\ UNCHANGED regVars
<1>1. /\ UNCHANGED <<regVars, events>> /\ UNCHANGED <<tab, page, member, blemish, used>>
      /\ calls[i] # Absent /\ IsLoad(calls[i])
      /\ \/ Reply(i, TRUE, RowsNow(RegRoleIds), NoForm)
         \/ calls[i].q.op = "loadMember" /\ Reply(i, TRUE, NoRows, FormNow(calls[i].q.member))
  BY DEF Read, Serve, IsLoad
<1>2. RegInv' /\ Ages
  BY <1>1, RegInvOf, StutterAges
<1>3. CallsTurn
  <2>1. /\ RowsNow(RegRoleIds) \in PanelLists
        /\ ListTrue(RowsNow(RegRoleIds), roles', effects', Dead')
    BY <1>2, RowsNowTrue
  <2>2. /\ ListTrue(NoRows, roles', effects', Dead') /\ NoRows \in PanelLists
        /\ FormTrue(NoForm, versions', assigned', Live', Dead') /\ NoForm \in Forms
    BY NothingTrue
  <2>3. CASE Reply(i, TRUE, RowsNow(RegRoleIds), NoForm)
    BY <1>1, <2>1, <2>2, <2>3, Replied
  <2>4. CASE calls[i].q.op = "loadMember" /\ Reply(i, TRUE, NoRows, FormNow(calls[i].q.member))
    <3>1. calls[i] \in Calls
      BY <1>1 DEF PanelInv, TypeOK
    <3>2. calls[i].q.member \in RegMembers
      BY <2>4, <3>1, SaveFields
    <3>3. /\ FormNow(calls[i].q.member) \in Forms
          /\ FormTrue(FormNow(calls[i].q.member), versions', assigned', Live', Dead')
      BY <1>2, <3>2, FormNowTrue
    <3> QED
      BY <1>1, <2>2, <2>4, <3>3, Replied
  <2> QED
    BY <1>1, <2>3, <2>4
<1>4. events' \in Nat /\ used' \in [saves : Nat, others : Nat]
  BY <1>1 DEF PanelInv, TypeOK
<1> QED
  BY <1>1, <1>2, <1>3, <1>4, ServerStep

\* The registry's side of a save that is taken.
LEMMA GrantAges ==
    ASSUME PanelInv, NEW i \in Slots, Grant(i)
    PROVE  /\ RegInv' /\ Ages
           /\ Reply(i, TRUE, NoRows, NoForm) \/ \E r \in RegRoleIds : Made(i, r)
<1> DEFINE q == calls[i].q
<1>1. calls[i] \in Calls /\ RegInv
  BY RegInvOf DEF Grant, Serve, PanelInv, TypeOK
<1>2. ASSUME q.op = "create", NEW r \in RegRoleIds, NEW org \in RegOrgs,
             CreateRole(r, org, q.name, q.rank), Made(i, r)
      PROVE  RegInv' /\ Ages
  <2>1. q.name \in RegNames /\ q.rank \in RegRanks
    BY <1>1, <1>2, SaveFields
  <2> QED
    BY <1>1, <1>2, <2>1, CreateAges
<1>3. CASE q.op = "update" /\ UpdateRole(q.role, q.name, q.rank) /\ Made(i, q.role)
  <2>1. q.role \in RegRoleIds /\ q.name \in RegNames /\ q.rank \in RegRanks
    BY <1>1, <1>3, SaveFields
  <2> QED
    BY <1>1, <1>3, <2>1, UpdateAges
<1>4. CASE q.op = "setPerms" /\ SetRolePermissions(q.role, q.perm) /\ Made(i, q.role)
  <2>1. q.role \in RegRoleIds /\ q.perm \in Tables
    BY <1>1, <1>4, SaveFields
  <2> QED
    BY <1>1, <1>4, <2>1, PermissionsAges
<1>5. CASE q.op = "delete" /\ DeleteRole(q.role) /\ Reply(i, TRUE, NoRows, NoForm)
  <2>1. q.role \in RegRoleIds
    BY <1>1, <1>5, SaveFields
  <2> QED
    BY <1>1, <1>5, <2>1, DeleteAges
<1>6. CASE q.op = "setMember" /\ SetMemberRoles(q.member, q.roles) /\ Reply(i, TRUE, NoRows, NoForm)
  <2>1. q.member \in RegMembers /\ q.roles \in SUBSET RegRoleIds
    BY <1>1, <1>6, SaveFields
  <2> QED
    BY <1>1, <1>6, <2>1, MemberAges
<1> QED
  BY <1>2, <1>3, <1>4, <1>5, <1>6 DEF Grant

\* An answer to a save.
LEMMA SaveAnswered ==
    ASSUME PanelInv, NEW i \in Slots, Serve(i), RegInv', Ages, events' \in Nat, NEW ok \in BOOLEAN,
           Reply(i, ok, NoRows, NoForm) \/ (ok = TRUE /\ \E r \in RegRoleIds : Made(i, r))
    PROVE  PanelInv' /\ Answers(i, ok)
<1>1. UNCHANGED <<tab, page, member, blemish, used>> /\ calls[i] # Absent
  BY DEF Serve
<1>2. /\ ListTrue(NoRows, roles', effects', Dead') /\ NoRows \in PanelLists
      /\ FormTrue(NoForm, versions', assigned', Live', Dead') /\ NoForm \in Forms
  BY NothingTrue
<1>3. ASSUME Reply(i, ok, NoRows, NoForm)
      PROVE  CallsTurn /\ Answers(i, ok)
  BY <1>1, <1>2, <1>3, Replied
<1>4. ASSUME ok = TRUE, NEW r \in RegRoleIds, Made(i, r)
      PROVE  CallsTurn /\ Answers(i, ok)
  <2>1. RowsNow({r}) \in PanelLists /\ ListTrue(RowsNow({r}), roles', effects', Dead')
    BY RowsNowTrue
  <2>2. Reply(i, ok, RowsNow({r}), NoForm)
    BY <1>4 DEF Made
  <2> QED
    BY <1>1, <1>2, <2>1, <2>2, Replied
<1>5. CallsTurn /\ Answers(i, ok)
  BY <1>3, <1>4
<1>6. used' \in [saves : Nat, others : Nat]
  BY <1>1 DEF PanelInv, TypeOK
<1> QED
  BY <1>1, <1>5, <1>6, ServerStep

LEMMA GrantStep ==
    ASSUME PanelInv, NEW i \in Slots, Grant(i)
    PROVE  PanelInv' /\ Answers(i, TRUE) /\ Ages
<1>1. /\ RegInv' /\ Ages
      /\ Reply(i, TRUE, NoRows, NoForm) \/ \E r \in RegRoleIds : Made(i, r)
  BY GrantAges
<1>2. Serve(i) /\ events' \in Nat
  BY DEF Grant, PanelInv, TypeOK
<1> QED
  BY <1>1, <1>2, SaveAnswered

LEMMA SameStep ==
    ASSUME PanelInv, NEW i \in Slots, Same(i)
    PROVE  PanelInv' /\ Answers(i, TRUE) /\ UNCHANGED regVars
<1>1. Serve(i) /\ events' \in Nat /\ UNCHANGED regVars
  BY DEF Same, PanelInv, TypeOK
<1>2. RegInv' /\ Ages
  BY <1>1, RegInvOf, StutterAges
<1>3. calls[i] \in Calls
  BY <1>1 DEF Serve, PanelInv, TypeOK
<1>4. Reply(i, TRUE, NoRows, NoForm) \/ \E r \in RegRoleIds : Made(i, r)
  BY <1>3, SaveFields DEF Same
<1> QED
  BY <1>1, <1>2, <1>4, SaveAnswered

LEMMA RefuseStep ==
    ASSUME PanelInv, NEW i \in Slots, Refuse(i)
    PROVE  PanelInv' /\ Answers(i, FALSE) /\ UNCHANGED regVars
<1>1. /\ Serve(i) /\ UNCHANGED regVars /\ Reply(i, FALSE, NoRows, NoForm)
      /\ events' \in {events, events + 1}
  BY DEF Refuse
<1>3. events' \in Nat
  BY <1>1 DEF PanelInv, TypeOK
<1>2. RegInv' /\ Ages
  BY <1>1, RegInvOf, StutterAges
<1> QED
  BY <1>1, <1>2, <1>3, SaveAnswered

LEMMA OthersStep ==
    ASSUME PanelInv, Others
    PROVE  PanelInv' /\ UNCHANGED calls
<1>1. /\ UNCHANGED <<tab, page, member, calls, blemish>> /\ events' = events + 1
      /\ used' = [used EXCEPT !.others = @ + 1] /\ Change
  BY DEF Others
<1>2. RegInv
  BY RegInvOf
<1>3. RegInv' /\ Ages
  BY <1>1, <1>2, CreateAges, UpdateAges, PermissionsAges, DeleteAges, MemberAges DEF Change
<1>4. CallsTurn
  BY <1>1 DEF CallsTurn, Continued, PanelInv, TypeOK
<1>5. events' \in Nat /\ used' \in [saves : Nat, others : Nat]
  <2>1. events \in Nat /\ used \in [saves : Nat, others : Nat]
    BY DEF PanelInv, TypeOK
  <2> QED
    BY <1>1, <2>1
<1> QED
  BY <1>1, <1>3, <1>4, <1>5, ServerStep

-----------------------------------------------------------------------------
(* The panel's steps. *)

\* Some naturals have a least one.
LEMMA LeastNat ==
    ASSUME NEW S \in SUBSET Nat, S # {}
    PROVE  \E n \in S : \A m \in S : n <= m
<1> DEFINE R == OpToRel(<, Nat)
<1>1. IsWellFoundedOn(R, Nat)
  BY NatLessThanWellFounded
<1>2. \A x, y \in Nat : <<y, x>> \in R <=> y < x
  BY DEF OpToRel
<1> HIDE DEF R
<1>3. PICK n \in S : \A m \in S : ~(<<m, n>> \in R)
  BY <1>1, WFMin
<1>4. ASSUME NEW m \in S PROVE n <= m
  <2>1. n \in Nat /\ m \in Nat
    OBVIOUS
  <2>2. ~(m < n)
    BY <1>2, <1>3, <2>1
  <2> QED
    BY <2>1, <2>2
<1> QED
  BY <1>4

LEMMA FirstVacant ==
    ASSUME Vacant # {}
    PROVE  First \in Slots /\ calls[First] = Absent
<1>1. Vacant \in SUBSET Nat
  BY BoundsAssumption DEF Vacant
<1>2. \E i \in Vacant : \A j \in Vacant : i <= j
  BY <1>1, LeastNat
<1>3. First \in Vacant
  BY <1>2 DEF First
<1> QED
  BY <1>3 DEF Vacant, Out

\* A save is made of what is shown.
Seen(q) ==
    /\ q.op \in {"update", "setPerms", "delete"} =>
         shown[q.role] # Absent /\ q.expected = shown[q.role].version
    /\ q.op = "setMember" => q.expected = form.version

LEMMA Sent ==
    ASSUME PanelInv, NEW q \in RoleSaves \cup MemberSaves \cup Loads, Send(q), Seen(q)
    PROVE  CallsTurn /\ First \in Slots
<1> DEFINE alone == \A j \in Out : IsLoad(calls[j])
           k == Call(q, alone)
<1>1. Vacant # {} /\ calls' = [calls EXCEPT ![First] = k]
  BY DEF Send
<1>2. First \in Slots /\ calls[First] = Absent
  BY <1>1, FirstVacant
<1>3. /\ calls \in [Slots -> Calls \cup {Absent}] /\ shown \in PanelLists /\ form \in Forms
      /\ drafts \in SUBSET Slots /\ NoRows \in PanelLists /\ NoForm \in Forms
  BY NothingTrue DEF PanelInv, TypeOK
<1>4. /\ k \in Calls /\ k.stage = "sent" /\ k.rows = shown /\ k.boxes = form /\ k.list = NoRows
      /\ k.answer = NoForm /\ k.q = q
  <2>1. alone \in BOOLEAN
    OBVIOUS
  <2> HIDE DEF alone
  <2> QED
    BY <1>3, <2>1 DEF Call, Calls
<1>5. Expects(k)
  BY <1>4 DEF Expects, Seen
<1> HIDE DEF k
<1>6. /\ calls' \in [Slots -> Calls \cup {Absent}] /\ calls'[First] = k
      /\ \A j \in Slots \ {First} : calls'[j] = calls[j]
  BY <1>1, <1>2, <1>3, <1>4
<1>7. Begun(calls'[First])
  BY <1>4, <1>5, <1>6 DEF Begun
<1>8. \A j \in Slots \ {First} : calls'[j] # Absent => Continued(calls'[j], j)
  BY <1>6 DEF Continued
<1> QED
  BY <1>2, <1>6, <1>7, <1>8 DEF CallsTurn

\* A step of the panel leaves the registry alone.
LEMMA PanelStep ==
    ASSUME PanelInv, UNCHANGED regVars, CallsTurn, UNCHANGED tab, events' \in Nat,
           blemish' \in BOOLEAN, used' \in [saves : Nat, others : Nat], member' \in RegMembers,
           shown' \in PanelLists, ListTrue(shown', roles, effects, Dead), drafts' \in SUBSET Slots,
           form' \in Forms, FormTrue(form', versions, assigned, Live, Dead)
    PROVE  PanelInv'
<1>1. RegInv' /\ Ages
  BY RegInvOf, StutterAges
<1>2. Dead' = Dead /\ Live' = Live
  BY DEF Dead, Live, Gone, Exists, regVars
<1>3. ListTrue(shown', roles', effects', Dead') /\ FormTrue(form', versions', assigned', Live', Dead')
  BY <1>2 DEF regVars
<1>4. TypeOK'
  BY <1>1 DEF PanelInv, TypeOK, RegInv, CallsTurn
<1> QED
  BY <1>1, <1>3, <1>4, Turn

LEMMA UserStep ==
    ASSUME PanelInv, NEW t, User(t), NEW q \in RoleSaves \cup MemberSaves \cup Loads, Send(q), Seen(q),
           member' \in RegMembers,
           shown' \in PanelLists, ListTrue(shown', roles, effects, Dead),
           drafts' = drafts \/ drafts' = drafts \cup {First},
           form' \in Forms, FormTrue(form', versions, assigned, Live, Dead)
    PROVE  PanelInv' /\ UNCHANGED regVars
<1>1. /\ UNCHANGED <<regVars, tab, events, blemish>> /\ used' = [used EXCEPT !.saves = @ + 1]
  BY DEF User
<1>2. /\ events \in Nat /\ blemish \in BOOLEAN /\ used \in [saves : Nat, others : Nat]
      /\ drafts \in SUBSET Slots
  BY DEF PanelInv, TypeOK
<1>3. used' \in [saves : Nat, others : Nat] /\ events' \in Nat /\ blemish' \in BOOLEAN
  BY <1>1, <1>2
<1>4. CallsTurn /\ First \in Slots
  BY Sent
<1>5. drafts' \in SUBSET Slots
  BY <1>2, <1>4
<1> QED
  BY <1>1, <1>3, <1>4, <1>5, PanelStep

\* Rows that the panel expects are not those of an answer.
LEMMA ExpectedRow ==
    ASSUME PanelInv, NEW r \in RegRoleIds, NEW row \in PanelRows \cup {Absent},
           row # Absent => ~row.answered, shown' = [shown EXCEPT ![r] = row]
    PROVE  shown' \in PanelLists /\ ListTrue(shown', roles, effects, Dead)
<1>1. shown \in PanelLists /\ ListTrue(shown, roles, effects, Dead)
  BY DEF PanelInv, TypeOK
<1>2. /\ shown' \in PanelLists /\ shown'[r] = row
      /\ \A s \in RegRoleIds \ {r} : shown'[s] = shown[s]
  BY <1>1 DEF PanelLists
<1>3. RowTrue(row, roles[r], effects[r], r \in Dead)
  BY DEF RowTrue
<1> QED
  BY <1>1, <1>2, <1>3 DEF ListTrue

LEMMA ExpectedTyped ==
    ASSUME NEW w \in PanelRows
    PROVE  Expected(w) \in PanelRows /\ Expected(w).answered = FALSE
<1> DEFINE v == w.version + 1
<1>1. v \in Nat
  BY DEF PanelRows
<1>2. Expected(w) = [w EXCEPT !.version = v, !.answered = FALSE]
  BY DEF Expected
<1> HIDE DEF v
<1> QED
  BY <1>1, <1>2 DEF PanelRows

LEMMA UsersStep ==
    ASSUME PanelInv, Users
    PROVE  PanelInv' /\ UNCHANGED regVars
<1>1. /\ shown \in PanelLists /\ ListTrue(shown, roles, effects, Dead)
      /\ form \in Forms /\ FormTrue(form, versions, assigned, Live, Dead) /\ member \in RegMembers
  BY DEF PanelInv, TypeOK
<1>2. ASSUME NEW r \in RegRoleIds, shown[r] # Absent
      PROVE  shown[r] \in PanelRows /\ shown[r].version \in Nat
  BY <1>1, <1>2 DEF PanelLists, PanelRows
<1>3. ASSUME NEW name \in RegNames, NEW rank \in RegRanks, Create(name, rank)
      PROVE  PanelInv' /\ UNCHANGED regVars
  <2> DEFINE q == [op |-> "create", name |-> name, rank |-> rank]
  <2>1. /\ User("roles") /\ Send(q) /\ drafts' = drafts \cup {First}
        /\ UNCHANGED <<shown, member, form>>
    BY <1>3 DEF Create
  <2>2. q \in RoleSaves /\ Seen(q)
    BY DEF RoleSaves, Seen
  <2> HIDE DEF q
  <2> QED
    BY <1>1, <2>1, <2>2, UserStep
<1>4. ASSUME NEW r \in RegRoleIds, NEW name \in RegNames, NEW rank \in RegRanks, Update(r, name, rank)
      PROVE  PanelInv' /\ UNCHANGED regVars
  <2> DEFINE q == [op |-> "update", role |-> r, name |-> name, rank |-> rank,
                   expected |-> shown[r].version]
             row == [Expected(shown[r]) EXCEPT !.name = name, !.rank = rank]
  <2>1. /\ User("roles") /\ Send(q) /\ shown[r] # Absent /\ shown' = [shown EXCEPT ![r] = row]
        /\ UNCHANGED <<drafts, member, form>>
    BY <1>4 DEF Update, Expecting
  <2>2. q \in RoleSaves /\ Seen(q)
    BY <1>2, <2>1 DEF RoleSaves, Seen
  <2>3. row \in PanelRows /\ ~row.answered
    <3> DEFINE e == Expected(shown[r])
    <3>1. e \in PanelRows /\ e.answered = FALSE
      BY <1>2, <2>1, ExpectedTyped
    <3> HIDE DEF e
    <3>2. LET x == [e EXCEPT !.name = name, !.rank = rank]
          IN  x \in PanelRows /\ x.answered = FALSE
      BY <3>1 DEF PanelRows
    <3> QED
      BY <3>2 DEF e
  <2> HIDE DEF q, row
  <2>4. shown' \in PanelLists /\ ListTrue(shown', roles, effects, Dead)
    BY <2>1, <2>3, ExpectedRow
  <2> QED
    BY <1>1, <2>1, <2>2, <2>4, UserStep
<1>5. ASSUME NEW r \in RegRoleIds, NEW t \in FormTables, SaveEffects(r, t)
      PROVE  PanelInv' /\ UNCHANGED regVars
  <2> DEFINE q == [op |-> "setPerms", role |-> r, perm |-> t, expected |-> shown[r].version]
             row == [Expected(shown[r]) EXCEPT !.perm = t]
  <2>1. /\ User("roles") /\ Send(q) /\ shown[r] # Absent /\ shown' = [shown EXCEPT ![r] = row]
        /\ UNCHANGED <<drafts, member, form>>
    BY <1>5 DEF SaveEffects, Expecting
  <2>2. q \in RoleSaves /\ Seen(q)
    BY <1>2, <2>1 DEF RoleSaves, Seen
  <2>3. row \in PanelRows /\ ~row.answered
    <3> DEFINE e == Expected(shown[r])
    <3>1. e \in PanelRows /\ e.answered = FALSE /\ t \in Tables
      BY <1>2, <2>1, ExpectedTyped, TablesAssumption
    <3> HIDE DEF e
    <3>2. LET x == [e EXCEPT !.perm = t]
          IN  x \in PanelRows /\ x.answered = FALSE
      BY <3>1 DEF PanelRows
    <3> QED
      BY <3>2 DEF e
  <2> HIDE DEF q, row
  <2>4. shown' \in PanelLists /\ ListTrue(shown', roles, effects, Dead)
    BY <2>1, <2>3, ExpectedRow
  <2> QED
    BY <1>1, <2>1, <2>2, <2>4, UserStep
<1>6. ASSUME NEW r \in RegRoleIds, Remove(r)
      PROVE  PanelInv' /\ UNCHANGED regVars
  <2> DEFINE q == [op |-> "delete", role |-> r, expected |-> shown[r].version]
  <2>1. /\ User("roles") /\ Send(q) /\ shown[r] # Absent /\ shown' = [shown EXCEPT ![r] = Absent]
        /\ UNCHANGED <<drafts, member, form>>
    BY <1>6 DEF Remove, Expecting
  <2>2. q \in RoleSaves /\ Seen(q)
    BY <1>2, <2>1 DEF RoleSaves, Seen
  <2> HIDE DEF q
  <2>4. shown' \in PanelLists /\ ListTrue(shown', roles, effects, Dead)
    BY <2>1, ExpectedRow
  <2> QED
    BY <1>1, <2>1, <2>2, <2>4, UserStep
<1>7. ASSUME NEW m \in RegMembers, Select(m)
      PROVE  PanelInv' /\ UNCHANGED regVars
  <2> DEFINE q == [op |-> "loadMember", member |-> m]
  <2>1. User("members") /\ Send(q) /\ member' = m /\ UNCHANGED <<shown, drafts, form>>
    BY <1>7 DEF Select, page
  <2>2. q \in Loads /\ Seen(q)
    BY DEF Loads, Seen
  <2> HIDE DEF q
  <2> QED
    BY <1>1, <2>1, <2>2, UserStep
<1>8. ASSUME NEW rs \in SUBSET RegRoleIds, Save(rs)
      PROVE  PanelInv' /\ UNCHANGED regVars
  <2> DEFINE q == [op |-> "setMember", member |-> member, roles |-> rs, expected |-> form.version]
  <2>1. /\ User("members") /\ Send(q) /\ UNCHANGED <<shown, drafts, member>>
        /\ form' = [form EXCEPT !.roles = rs, !.version = @ + 1, !.answered = FALSE]
    BY <1>8 DEF Save
  <2>2. q \in MemberSaves /\ Seen(q)
    BY <1>1 DEF MemberSaves, Seen, Forms
  <2>3. form' \in Forms /\ ~form'.answered
    <3> DEFINE v == form.version + 1
    <3>1. v \in Int
      BY <1>1 DEF Forms
    <3>2. form' = [form EXCEPT !.roles = rs, !.version = v, !.answered = FALSE]
      BY <2>1
    <3> HIDE DEF v
    <3> QED
      BY <1>1, <3>1, <3>2 DEF Forms
  <2>4. FormTrue(form', versions, assigned, Live, Dead)
    BY <2>3 DEF FormTrue
  <2> HIDE DEF q
  <2> QED
    BY <1>1, <2>1, <2>2, <2>3, <2>4, UserStep
<1> QED
  BY <1>3, <1>4, <1>5, <1>6, <1>7, <1>8 DEF Users

LEMMA DeliverStep ==
    ASSUME PanelInv, Deliver
    PROVE  PanelInv' /\ UNCHANGED regVars
<1>1. /\ events > 0 /\ events' = events - 1 /\ Send(Load(member))
      /\ UNCHANGED <<regVars, tab, shown, drafts, form, member, blemish, used>>
  BY DEF Deliver, page
<1>2. TypeOK
  BY DEF PanelInv
<1>3. events' \in Nat
  BY <1>1, <1>2 DEF TypeOK
<1>4. Load(member) \in Loads /\ Seen(Load(member))
  BY <1>2 DEF Load, Loads, Seen, TypeOK
<1>5. CallsTurn
  BY <1>1, <1>4, Sent
<1> QED
  BY <1>1, <1>2, <1>3, <1>5, PanelStep DEF PanelInv, TypeOK

LEMMA HasArrived ==
    ASSUME PanelInv, NEW i \in Slots, Arrived(i)
    PROVE  CallsTurn
<1> DEFINE load == IsLoad(calls[i])
           mark(j) == [calls[j] EXCEPT !.over = @ \ {i}, !.moved = @ \/ load,
                                       !.late = @ \/ (load /\ j \in calls[i].over)]
<1>1. calls \in [Slots -> Calls \cup {Absent}]
  BY DEF PanelInv, TypeOK
<1>2. calls' = [j \in Slots |-> IF j = i \/ calls[j] = Absent THEN Absent ELSE mark(j)]
  BY DEF Arrived
<1>3. ASSUME NEW j \in Slots, calls[j] # Absent
      PROVE  mark(j) \in Calls /\ Continued(mark(j), j)
  <2> DEFINE k == calls[j]
             o == k.over \ {i}
             m == (k.moved \/ load)
             l == (k.late \/ (load /\ j \in calls[i].over))
  <2>1. k \in Calls /\ k = calls[j]
    BY <1>1, <1>3
  <2>2. mark(j) = [k EXCEPT !.over = o, !.moved = m, !.late = l]
    OBVIOUS
  <2>3. o \in SUBSET Slots /\ m \in BOOLEAN /\ l \in BOOLEAN
    BY <2>1 DEF Calls
  <2> HIDE DEF mark, k, o, m, l
  <2>4. /\ mark(j) \in Calls /\ mark(j).q = k.q /\ mark(j).rows = k.rows /\ mark(j).boxes = k.boxes
        /\ mark(j).list = k.list /\ mark(j).answer = k.answer
    BY <2>1, <2>2, <2>3 DEF Calls
  <2> QED
    BY <1>3, <2>1, <2>4 DEF Continued
<1> HIDE DEF mark
<1>4. calls' \in [Slots -> Calls \cup {Absent}]
  BY <1>1, <1>2, <1>3
<1>5. \A j \in Slots : calls'[j] # Absent => Continued(calls'[j], j)
  BY <1>2, <1>3
<1> QED
  BY <1>4, <1>5 DEF CallsTurn

\* Rows taken from two lists that are true.
LEMMA MixedLists ==
    ASSUME NEW a \in PanelLists, NEW b \in PanelLists, NEW rs, NEW es, NEW dead,
           ListTrue(a, rs, es, dead), ListTrue(b, rs, es, dead),
           NEW c, c = [r \in RegRoleIds |-> c[r]],
           \A r \in RegRoleIds : c[r] = a[r] \/ c[r] = b[r] \/ c[r] = Absent
    PROVE  c \in PanelLists /\ ListTrue(c, rs, es, dead)
<1>1. \A r \in RegRoleIds : c[r] \in PanelRows \cup {Absent}
  BY DEF PanelLists
<1>2. c \in PanelLists
  BY <1>1 DEF PanelLists
<1>3. ASSUME NEW r \in RegRoleIds
      PROVE  RowTrue(c[r], rs[r], es[r], r \in dead)
  <2>1. c[r] = Absent => RowTrue(c[r], rs[r], es[r], r \in dead)
    BY DEF RowTrue
  <2> QED
    BY <2>1 DEF ListTrue
<1> QED
  BY <1>2, <1>3 DEF ListTrue

\* What an answer puts into the panel.
LEMMA PageTrue ==
    ASSUME PanelInv, NEW i \in Slots, Receive(i)
    PROVE  /\ shown' \in PanelLists /\ ListTrue(shown', roles, effects, Dead)
           /\ drafts' \in SUBSET Slots
           /\ form' \in Forms /\ FormTrue(form', versions, assigned, Live, Dead)
<1> DEFINE k == calls[i]
<1>1. /\ k \in Calls /\ CallTrue(k, roles, effects, versions, assigned, Live, Dead)
      /\ shown \in PanelLists /\ ListTrue(shown, roles, effects, Dead)
      /\ form \in Forms /\ FormTrue(form, versions, assigned, Live, Dead)
      /\ drafts \in SUBSET Slots
  BY DEF Receive, PanelInv, TypeOK
<1>2. /\ k.rows \in PanelLists /\ ListTrue(k.rows, roles, effects, Dead)
      /\ k.list \in PanelLists /\ ListTrue(k.list, roles, effects, Dead)
      /\ k.answer \in Forms /\ FormTrue(k.answer, versions, assigned, Live, Dead)
      /\ k.drafts \in SUBSET Slots
  BY <1>1 DEF Calls, CallTrue
<1>3. \/ ReceiveLoad(k) \/ ReceiveCreate(k, i) \/ ReceiveMember(k)
      \/ k.q.op \in {"update", "setPerms", "delete"} /\ ReceiveChange(k)
  BY DEF Receive
<1>4. (k.q.op = "update" \/ k.q.op = "setPerms") => k.q.role \in RegRoleIds
  BY <1>1, SaveFields
<1> HIDE DEF k
<1>5. CASE ReceiveLoad(k)
  BY <1>1, <1>2, <1>5 DEF ReceiveLoad
<1>6. CASE ReceiveCreate(k, i)
  <2> DEFINE mix == [r \in RegRoleIds |-> IF k.list[r] # Absent THEN k.list[r] ELSE shown[r]]
  <2>1. (shown' = mix \/ shown' = shown) /\ drafts' = drafts \ {i} /\ form' = form
    BY <1>6 DEF ReceiveCreate
  <2>2. mix = [r \in RegRoleIds |-> mix[r]] /\ \A r \in RegRoleIds : mix[r] = k.list[r] \/ mix[r] = shown[r]
    OBVIOUS
  <2> HIDE DEF mix
  <2>3. mix \in PanelLists /\ ListTrue(mix, roles, effects, Dead)
    BY <1>1, <1>2, <2>2, MixedLists
  <2> QED
    BY <1>1, <2>1, <2>3
<1>7. CASE k.q.op \in {"update", "setPerms", "delete"} /\ ReceiveChange(k)
  <2> DEFINE mix == [r \in RegRoleIds |-> Answered(k, r)]
  <2>1. /\ shown' = mix \/ shown' = Restored(k)
        /\ drafts' = k.drafts \/ drafts' = drafts
        /\ form' = form
    BY <1>7 DEF ReceiveChange
  <2>2. /\ mix = [r \in RegRoleIds |-> mix[r]]
        /\ \A r \in RegRoleIds : mix[r] = k.list[r] \/ mix[r] = shown[r]
    BY DEF Answered
  <2> HIDE DEF mix
  <2>3. mix \in PanelLists /\ ListTrue(mix, roles, effects, Dead)
    BY <1>1, <1>2, <2>2, MixedLists
  <2>4. Restored(k) \in PanelLists /\ ListTrue(Restored(k), roles, effects, Dead)
    <3>1. CASE k.q.op = "delete"
      BY <1>2, <3>1 DEF Restored
    <3>2. CASE k.q.op # "delete"
      <4> DEFINE c == [shown EXCEPT ![k.q.role] = IF @ = Absent THEN Absent ELSE k.rows[k.q.role]]
      <4>1. Restored(k) = c
        BY <3>2 DEF Restored
      <4>2. c = [r \in RegRoleIds |-> c[r]]
        BY <1>1 DEF PanelLists
      <4>3. \A r \in RegRoleIds : c[r] = k.rows[r] \/ c[r] = shown[r] \/ c[r] = Absent
        BY <1>1 DEF PanelLists
      <4> HIDE DEF c
      <4>4. c \in PanelLists /\ ListTrue(c, roles, effects, Dead)
        BY <1>1, <1>2, <4>2, <4>3, MixedLists
      <4> QED
        BY <4>1, <4>4
    <3> QED
      BY <3>1, <3>2
  <2> QED
    BY <1>1, <1>2, <2>1, <2>3, <2>4
<1>8. CASE ReceiveMember(k)
  <2>1. /\ form' = form \/ form' = [form EXCEPT !.version = @ - 1]
        /\ UNCHANGED <<shown, drafts>>
    BY <1>8 DEF ReceiveMember
  <2>2. CASE form' = [form EXCEPT !.version = @ - 1]
    <3>1. /\ form' \in Forms /\ form'.of = form.of /\ form'.roles = form.roles
          /\ form'.answered = form.answered /\ form'.version = form.version - 1
          /\ form.version \in Int
      BY <1>1, <2>2 DEF Forms
    <3>2. \A m \in RegMembers : versions[m] \in Nat
      BY DEF PanelInv, RegTyped
    <3>3. FormTrue(form', versions, assigned, Live, Dead)
      BY <1>1, <3>1, <3>2 DEF FormTrue
    <3> QED
      BY <1>1, <2>1, <3>1, <3>3
  <2> QED
    BY <1>1, <2>1, <2>2
<1> QED
  BY <1>3, <1>5, <1>6, <1>7, <1>8

LEMMA ReceiveStep ==
    ASSUME PanelInv, NEW i \in Slots, Receive(i)
    PROVE  PanelInv' /\ UNCHANGED regVars
<1>1. /\ Arrived(i) /\ UNCHANGED <<regVars, tab, member, events, used>>
      /\ blemish' = (blemish \/ Undoes(calls[i]))
  BY DEF Receive
<1>2. CallsTurn
  BY <1>1, HasArrived
<1>3. /\ events' \in Nat /\ blemish' \in BOOLEAN /\ used' \in [saves : Nat, others : Nat]
      /\ member' \in RegMembers
  <2>1. events \in Nat /\ used \in [saves : Nat, others : Nat] /\ member \in RegMembers
    BY DEF PanelInv, TypeOK
  <2>2. blemish' \in BOOLEAN
    BY <1>1
  <2> QED
    BY <1>1, <2>1, <2>2
<1>4. /\ shown' \in PanelLists /\ ListTrue(shown', roles, effects, Dead)
      /\ drafts' \in SUBSET Slots
      /\ form' \in Forms /\ FormTrue(form', versions, assigned, Live, Dead)
  BY PageTrue
<1> QED
  BY <1>1, <1>2, <1>3, <1>4, PanelStep

-----------------------------------------------------------------------------

LEMMA PanelInvInit ==
    ASSUME Init
    PROVE  PanelInv
<1>1. /\ RegTyped /\ WellFormed
  BY DEF Init, RegInit, RegTyped
<1>2. /\ ListTrue(NoRows, roles, effects, Dead) /\ NoRows \in PanelLists
      /\ FormTrue(NoForm, versions, assigned, Live, Dead) /\ NoForm \in Forms
  BY NothingTrue
<1>3. /\ tab \in {"roles", "members"} /\ shown = NoRows /\ drafts = {}
      /\ member \in RegMembers /\ form = NoForm /\ events = 0 /\ blemish = FALSE
      /\ used = [saves |-> 0, others |-> 0]
      /\ calls = [i \in Slots |-> IF i = 1 THEN Call(Load(member), TRUE) ELSE Absent]
  BY DEF Init, PanelInit
<1> DEFINE k == Call(Load(member), TRUE)
<1>4. Load(member) \in Loads
  BY <1>3 DEF Load, Loads
<1>5. /\ k \in Calls /\ k.rows = NoRows /\ k.list = NoRows /\ k.boxes = NoForm /\ k.answer = NoForm
      /\ k.q = Load(member)
  BY <1>2, <1>3, <1>4 DEF Call, Calls
<1>6. Expects(k)
  <2>1. Load(member).op \in {"load", "loadMember"}
    BY DEF Load
  <2> HIDE DEF k
  <2> QED
    BY <1>5, <2>1 DEF Expects
<1> HIDE DEF k
<1>7. CallTrue(k, roles, effects, versions, assigned, Live, Dead)
  BY <1>2, <1>5, <1>6 DEF CallTrue
<1>8. \A i \in Slots : calls[i] # Absent => calls[i] = k
  BY <1>3 DEF k
<1>9. calls \in [Slots -> Calls \cup {Absent}]
  BY <1>3, <1>5 DEF k
<1>10. TypeOK
  BY <1>1, <1>2, <1>3, <1>9 DEF TypeOK
<1> QED
  BY <1>1, <1>2, <1>3, <1>7, <1>8, <1>10 DEF PanelInv

\* Only a save that is granted moves the registry and answers a call.
LEMMA PanelInvNext ==
    ASSUME PanelInv, [Next]_vars
    PROVE  /\ PanelInv'
           /\ \/ UNCHANGED regVars
              \/ UNCHANGED calls
              \/ \E i \in Slots : Grant(i) /\ Answers(i, TRUE)
<1>1. CASE UNCHANGED vars
  BY <1>1 DEF vars, page, regVars, PanelInv, TypeOK, RegTyped, WellFormed, RegRolesIn, Exists, Gone,
              Live, Dead
<1>2. ASSUME NEW i \in Slots, Read(i) \/ Grant(i) \/ Same(i) \/ Refuse(i) \/ Receive(i)
      PROVE  /\ PanelInv'
             /\ UNCHANGED regVars \/ \E j \in Slots : Grant(j) /\ Answers(j, TRUE)
  BY <1>2, ReadStep, GrantStep, SameStep, RefuseStep, ReceiveStep
<1>3. CASE Others \/ Users \/ Deliver
  BY <1>3, OthersStep, UsersStep, DeliverStep
<1> QED
  BY <1>1, <1>2, <1>3 DEF Next

LEMMA PanelInvHolds == Spec => []PanelInv
<1>1. Init => PanelInv
  BY PanelInvInit
<1>2. PanelInv /\ [Next]_vars => PanelInv'
  BY PanelInvNext
<1> QED
  BY <1>1, <1>2, PTL DEF Spec

\* Types, for any number of roles, members and calls, and that the registry keeps
\* its names unique and its assignments live.
THEOREM TypeCorrect == Spec => []TypeOK
<1>1. PanelInv => TypeOK
  BY DEF PanelInv
<1> QED
  BY <1>1, PanelInvHolds, PTL

\* A call that the registry takes is the one that its step answers.
LEMMA GrantedIs ==
    ASSUME PanelInv, [Next]_vars, NEW i \in Slots, NEW op, Granted(i, op)
    PROVE  /\ Grant(i) /\ calls[i] \in Calls /\ calls[i].q.op = op
           /\ CallTrue(calls[i], roles, effects, versions, assigned, Live, Dead)
<1>1. ~UNCHANGED regVars /\ ~UNCHANGED calls
  BY DEF Granted, regVars
<1>2. PICK j \in Slots : Grant(j) /\ Answers(j, TRUE)
  BY <1>1, PanelInvNext
<1>3. i = j
  BY <1>2 DEF Granted, Answers
<1> QED
  BY <1>2, <1>3 DEF Granted, PanelInv, TypeOK

\* A save of a role that is taken replaces the row that the user saw, where the
\* server had answered it, whatever others saved meanwhile.
THEOREM SavesCorrect == Spec => SavesSeen
<1> DEFINE A == \A i \in Slots : \A op \in {"update", "setPerms", "delete"} :
                  Granted(i, op) =>
                      LET r == calls[i].q.role
                          row == calls[i].rows[r]
                      IN  row.answered => row = [name |-> roles[r].name, rank |-> roles[r].rank,
                                                 perm |-> effects[r], version |-> roles[r].version,
                                                 answered |-> TRUE]
<1>1. PanelInv /\ [Next]_vars => A
  <2> SUFFICES ASSUME PanelInv, [Next]_vars, NEW i \in Slots,
                      NEW op \in {"update", "setPerms", "delete"}, Granted(i, op),
                      NEW r, r = calls[i].q.role, NEW row, row = calls[i].rows[r], row.answered
               PROVE  row = [name |-> roles[r].name, rank |-> roles[r].rank, perm |-> effects[r],
                             version |-> roles[r].version, answered |-> TRUE]
    OBVIOUS
  <2>1. /\ Grant(i) /\ calls[i] \in Calls /\ calls[i].q.op = op
        /\ CallTrue(calls[i], roles, effects, versions, assigned, Live, Dead)
    BY GrantedIs
  <2>2. r \in RegRoleIds /\ Exists(r) /\ roles[r].version = calls[i].q.expected
    BY <2>1 DEF Grant, Current
  <2>3. row # Absent /\ calls[i].q.expected = row.version
    BY <2>1 DEF CallTrue, Expects
  <2>4. RowTrue(row, roles[r], effects[r], r \in Dead)
    BY <2>1, <2>2 DEF CallTrue, ListTrue
  <2> QED
    BY <2>2, <2>3, <2>4 DEF RowTrue, Exists
<1>2. SavesSeen <=> [][A]_vars
  BY DEF SavesSeen
<1> HIDE DEF A
<1>3. PanelInv /\ [Next]_vars => [A]_vars
  BY <1>1
<1> QED
  BY <1>2, <1>3, PanelInvHolds, PTL DEF Spec

\* A save of a member's roles that is taken replaces the roles that the boxes
\* were loaded with for that member, less those that were deleted since.
THEOREM MemberSavesCorrect == Spec => MemberSavesSeen
<1> DEFINE A == \A i \in Slots :
                  Granted(i, "setMember") =>
                      LET boxes == calls[i].boxes
                          m == calls[i].q.member
                      IN  boxes.of = m /\ boxes.answered => assigned[m] = {r \in boxes.roles : Exists(r)}
<1>1. PanelInv /\ [Next]_vars => A
  <2> SUFFICES ASSUME PanelInv, [Next]_vars, NEW i \in Slots, Granted(i, "setMember"),
                      NEW m, m = calls[i].q.member, NEW boxes, boxes = calls[i].boxes,
                      boxes.of = m, boxes.answered
               PROVE  assigned[m] = {r \in boxes.roles : Exists(r)}
    OBVIOUS
  <2>1. /\ Grant(i) /\ calls[i] \in Calls /\ calls[i].q.op = "setMember"
        /\ CallTrue(calls[i], roles, effects, versions, assigned, Live, Dead)
    BY GrantedIs
  <2>2. m \in RegMembers /\ boxes \in Forms
    BY <2>1, SaveFields DEF Calls
  <2>3. versions[m] = calls[i].q.expected
    BY <2>1 DEF Grant, Current
  <2>4. calls[i].q.expected = boxes.version
    BY <2>1 DEF CallTrue, Expects
  <2>5. FormTrue(boxes, versions, assigned, Live, Dead)
    BY <2>1 DEF CallTrue
  <2>6. assigned[m] = boxes.roles \cap Live
    BY <2>2, <2>3, <2>4, <2>5 DEF FormTrue
  <2> QED
    BY <2>2, <2>6 DEF Forms, Live
<1>2. MemberSavesSeen <=> [][A]_vars
  BY DEF MemberSavesSeen
<1> HIDE DEF A
<1>3. PanelInv /\ [Next]_vars => [A]_vars
  BY <1>1
<1> QED
  BY <1>2, <1>3, PanelInvHolds, PTL DEF Spec

-----------------------------------------------------------------------------
(* The panel at rest.  What it shows is the registry, or is put right by an    *)
(* answer that is on its way, or is going to be asked for, or goes wrong with  *)
(* a blemish.                                                                  *)

\* What a load would answer.
RowsHere ==
    [r \in RegRoleIds |->
        IF Exists(r) THEN [name |-> roles[r].name, rank |-> roles[r].rank, perm |-> effects[r],
                           version |-> roles[r].version, answered |-> TRUE]
        ELSE Absent]
BoxesHere == [of |-> member, roles |-> assigned[member], version |-> versions[member], answered |-> TRUE]

Given == {i \in Out : calls[i].stage = "answered"}
Edits == {"update", "setPerms", "delete"}
Strays(k) == k.q.op = "loadMember" /\ k.q.member # member

\* The calls are the panel's; loads are not refused, and an answered deletion
\* tells no rows.
CallsOf(k) ==
    /\ tab = "roles" => k.q.op \notin {"setMember", "loadMember"}
    /\ tab = "members" => k.q.op \in {"setMember", "loadMember"}
    /\ IsLoad(k) /\ k.stage = "answered" => k.ok
    /\ k.q.op = "delete" => k.list = NoRows

\* Loads are answered in an order, and of two saves that are out one was made
\* while the other was.
OverKnown == \A i \in Out : calls[i].over \subseteq Given
OverTotal ==
    \A i, j \in Given : IsLoad(calls[i]) /\ IsLoad(calls[j]) =>
        i = j \/ i \in calls[j].over \/ j \in calls[i].over
AloneOnce ==
    \A i, j \in Out : ~IsLoad(calls[i]) /\ ~IsLoad(calls[j]) /\ calls[i].alone /\ calls[j].alone => i = j

Ordered == (\A i \in Out : CallsOf(calls[i])) /\ OverKnown /\ OverTotal /\ AloneOnce

DraftsOut == \A i \in drafts : i \in Out /\ calls[i].q.op = "create"
DraftsWere == \A i \in Out : ~IsLoad(calls[i]) /\ calls[i].alone => calls[i].drafts = {}

\* A load of what the panel shows is out, or an event that asks for one.
Reloads ==
    \/ events > 0
    \/ \E i \in Out : IsLoad(calls[i]) /\ ~Strays(calls[i]) /\ calls[i].stage = "sent"
Doomed == \E i \in Given : Undoes(calls[i])

\* A true load is on its way, and what arrives after it does not undo it
\* unnoticed.
Loaded(k) ==
    /\ IsLoad(k) /\ ~Strays(k)
    /\ IF k.q.op = "load" THEN k.list = RowsHere ELSE k.answer = BoxesHere
Follower(i, j) ==
    /\ IsLoad(calls[j]) /\ i \in calls[j].over => Loaded(calls[j]) \/ Strays(calls[j])
    /\ calls[j].q.op \in {"update", "setPerms"} /\ calls[j].ok => j \in calls[i].over
Lands == \E i \in Given : Loaded(calls[i]) /\ \A j \in Given : Follower(i, j)

\* An answer that does not put the panel wrong unnoticed.
Harmless(j) ==
    /\ IsLoad(calls[j]) => Loaded(calls[j]) \/ Strays(calls[j])
    /\ calls[j].q.op = "create" /\ calls[j].ok => j \notin drafts
    /\ calls[j].q.op \in {"update", "setPerms"} => ~calls[j].ok

\* A save that was made of what is shown no more, or over another: taken it makes
\* the panel load, refused it blemishes it.
Rash(k) ==
    /\ k.stage = "sent"
    /\ \/ k.q.op \in Edits /\ (k.moved \/ ~k.alone)
       \/ k.q.op = "setMember" /\ k.moved

\* A save whose refusal puts back what was there.
Pending(k) == k.q.op \in Edits /\ ~k.moved /\ k.alone /\ (k.stage = "sent" \/ ~k.ok)
Counts(k) == k.q.op = "setMember" /\ ~k.moved /\ (k.stage = "sent" \/ ~k.ok)
Counted == {i \in Out : Counts(calls[i])}

Restores(k) ==
    /\ k.q.op = "delete" => k.rows = RowsHere
    /\ k.q.op # "delete" =>
         /\ k.rows[k.q.role] = RowsHere[k.q.role] /\ shown[k.q.role] # Absent
         /\ \A r \in RegRoleIds \ {k.q.role} : shown[r] = RowsHere[r]
RowsSure ==
    /\ \A i \in Out : Pending(calls[i]) => Restores(calls[i])
    /\ (\A i \in Out : ~Pending(calls[i])) => shown = RowsHere
BoxesSure ==
    /\ form.of = member /\ (form.answered => form.roles = assigned[member])
    /\ form.version = versions[member] + Cardinality(Counted)
Sure == IF tab = "roles" THEN RowsSure ELSE BoxesSure

Settled ==
    /\ \A j \in Given : Harmless(j)
    /\ \A j \in Out : Strays(calls[j]) => calls[j].moved
    /\ Sure \/ \E i \in Out : Rash(calls[i])

Follows == Reloads \/ Doomed \/ Lands \/ Settled
RestInv == ~blemish => DraftsOut /\ DraftsWere /\ Follows

-----------------------------------------------------------------------------
(* What the steps do to the calls. *)

\* A call is made.
Added(q) ==
    /\ First \in Slots \ Out /\ Out' = Out \cup {First} /\ Given' = Given
    /\ \A j \in Out : calls'[j] = calls[j]
    /\ calls'[First].q = q /\ calls'[First].stage = "sent" /\ calls'[First].over = {}
    /\ calls'[First].rows = shown /\ calls'[First].drafts = drafts /\ calls'[First].list = NoRows
    /\ ~calls'[First].moved /\ (calls'[First].alone <=> \A j \in Out : IsLoad(calls[j]))

LEMMA SendAdds ==
    ASSUME PanelInv, NEW q \in RoleSaves \cup MemberSaves \cup Loads, Send(q)
    PROVE  Added(q)
<1> DEFINE alone == \A j \in Out : IsLoad(calls[j])
           k == Call(q, alone)
<1>1. Vacant # {} /\ calls' = [calls EXCEPT ![First] = k]
  BY DEF Send
<1>2. First \in Slots /\ calls[First] = Absent
  BY <1>1, FirstVacant
<1>3. /\ calls \in [Slots -> Calls \cup {Absent}] /\ shown \in PanelLists /\ form \in Forms
      /\ drafts \in SUBSET Slots /\ NoRows \in PanelLists /\ NoForm \in Forms
  BY NothingTrue DEF PanelInv, TypeOK
<1>4. /\ k \in Calls /\ k.stage = "sent" /\ k.rows = shown /\ k.drafts = drafts /\ k.list = NoRows
      /\ k.q = q /\ k.over = {} /\ ~k.moved /\ (k.alone <=> alone)
  <2>1. alone \in BOOLEAN
    OBVIOUS
  <2> HIDE DEF alone
  <2> QED
    BY <1>3, <2>1 DEF Call, Calls
<1>5. k # Absent
  BY <1>4, AbsentAssumption
<1> HIDE DEF k
<1>6. /\ calls'[First] = k /\ \A j \in Slots \ {First} : calls'[j] = calls[j]
  BY <1>1, <1>2, <1>3
<1>7. Out' = Out \cup {First} /\ First \notin Out
  BY <1>2, <1>5, <1>6 DEF Out
<1>8. Given' = Given
  BY <1>4, <1>6, <1>7 DEF Given, Out
<1>9. \A j \in Out : calls'[j] = calls[j]
  BY <1>6, <1>7 DEF Out
<1> QED
  BY <1>2, <1>4, <1>6, <1>7, <1>8, <1>9 DEF Added

\* A call is answered.
Turned(i, ok, list, answer) ==
    /\ i \in Out \ Given /\ Out' = Out /\ Given' = Given \cup {i}
    /\ \A j \in Out \ {i} : calls'[j] = calls[j]
    /\ calls'[i].q = calls[i].q /\ calls'[i].rows = calls[i].rows /\ calls'[i].drafts = calls[i].drafts
    /\ (calls'[i].moved <=> calls[i].moved) /\ (calls'[i].alone <=> calls[i].alone)
    /\ calls'[i].stage = "answered" /\ (calls'[i].ok <=> ok)
    /\ calls'[i].list = list /\ calls'[i].answer = answer
    /\ calls'[i].over = IF IsLoad(calls[i]) THEN Given ELSE {}

LEMMA ReplyTurns ==
    ASSUME PanelInv, NEW i \in Slots, Serve(i), NEW ok \in BOOLEAN, NEW list \in PanelLists,
           NEW answer \in Forms, Reply(i, ok, list, answer)
    PROVE  Turned(i, ok, list, answer)
<1> DEFINE k == calls[i]
           over == IF IsLoad(calls[i]) THEN Given ELSE {}
           r == [k EXCEPT !.stage = "answered", !.ok = ok, !.list = list, !.answer = answer,
                          !.over = over]
<1>1. calls \in [Slots -> Calls \cup {Absent}] /\ k \in Calls /\ k # Absent /\ k.stage = "sent"
  BY DEF PanelInv, TypeOK, Serve
<1>2. over \in SUBSET Slots
  BY DEF Out, Given
<1>3. calls' = [calls EXCEPT ![i] = r]
  BY DEF Reply, Given
<1>4. /\ r \in Calls /\ (r.ok <=> ok) /\ r.stage = "answered" /\ r.list = list /\ r.answer = answer
      /\ r.q = k.q /\ r.rows = k.rows /\ r.drafts = k.drafts /\ r.over = over
      /\ (r.moved <=> k.moved) /\ (r.alone <=> k.alone)
  <2> HIDE DEF k, over
  <2> QED
    BY <1>1, <1>2 DEF Calls
<1>5. r # Absent
  BY <1>4, AbsentAssumption
<1> HIDE DEF r
<1>6. calls'[i] = r /\ \A j \in Slots \ {i} : calls'[j] = calls[j]
  BY <1>1, <1>3
<1>7. Out' = Out /\ i \in Out
  BY <1>1, <1>5, <1>6 DEF Out
<1>8. Given' = Given \cup {i} /\ i \notin Given
  BY <1>1, <1>4, <1>6, <1>7 DEF Given, Out
<1>9. \A j \in Out \ {i} : calls'[j] = calls[j]
  BY <1>6 DEF Out
<1> QED
  BY <1>4, <1>6, <1>7, <1>8, <1>9 DEF Turned

\* An answer arrives.
Taken(i) ==
    /\ i \in Given /\ Out' = Out \ {i} /\ Given' = Given \ {i}
    /\ \A j \in Out \ {i} :
         /\ calls'[j].q = calls[j].q /\ calls'[j].rows = calls[j].rows
         /\ calls'[j].drafts = calls[j].drafts /\ calls'[j].stage = calls[j].stage
         /\ (calls'[j].ok <=> calls[j].ok) /\ (calls'[j].alone <=> calls[j].alone)
         /\ calls'[j].list = calls[j].list /\ calls'[j].answer = calls[j].answer
         /\ calls'[j].over = calls[j].over \ {i}
         /\ calls'[j].moved <=> calls[j].moved \/ IsLoad(calls[i])
         /\ calls'[j].late <=> calls[j].late \/ (IsLoad(calls[i]) /\ j \in calls[i].over)

LEMMA ArrivedTakes ==
    ASSUME PanelInv, NEW i \in Slots, calls[i] # Absent, calls[i].stage = "answered", Arrived(i)
    PROVE  Taken(i)
<1> DEFINE load == IsLoad(calls[i])
           mark(j) == [calls[j] EXCEPT !.over = @ \ {i}, !.moved = @ \/ load,
                                       !.late = @ \/ (load /\ j \in calls[i].over)]
<1>1. calls \in [Slots -> Calls \cup {Absent}]
  BY DEF PanelInv, TypeOK
<1>2. calls' = [j \in Slots |-> IF j = i \/ calls[j] = Absent THEN Absent ELSE mark(j)]
  BY DEF Arrived
<1>3. ASSUME NEW j \in Slots \ {i}, calls[j] # Absent
      PROVE  /\ calls'[j] # Absent
             /\ calls'[j].q = calls[j].q /\ calls'[j].rows = calls[j].rows
             /\ calls'[j].drafts = calls[j].drafts /\ calls'[j].stage = calls[j].stage
             /\ (calls'[j].ok <=> calls[j].ok) /\ (calls'[j].alone <=> calls[j].alone)
             /\ calls'[j].list = calls[j].list /\ calls'[j].answer = calls[j].answer
             /\ calls'[j].over = calls[j].over \ {i}
             /\ calls'[j].moved <=> calls[j].moved \/ load
             /\ calls'[j].late <=> calls[j].late \/ (load /\ j \in calls[i].over)
  <2> DEFINE k == calls[j]
             o == k.over \ {i}
             m == (k.moved \/ load)
             l == (k.late \/ (load /\ j \in calls[i].over))
  <2>1. k \in Calls /\ k = calls[j]
    BY <1>1, <1>3
  <2>2. mark(j) = [k EXCEPT !.over = o, !.moved = m, !.late = l]
    OBVIOUS
  <2>3. o \in SUBSET Slots /\ m \in BOOLEAN /\ l \in BOOLEAN
    BY <2>1 DEF Calls
  <2>4. calls'[j] = mark(j)
    BY <1>2, <1>3
  <2>5. (m <=> (calls[j].moved \/ load)) /\ (l <=> (calls[j].late \/ (load /\ j \in calls[i].over)))
        /\ o = calls[j].over \ {i}
    OBVIOUS
  <2> HIDE DEF mark, k, o, m, l
  <2>6. /\ mark(j) \in Calls /\ mark(j).q = k.q /\ mark(j).rows = k.rows /\ mark(j).drafts = k.drafts
        /\ mark(j).stage = k.stage /\ (mark(j).ok <=> k.ok) /\ (mark(j).alone <=> k.alone)
        /\ mark(j).list = k.list /\ mark(j).answer = k.answer
        /\ mark(j).over = o /\ (mark(j).moved <=> m) /\ (mark(j).late <=> l)
    <3>1. mark(j) \in Calls
      BY ONLY <2>1, <2>2, <2>3 DEF Calls
    <3>2. /\ mark(j).q = k.q /\ mark(j).rows = k.rows /\ mark(j).drafts = k.drafts
          /\ mark(j).stage = k.stage /\ mark(j).list = k.list /\ mark(j).answer = k.answer
          /\ mark(j).over = o
      BY ONLY <2>1, <2>2 DEF Calls
    <3>3. /\ (mark(j).ok <=> k.ok) /\ (mark(j).alone <=> k.alone)
          /\ (mark(j).moved <=> m) /\ (mark(j).late <=> l)
      BY ONLY <2>1, <2>2 DEF Calls
    <3> QED
      BY ONLY <3>1, <3>2, <3>3
  <2>7. calls'[j] # Absent
    BY <2>4, <2>6, AbsentAssumption
  <2> HIDE DEF load
  <2> QED
    BY <2>1, <2>4, <2>5, <2>6, <2>7
<1> HIDE DEF mark
<1>4. calls'[i] = Absent /\ \A j \in Slots : calls[j] = Absent => calls'[j] = Absent
  BY <1>2
<1>5. Out' = Out \ {i} /\ i \in Out
  BY <1>3, <1>4 DEF Out
<1>6. Given' = Given \ {i} /\ i \in Given
  BY <1>3, <1>5 DEF Given, Out
<1>7. \A j \in Out \ {i} : j \in Slots \ {i} /\ calls[j] # Absent
  BY DEF Out
<1> QED
  BY <1>3, <1>5, <1>6, <1>7 DEF Taken

-----------------------------------------------------------------------------
(* The order of the calls. *)

LEMMA AddedOrdered ==
    ASSUME Ordered, NEW q, Added(q), UNCHANGED tab,
           tab = "roles" => q.op \notin {"setMember", "loadMember"},
           tab = "members" => q.op \in {"setMember", "loadMember"}
    PROVE  Ordered'
<1>1. Given \subseteq Out /\ First \notin Out
  BY DEF Given, Added
<1>2. ASSUME NEW i \in Out' PROVE CallsOf(calls[i])'
  <2>1. CASE i = First
    BY <2>1 DEF CallsOf, Added
  <2>2. CASE i \in Out
    BY <2>2 DEF Ordered, CallsOf, Added, IsLoad
  <2> QED
    BY <1>2, <2>1, <2>2 DEF Added
<1>3. OverKnown'
  BY DEF Ordered, OverKnown, Added
<1>4. OverTotal'
  BY <1>1 DEF Ordered, OverTotal, Added, IsLoad
<1>5. AloneOnce'
  BY DEF Ordered, AloneOnce, Added, IsLoad
<1> QED
  BY <1>2, <1>3, <1>4, <1>5 DEF Ordered

LEMMA TurnedOrdered ==
    ASSUME Ordered, NEW i, NEW ok, NEW list, NEW answer, Turned(i, ok, list, answer), UNCHANGED tab,
           IsLoad(calls[i]) => ok, calls[i].q.op = "delete" => list = NoRows
    PROVE  Ordered'
<1>1. Given \subseteq Out
  BY DEF Given
<1>2. ASSUME NEW j \in Out' PROVE CallsOf(calls[j])'
  <2>1. CASE j = i
    BY <2>1 DEF Ordered, CallsOf, Turned, IsLoad
  <2>2. CASE j # i
    BY <1>2, <2>2 DEF Ordered, CallsOf, Turned, IsLoad
  <2> QED
    BY <2>1, <2>2
<1>3. OverKnown'
  <2> SUFFICES ASSUME NEW j \in Out' PROVE calls'[j].over \subseteq Given'
    BY DEF OverKnown
  <2>1. CASE j = i
    BY <2>1 DEF Turned
  <2>2. CASE j # i
    BY <2>2 DEF Ordered, OverKnown, Turned
  <2> QED
    BY <2>1, <2>2
<1>4. OverTotal'
  <2> SUFFICES ASSUME NEW j \in Given', NEW l \in Given', IsLoad(calls[j])', IsLoad(calls[l])'
               PROVE  j = l \/ j \in calls'[l].over \/ l \in calls'[j].over
    BY DEF OverTotal
  <2>1. CASE j = i
    BY <1>1, <2>1 DEF Turned, IsLoad
  <2>2. CASE l = i
    BY <1>1, <2>2 DEF Turned, IsLoad
  <2>3. CASE j # i /\ l # i
    BY <1>1, <2>3 DEF Ordered, OverTotal, Turned, IsLoad
  <2> QED
    BY <2>1, <2>2, <2>3
<1>5. AloneOnce'
  <2>1. \A j \in Out : calls'[j].q = calls[j].q /\ (calls'[j].alone <=> calls[j].alone)
    BY DEF Turned
  <2> QED
    BY <2>1 DEF Ordered, AloneOnce, Turned, IsLoad
<1> QED
  BY <1>2, <1>3, <1>4, <1>5 DEF Ordered

LEMMA TakenOrdered ==
    ASSUME Ordered, NEW i, Taken(i), UNCHANGED tab
    PROVE  Ordered'
<1>1. Given \subseteq Out
  BY DEF Given
<1>2. ASSUME NEW j \in Out' PROVE CallsOf(calls[j])'
  BY <1>2 DEF Ordered, CallsOf, Taken, IsLoad
<1>3. OverKnown'
  BY DEF Ordered, OverKnown, Taken
<1>4. OverTotal'
  BY <1>1 DEF Ordered, OverTotal, Taken, IsLoad
<1>5. AloneOnce'
  BY DEF Ordered, AloneOnce, Taken, IsLoad
<1> QED
  BY <1>2, <1>3, <1>4, <1>5 DEF Ordered

-----------------------------------------------------------------------------
(* The user's steps and the stream's. *)

LEMMA HereStays ==
    ASSUME UNCHANGED <<regVars, member>>
    PROVE  RowsHere' = RowsHere /\ BoxesHere' = BoxesHere
BY DEF RowsHere, BoxesHere, Exists, regVars

LEMMA AddedDrafts ==
    ASSUME DraftsOut, DraftsWere, NEW q, Added(q),
           drafts' = drafts \/ (q.op = "create" /\ drafts' = drafts \cup {First})
    PROVE  DraftsOut' /\ DraftsWere'
<1>1. DraftsOut'
  BY DEF DraftsOut, Added
<1>2. (\A j \in Out : IsLoad(calls[j])) => drafts = {}
  BY DEF DraftsOut, IsLoad
<1>3. DraftsWere'
  <2> SUFFICES ASSUME NEW i \in Out', ~IsLoad(calls[i])', calls'[i].alone
               PROVE  calls'[i].drafts = {}
    BY DEF DraftsWere
  <2>1. CASE i = First
    BY <1>2, <2>1 DEF Added
  <2>2. CASE i \in Out
    BY <2>2 DEF DraftsWere, Added, IsLoad
  <2> QED
    BY <2>1, <2>2 DEF Added
<1> QED
  BY <1>1, <1>3

\* What puts the panel right, or will have gone wrong, is not disturbed by a call
\* that is made.
LEMMA AddedFollows ==
    ASSUME NEW q, Added(q), UNCHANGED <<regVars, member, events>>
    PROVE  (Reloads => Reloads') /\ (Doomed => Doomed') /\ (Lands => Lands')
<1>1. Given \subseteq Out /\ Given' = Given /\ Out \subseteq Out'
  BY DEF Given, Added
<1>2. \A j \in Out : calls'[j] = calls[j]
  BY DEF Added
<1>3. RowsHere' = RowsHere /\ BoxesHere' = BoxesHere
  BY HereStays
<1>4. Reloads => Reloads'
  BY <1>1, <1>2 DEF Reloads, IsLoad, Strays
<1>5. Doomed => Doomed'
  BY <1>1, <1>2 DEF Doomed, Undoes
<1>6. \A j \in Given : Loaded(calls[j])' <=> Loaded(calls[j])
  BY <1>1, <1>2, <1>3 DEF Loaded, IsLoad, Strays
<1>7. \A i, j \in Given : Follower(i, j)' <=> Follower(i, j)
  BY <1>1, <1>2, <1>6 DEF Follower, IsLoad, Strays
<1>8. Lands => Lands'
  BY <1>1, <1>6, <1>7 DEF Lands
<1> QED
  BY <1>4, <1>5, <1>8

\* A call that loads what the panel shows.
LEMMA AsksAgain ==
    ASSUME RestInv, NEW q, Added(q), UNCHANGED <<blemish, drafts>>,
           q.op = "load" \/ (q.op = "loadMember" /\ q.member = member')
    PROVE  RestInv'
<1>1. First \in Out' /\ calls'[First].q = q /\ calls'[First].stage = "sent"
  BY DEF Added
<1>2. Reloads'
  BY <1>1 DEF Reloads, IsLoad, Strays
<1> QED
  BY <1>2, AddedDrafts DEF RestInv, Follows

LEMMA DeliverRests ==
    ASSUME PanelInv, Ordered, RestInv, Deliver
    PROVE  Ordered' /\ RestInv'
<1> DEFINE q == Load(member)
<1>1. Send(q) /\ UNCHANGED <<regVars, tab, shown, drafts, form, member, blemish, used>>
  BY DEF Deliver, page
<1>2. tab \in {"roles", "members"} /\ member \in RegMembers
  BY DEF PanelInv, TypeOK
<1>3. /\ q \in Loads
      /\ tab = "roles" => q.op = "load"
      /\ tab = "members" => q.op = "loadMember" /\ q.member = member
  BY <1>2 DEF Load, Loads
<1> HIDE DEF q
<1>4. Added(q)
  BY <1>1, <1>3, SendAdds
<1>5. Ordered'
  BY <1>1, <1>2, <1>3, <1>4, AddedOrdered
<1>6. RestInv'
  BY <1>1, <1>2, <1>3, <1>4, AsksAgain
<1> QED
  BY <1>5, <1>6

LEMMA SelectRests ==
    ASSUME PanelInv, Ordered, RestInv, NEW m \in RegMembers, Select(m)
    PROVE  Ordered' /\ RestInv'
<1> DEFINE q == [op |-> "loadMember", member |-> m]
<1>1. /\ Send(q) /\ UNCHANGED <<regVars, tab, events, blemish>> /\ tab = "members"
      /\ member' = m /\ UNCHANGED <<shown, drafts, form>>
  BY DEF Select, User, page
<1>2. q \in Loads /\ q.op = "loadMember" /\ q.member = m
  BY DEF Loads
<1> HIDE DEF q
<1>3. Added(q)
  BY <1>1, <1>2, SendAdds
<1> QED
  BY <1>1, <1>2, <1>3, AddedOrdered, AsksAgain

\* A save, where the panel shows what it should expect then.
LEMMA SaveRests ==
    ASSUME PanelInv, Ordered, RestInv, NEW t, User(t), UNCHANGED member,
           NEW q \in RoleSaves \cup MemberSaves, Send(q),
           q.op \in {"create", "setMember"} \cup Edits,
           (q.op = "setMember") <=> tab = "members",
           drafts' = drafts \/ (q.op = "create" /\ drafts' = drafts \cup {First}),
           Sure /\ Added(q) =>
             Sure' \/ (q.op \in Edits /\ ~(\A j \in Out : IsLoad(calls[j])))
    PROVE  Ordered' /\ RestInv'
<1>1. UNCHANGED <<regVars, tab, events, blemish>> /\ tab \in {"roles", "members"}
  BY DEF User, PanelInv, TypeOK
<1>2. Added(q)
  BY SendAdds
<1>3. Ordered'
  BY <1>1, <1>2, AddedOrdered DEF Edits
<1>4. RestInv'
  <2> SUFFICES ASSUME ~blemish, DraftsOut, DraftsWere, Follows
               PROVE  DraftsOut' /\ DraftsWere' /\ Follows'
    BY <1>1 DEF RestInv
  <2>1. DraftsOut' /\ DraftsWere'
    BY <1>2, AddedDrafts
  <2>2. ASSUME Reloads \/ Doomed \/ Lands PROVE Follows'
    BY <1>1, <1>2, <2>2, AddedFollows DEF Follows
  <2>3. ASSUME Settled PROVE Settled'
    <3>1. Given \subseteq Out /\ Given' = Given /\ First \notin Out
      BY <1>2 DEF Given, Added
    <3>2. RowsHere' = RowsHere /\ BoxesHere' = BoxesHere
      BY <1>1, HereStays
    <3>3. \A j \in Given' : Harmless(j)'
      BY <1>2, <2>3, <3>1, <3>2 DEF Settled, Harmless, Loaded, IsLoad, Strays, Added
    <3>4. \A j \in Out' : Strays(calls[j])' => calls'[j].moved
      BY <1>2, <2>3 DEF Settled, Strays, Added, Edits
    <3>5. ASSUME NEW i \in Out, Rash(calls[i]) PROVE \E j \in Out' : Rash(calls[j])'
      BY <1>2, <3>5 DEF Rash, Added
    <3>6. ASSUME q.op \in Edits, ~(\A j \in Out : IsLoad(calls[j]))
          PROVE  \E j \in Out' : Rash(calls[j])'
      BY <1>2, <3>6 DEF Rash, Added
    <3> QED
      BY <1>2, <2>3, <3>3, <3>4, <3>5, <3>6 DEF Settled
  <2> QED
    BY <2>1, <2>2, <2>3 DEF Follows
<1> QED
  BY <1>3, <1>4

LEMMA CreateRests ==
    ASSUME PanelInv, Ordered, RestInv, NEW name \in RegNames, NEW rank \in RegRanks, Create(name, rank)
    PROVE  Ordered' /\ RestInv'
<1> DEFINE q == [op |-> "create", name |-> name, rank |-> rank]
<1>1. User("roles") /\ Send(q) /\ drafts' = drafts \cup {First} /\ UNCHANGED <<shown, member, form>>
  BY DEF Create
<1>2. q \in RoleSaves /\ q.op = "create"
  BY DEF RoleSaves
<1>3. tab = "roles" /\ UNCHANGED <<regVars, tab>>
  BY <1>1 DEF User
<1> HIDE DEF q
<1>4. ASSUME Sure, Added(q) PROVE Sure'
  <2>1. RowsHere' = RowsHere
    BY <1>1, <1>3, HereStays
  <2>2. \A i \in Out : /\ Pending(calls[i])' <=> Pending(calls[i])
                       /\ Restores(calls[i])' <=> Restores(calls[i])
    BY <1>1, <1>4, <2>1 DEF Pending, Restores, Added
  <2>3. ~Pending(calls'[First]) /\ Out' = Out \cup {First}
    BY <1>2, <1>4 DEF Pending, Edits, Added
  <2>4. \A i \in Out' : Pending(calls[i])' => i \in Out
    BY <2>3
  <2>5. RowsSure'
    BY <1>1, <1>3, <1>4, <2>1, <2>2, <2>3, <2>4 DEF Sure, RowsSure
  <2> QED
    BY <1>3, <2>5 DEF Sure
<1> QED
  BY <1>1, <1>2, <1>3, <1>4, SaveRests

\* A change of a role that is shown as the registry has it can be put back.
LEMMA EditRests ==
    ASSUME PanelInv, Ordered, RestInv, NEW r \in RegRoleIds, NEW row,
           Expecting(r, row), NEW q \in RoleSaves, Send(q), q.op \in Edits, q.role = r,
           q.op # "delete" => row # Absent
    PROVE  Ordered' /\ RestInv'
<1>1. /\ User("roles") /\ shown[r] # Absent /\ shown' = [shown EXCEPT ![r] = row]
      /\ UNCHANGED <<drafts, member, form>>
  BY DEF Expecting
<1>2. tab = "roles" /\ UNCHANGED <<regVars, tab>> /\ shown \in PanelLists
  BY <1>1 DEF User, PanelInv, TypeOK
<1>3. shown'[r] = row /\ \A s \in RegRoleIds \ {r} : shown'[s] = shown[s]
  BY <1>1, <1>2 DEF PanelLists
<1>4. ASSUME Sure, Added(q), \A j \in Out : IsLoad(calls[j]) PROVE Sure'
  <2>1. RowsHere' = RowsHere
    BY <1>1, <1>2, HereStays
  <2>2. \A i \in Out : ~Pending(calls[i]) /\ ~Pending(calls[i])'
    BY <1>4 DEF Pending, IsLoad, Edits, Added
  <2>3. shown = RowsHere
    BY <1>2, <1>4, <2>2 DEF Sure, RowsSure
  <2>4. PICK f \in Out' : f = First
    BY <1>4 DEF Added
  <2>5. Pending(calls[f])'
    BY <1>4, <2>4 DEF Pending, Added
  <2>6. Restores(calls[f])'
    <3>1. calls'[f].q = q /\ calls'[f].rows = shown
      BY <1>4, <2>4 DEF Added
    <3> QED
      BY <1>1, <1>3, <2>1, <2>3, <3>1 DEF Restores
  <2>7. \A i \in Out' : i = f \/ i \in Out
    BY <1>4, <2>4 DEF Added
  <2>8. RowsSure'
    BY <2>2, <2>5, <2>6, <2>7 DEF RowsSure
  <2> QED
    BY <1>2, <2>8 DEF Sure
<1> QED
  BY <1>1, <1>2, <1>4, SaveRests DEF Edits

\* The version that the panel counts is that of the registry and its own saves.
LEMMA CountedFinite == IsFiniteSet(Counted)
<1>1. IsFiniteSet(Slots)
  <2> DEFINE n == Cardinality(Slots)
  <2>1. Slots = 1 .. n
    BY BoundsAssumption
  <2>2. n \in Nat
    BY BoundsAssumption
  <2> QED
    BY <2>1, <2>2, FS_Interval
<1>2. Counted \in SUBSET Slots
  BY DEF Counted, Out
<1> QED
  BY <1>1, <1>2, FS_Subset

LEMMA BoxesRest ==
    ASSUME PanelInv, Ordered, RestInv, NEW rs \in SUBSET RegRoleIds, Save(rs)
    PROVE  Ordered' /\ RestInv'
<1> DEFINE q == [op |-> "setMember", member |-> member, roles |-> rs, expected |-> form.version]
<1>1. /\ User("members") /\ Send(q)
      /\ form' = [form EXCEPT !.roles = rs, !.version = @ + 1, !.answered = FALSE]
      /\ UNCHANGED <<shown, drafts, member>>
  BY DEF Save
<1>2. form \in Forms /\ form.version \in Int /\ member \in RegMembers
  BY DEF PanelInv, TypeOK, Forms
<1>3. q \in MemberSaves /\ q.op = "setMember"
  BY <1>2 DEF MemberSaves
<1>4. tab = "members" /\ UNCHANGED <<regVars, tab>>
  BY <1>1 DEF User
<1>5. form'.of = form.of /\ form'.version = form.version + 1 /\ ~form'.answered
  <2> DEFINE v == form.version + 1
  <2>1. form' = [form EXCEPT !.roles = rs, !.version = v, !.answered = FALSE]
    BY <1>1
  <2>2. v = form.version + 1
    OBVIOUS
  <2> HIDE DEF v
  <2> QED
    BY <1>2, <2>1, <2>2 DEF Forms
<1> HIDE DEF q
<1>6. ASSUME Sure, Added(q) PROVE Sure'
  <2>1. Counted' = Counted \cup {First} /\ First \notin Counted
    BY <1>3, <1>6 DEF Counted, Counts, Added
  <2>2. Cardinality(Counted') = Cardinality(Counted) + 1 /\ Cardinality(Counted) \in Nat
    BY <2>1, CountedFinite, FS_AddElement, FS_CardinalityType
  <2>3. versions[member] \in Nat /\ UNCHANGED <<versions, assigned>>
    BY <1>2, <1>4 DEF PanelInv, RegTyped, regVars
  <2>4. BoxesSure'
    BY <1>1, <1>2, <1>4, <1>5, <1>6, <2>2, <2>3 DEF Sure, BoxesSure
  <2> QED
    BY <1>4, <2>4 DEF Sure
<1> QED
  BY <1>1, <1>3, <1>4, <1>6, SaveRests

LEMMA UsersRest ==
    ASSUME PanelInv, Ordered, RestInv, Users
    PROVE  Ordered' /\ RestInv'
<1>1. shown \in PanelLists /\ FormTables \subseteq Tables
  BY TablesAssumption DEF PanelInv, TypeOK
<1>2. ASSUME NEW r \in RegRoleIds, shown[r] # Absent
      PROVE  shown[r] \in PanelRows /\ shown[r].version \in Nat /\ Expected(shown[r]) \in PanelRows
  <2>1. shown[r] \in PanelRows
    BY <1>1, <1>2 DEF PanelLists
  <2> QED
    BY <2>1, ExpectedTyped DEF PanelRows
<1>3. ASSUME NEW r \in RegRoleIds, NEW name \in RegNames, NEW rank \in RegRanks, Update(r, name, rank)
      PROVE  Ordered' /\ RestInv'
  <2> DEFINE q == [op |-> "update", role |-> r, name |-> name, rank |-> rank,
                   expected |-> shown[r].version]
             e == Expected(shown[r])
             row == [e EXCEPT !.name = name, !.rank = rank]
  <2>1. Send(q) /\ Expecting(r, row) /\ shown[r] # Absent
    BY <1>3 DEF Update, Expecting
  <2>2. q \in RoleSaves /\ q.op \in Edits /\ q.role = r
    BY <1>2, <2>1 DEF RoleSaves, Edits
  <2>3. row # Absent
    <3>1. e \in PanelRows
      BY <1>2, <2>1
    <3> HIDE DEF e
    <3>2. row \in PanelRows
      BY <3>1 DEF PanelRows
    <3> QED
      BY <3>2, AbsentAssumption
  <2> HIDE DEF q, row
  <2> QED
    BY <2>1, <2>2, <2>3, EditRests
<1>4. ASSUME NEW r \in RegRoleIds, NEW t \in FormTables, SaveEffects(r, t)
      PROVE  Ordered' /\ RestInv'
  <2> DEFINE q == [op |-> "setPerms", role |-> r, perm |-> t, expected |-> shown[r].version]
             e == Expected(shown[r])
             row == [e EXCEPT !.perm = t]
  <2>1. Send(q) /\ Expecting(r, row) /\ shown[r] # Absent
    BY <1>4 DEF SaveEffects, Expecting
  <2>2. q \in RoleSaves /\ q.op \in Edits /\ q.role = r
    BY <1>2, <2>1 DEF RoleSaves, Edits
  <2>3. row # Absent
    <3>1. e \in PanelRows
      BY <1>2, <2>1
    <3> HIDE DEF e
    <3>2. row \in PanelRows
      BY <1>1, <3>1 DEF PanelRows
    <3> QED
      BY <3>2, AbsentAssumption
  <2> HIDE DEF q, row
  <2> QED
    BY <2>1, <2>2, <2>3, EditRests
<1>5. ASSUME NEW r \in RegRoleIds, Remove(r)
      PROVE  Ordered' /\ RestInv'
  <2> DEFINE q == [op |-> "delete", role |-> r, expected |-> shown[r].version]
  <2>1. Send(q) /\ Expecting(r, Absent) /\ shown[r] # Absent
    BY <1>5 DEF Remove, Expecting
  <2>2. q \in RoleSaves /\ q.op \in Edits /\ q.role = r /\ q.op = "delete"
    BY <1>2, <2>1 DEF RoleSaves, Edits
  <2> HIDE DEF q
  <2> QED
    BY <2>1, <2>2, EditRests
<1> QED
  BY <1>3, <1>4, <1>5, CreateRests, SelectRests, BoxesRest DEF Users

-----------------------------------------------------------------------------
(* The server's and the others' steps. *)

LEMMA TurnedDrafts ==
    ASSUME DraftsOut, DraftsWere, NEW i, NEW ok, NEW list, NEW answer, Turned(i, ok, list, answer),
           UNCHANGED drafts
    PROVE  DraftsOut' /\ DraftsWere'
<1>1. \A j \in Out : /\ calls'[j].q = calls[j].q /\ calls'[j].drafts = calls[j].drafts
                     /\ calls'[j].alone <=> calls[j].alone
  BY DEF Turned
<1>2. Out' = Out
  BY DEF Turned
<1> QED
  BY <1>1, <1>2 DEF DraftsOut, DraftsWere, IsLoad

\* A save that the registry takes is told by an event.
LEMMA GrantedTells ==
    ASSUME PanelInv, Ordered, RestInv, NEW i \in Slots, Grant(i) \/ Same(i)
    PROVE  Ordered' /\ RestInv'
<1>1. Serve(i) /\ events' = events + 1
  BY DEF Grant, Same
<1>2. UNCHANGED <<tab, shown, drafts, form, member, blemish, used>> /\ events \in Nat /\ calls[i] \in Calls
  BY <1>1 DEF Serve, page, PanelInv, TypeOK
<1>3. RegInv'
  BY GrantStep, SameStep, RegInvOf, StutterAges DEF PanelInv, TypeOK, RegInv
<1>4. ASSUME Reply(i, TRUE, NoRows, NoForm) PROVE Turned(i, TRUE, NoRows, NoForm)
  BY <1>1, <1>4, ReplyTurns, NothingTrue
<1>5. ASSUME NEW r \in RegRoleIds, Made(i, r) PROVE Turned(i, TRUE, RowsNow({r}), NoForm)
  <2>1. RowsNow({r}) \in PanelLists
    BY <1>3, RowsNowTrue
  <2> QED
    BY <1>1, <1>5, <2>1, ReplyTurns, NothingTrue DEF Made
<1>6. \/ Reply(i, TRUE, NoRows, NoForm)
      \/ calls[i].q.op # "delete" /\ \E r \in RegRoleIds : Made(i, r)
  BY <1>2, SaveFields DEF Grant, Same
<1>7. PICK list : Turned(i, TRUE, list, NoForm) /\ (calls[i].q.op = "delete" => list = NoRows)
  BY <1>4, <1>5, <1>6
<1>8. Ordered'
  BY <1>2, <1>7, TurnedOrdered
<1>9. Reloads'
  BY <1>1, <1>2 DEF Reloads
<1> QED
  BY <1>2, <1>7, <1>8, <1>9, TurnedDrafts DEF RestInv, Follows

LEMMA OthersRest ==
    ASSUME PanelInv, Ordered, RestInv, Others
    PROVE  Ordered' /\ RestInv'
<1>1. UNCHANGED <<tab, shown, drafts, form, member, calls, blemish>> /\ events' = events + 1 /\ events \in Nat
  BY DEF Others, page, PanelInv, TypeOK
<1>2. Out' = Out /\ Given' = Given
  BY <1>1 DEF Out, Given
<1>3. Ordered'
  BY <1>1, <1>2 DEF Ordered, CallsOf, OverKnown, OverTotal, AloneOnce, IsLoad
<1>4. (DraftsOut => DraftsOut') /\ (DraftsWere => DraftsWere')
  BY <1>1, <1>2 DEF DraftsOut, DraftsWere, IsLoad
<1>5. Reloads'
  BY <1>1 DEF Reloads
<1> QED
  BY <1>1, <1>3, <1>4, <1>5 DEF RestInv, Follows

\* What a true load will put right, or a doomed answer wrong, it still does after
\* another call was answered.
LEMMA TurnedFollows ==
    ASSUME Ordered, NEW i, NEW ok, NEW list, NEW answer, Turned(i, ok, list, answer),
           UNCHANGED <<regVars, member>>
    PROVE  /\ Doomed => Doomed'
           /\ Lands /\ (IsLoad(calls[i]) => Strays(calls[i])) /\ (~IsLoad(calls[i]) => ~ok) => Lands'
           /\ \A j \in Given : Loaded(calls[j])' <=> Loaded(calls[j])
<1>1. Given \subseteq Out /\ Given' = Given \cup {i} /\ i \notin Given
  BY DEF Given, Turned
<1>2. \A j \in Given : calls'[j] = calls[j]
  BY <1>1 DEF Turned
<1>3. RowsHere' = RowsHere /\ BoxesHere' = BoxesHere
  BY HereStays
<1>4. Doomed => Doomed'
  BY <1>1, <1>2 DEF Doomed, Undoes
<1>5. \A j \in Given : Loaded(calls[j])' <=> Loaded(calls[j])
  BY <1>1, <1>2, <1>3 DEF Loaded, IsLoad, Strays
<1>6. ASSUME NEW l \in Given, NEW j \in Given, Follower(l, j) PROVE Follower(l, j)'
  BY <1>2, <1>5, <1>6 DEF Follower, IsLoad, Strays
<1>7. ASSUME NEW l \in Given, IsLoad(calls[i]) => Strays(calls[i]), ~IsLoad(calls[i]) => ~ok
      PROVE  Follower(l, i)'
  BY <1>7 DEF Follower, Turned, IsLoad, Strays
<1>8. ASSUME Lands, IsLoad(calls[i]) => Strays(calls[i]), ~IsLoad(calls[i]) => ~ok PROVE Lands'
  <2>1. PICK l \in Given : Loaded(calls[l]) /\ \A j \in Given : Follower(l, j)
    BY <1>8 DEF Lands
  <2>2. \A j \in Given' : Follower(l, j)'
    BY <1>1, <1>6, <1>7, <1>8, <2>1
  <2> QED
    BY <1>1, <1>5, <2>1, <2>2 DEF Lands
<1> QED
  BY <1>4, <1>5, <1>8

LEMMA ReadRests ==
    ASSUME PanelInv, Ordered, RestInv, NEW i \in Slots, Read(i)
    PROVE  Ordered' /\ RestInv'
<1> DEFINE k == calls[i]
<1>1. /\ Serve(i) /\ IsLoad(k) /\ UNCHANGED <<regVars, events>>
      /\ IF k.q.op = "load" THEN Reply(i, TRUE, RowsNow(RegRoleIds), NoForm)
         ELSE Reply(i, TRUE, NoRows, FormNow(k.q.member))
  BY DEF Read
<1>2. UNCHANGED <<tab, shown, drafts, form, member, blemish, used>> /\ k \in Calls
  BY <1>1 DEF Serve, page, PanelInv, TypeOK
<1>3. RegInv'
  BY <1>1, RegInvOf, StutterAges
<1>4. PICK list, answer :
        /\ Turned(i, TRUE, list, answer)
        /\ k.q.op = "load" => list = RowsNow(RegRoleIds)
        /\ k.q.op = "loadMember" => answer = FormNow(k.q.member)
  <2>1. ASSUME k.q.op = "load" PROVE Turned(i, TRUE, RowsNow(RegRoleIds), NoForm)
    <3>1. RowsNow(RegRoleIds) \in PanelLists /\ NoForm \in Forms
      BY <1>3, RowsNowTrue, NothingTrue
    <3> QED
      BY <1>1, <2>1, <3>1, ReplyTurns
  <2>2. ASSUME k.q.op = "loadMember" PROVE Turned(i, TRUE, NoRows, FormNow(k.q.member))
    <3>1. FormNow(k.q.member) \in Forms /\ NoRows \in PanelLists
      BY <1>2, <1>3, <2>2, SaveFields, FormNowTrue, NothingTrue
    <3> QED
      BY <1>1, <2>2, <3>1, ReplyTurns
  <2> QED
    BY <1>1, <2>1, <2>2 DEF IsLoad
<1>5. /\ RowsNow(RegRoleIds) = RowsHere'
      /\ ~Strays(k) /\ k.q.op = "loadMember" => FormNow(k.q.member) = BoxesHere'
  BY <1>2 DEF RowsNow, RowOf, RowsHere, FormNow, BoxesHere, Exists, Strays
<1>6. Ordered'
  BY <1>1, <1>2, <1>4, TurnedOrdered DEF IsLoad
<1>7. RestInv'
  <2> SUFFICES ASSUME ~blemish, DraftsOut, DraftsWere, Follows
               PROVE  DraftsOut' /\ DraftsWere' /\ Follows'
    BY <1>2 DEF RestInv
  <2>1. DraftsOut' /\ DraftsWere'
    BY <1>2, <1>4, TurnedDrafts
  <2>2. /\ Given \subseteq Out /\ Given' = Given \cup {i} /\ i \notin Given /\ i \in Out /\ Out' = Out
        /\ calls'[i].q = k.q /\ calls'[i].over = Given
        /\ \A j \in Given : calls'[j] = calls[j]
    BY <1>1, <1>4 DEF Given, Turned
  <2>3. ASSUME ~Strays(k) PROVE Lands'
    <3>1. Loaded(calls[i])'
      BY <1>1, <1>2, <1>4, <1>5, <2>2, <2>3 DEF Loaded, IsLoad, Strays, Turned
    <3>2. ASSUME NEW j \in Given' PROVE Follower(i, j)'
      <4>1. CASE j = i
        BY <1>1, <2>2, <4>1 DEF Follower, IsLoad
      <4>2. CASE j \in Given
        BY <2>2, <4>2 DEF Follower, Ordered, OverKnown
      <4> QED
        BY <2>2, <4>1, <4>2
    <3> QED
      BY <2>2, <3>1, <3>2 DEF Lands
  <2>4. ASSUME Strays(k) PROVE Follows'
    <3>1. ASSUME Doomed \/ Lands PROVE Follows'
      BY <1>1, <1>2, <1>4, <2>4, <3>1, TurnedFollows DEF Follows
    <3>2. ASSUME Reloads PROVE Reloads'
      <4>1. events' = events
        BY <1>1
      <4>2. ASSUME NEW j \in Out, IsLoad(calls[j]), ~Strays(calls[j]), calls[j].stage = "sent"
            PROVE  Reloads'
        <5>1. j # i /\ calls'[j] = calls[j]
          BY <1>4, <2>4, <4>2 DEF Turned
        <5> QED
          BY <1>2, <2>2, <4>2, <5>1 DEF Reloads, IsLoad, Strays
      <4> QED
        BY <3>2, <4>1, <4>2 DEF Reloads
    <3>3. ASSUME Settled PROVE Doomed'
      <4>1. k.moved
        BY <2>2, <2>4, <3>3 DEF Settled
      <4>2. Undoes(calls[i])'
        BY <1>2, <1>4, <2>4, <4>1 DEF Undoes, Strays, Turned
      <4> QED
        BY <2>2, <4>2 DEF Doomed
    <3> QED
      BY <3>1, <3>2, <3>3 DEF Follows
  <2> QED
    BY <2>1, <2>3, <2>4 DEF Follows
<1> QED
  BY <1>6, <1>7

LEMMA RefuseRests ==
    ASSUME PanelInv, Ordered, RestInv, NEW i \in Slots, Refuse(i)
    PROVE  Ordered' /\ RestInv'
<1> DEFINE k == calls[i]
<1>1. /\ Serve(i) /\ ~IsLoad(k) /\ UNCHANGED regVars /\ Reply(i, FALSE, NoRows, NoForm)
      /\ events' \in {events, events + 1}
  BY DEF Refuse
<1>2. /\ UNCHANGED <<tab, shown, drafts, form, member, blemish, used>> /\ k.stage = "sent"
      /\ events \in Nat
  BY <1>1 DEF Serve, page, PanelInv, TypeOK
<1>3. Turned(i, FALSE, NoRows, NoForm)
  BY <1>1, ReplyTurns, NothingTrue
<1>4. Ordered'
  BY <1>1, <1>2, <1>3, TurnedOrdered
<1>5. RestInv'
  <2> SUFFICES ASSUME ~blemish, DraftsOut, DraftsWere, Follows
               PROVE  DraftsOut' /\ DraftsWere' /\ Follows'
    BY <1>2 DEF RestInv
  <2>1. DraftsOut' /\ DraftsWere'
    BY <1>2, <1>3, TurnedDrafts
  <2>2. /\ Given \subseteq Out /\ Given' = Given \cup {i} /\ i \notin Given /\ i \in Out /\ Out' = Out
        /\ \A j \in Out \ {i} : calls'[j] = calls[j]
    BY <1>3 DEF Given, Turned
  <2>3. ASSUME Doomed \/ Lands PROVE Follows'
    BY <1>1, <1>2, <1>3, <2>3, TurnedFollows DEF Follows
  <2>4. ASSUME Reloads PROVE Reloads'
    <3>1. events > 0 => events' > 0
      BY <1>1, <1>2
    <3>2. ASSUME NEW j \in Out, IsLoad(calls[j]), ~Strays(calls[j]), calls[j].stage = "sent"
          PROVE  Reloads'
      BY <1>1, <1>2, <2>2, <3>2 DEF Reloads, IsLoad, Strays
    <3> QED
      BY <2>4, <3>1, <3>2 DEF Reloads
  <2>5. ASSUME Settled, Rash(k) PROVE Doomed'
    <3>1. Undoes(calls[i])'
      BY <1>3, <2>5 DEF Undoes, Rash, Edits, Turned
    <3> QED
      BY <2>2, <3>1 DEF Doomed
  <2>6. ASSUME Settled, ~Rash(k) PROVE Settled'
    <3>1. RowsHere' = RowsHere /\ BoxesHere' = BoxesHere
      BY <1>1, <1>2, HereStays
    <3>2. \A j \in Given' : Harmless(j)'
      <4>1. Harmless(i)'
        BY <1>1, <1>3 DEF Harmless, IsLoad, Turned
      <4>2. ASSUME NEW j \in Given PROVE Harmless(j)'
        BY <1>2, <2>2, <2>6, <3>1 DEF Settled, Harmless, Loaded, IsLoad, Strays
      <4> QED
        BY <2>2, <4>1, <4>2
    <3>3. \A j \in Out' : Strays(calls[j])' => calls'[j].moved
      BY <1>2, <1>3, <2>6 DEF Settled, Strays, Turned
    <3>4. ASSUME NEW j \in Out, Rash(calls[j]) PROVE \E l \in Out' : Rash(calls[l])'
      BY <2>2, <2>6, <3>4 DEF Rash
    <3>5. \A j \in Out : /\ Pending(calls[j])' <=> Pending(calls[j])
                         /\ Restores(calls[j])' <=> Restores(calls[j])
                         /\ Counts(calls[j])' <=> Counts(calls[j])
      <4>1. /\ Pending(calls[i])' <=> Pending(k)
            /\ Restores(calls[i])' <=> Restores(k)
            /\ Counts(calls[i])' <=> Counts(k)
        BY <1>2, <1>3, <3>1 DEF Pending, Restores, Counts, Turned
      <4>2. ASSUME NEW j \in Out \ {i}
            PROVE  /\ Pending(calls[j])' <=> Pending(calls[j])
                   /\ Restores(calls[j])' <=> Restores(calls[j])
                   /\ Counts(calls[j])' <=> Counts(calls[j])
        BY <1>2, <2>2, <3>1 DEF Pending, Restores, Counts
      <4> QED
        BY <4>1, <4>2
    <3>6. Sure => Sure'
      <4>1. Counted' = Counted
        BY <2>2, <3>5 DEF Counted
      <4>2. RowsSure => RowsSure'
        BY <1>2, <2>2, <3>1, <3>5 DEF RowsSure
      <4>3. BoxesSure => BoxesSure'
        BY <1>1, <1>2, <4>1 DEF BoxesSure, regVars
      <4> QED
        BY <1>2, <4>2, <4>3 DEF Sure
    <3> QED
      BY <2>6, <3>2, <3>3, <3>4, <3>6 DEF Settled
  <2> QED
    BY <2>1, <2>3, <2>4, <2>5, <2>6 DEF Follows
<1> QED
  BY <1>4, <1>5

-----------------------------------------------------------------------------
(* Answers that arrive. *)

\* Only a call's own draft goes, or all of them: a refused deletion puts back the
\* drafts that were there, and there were none.
LEMMA DraftsGo ==
    ASSUME DraftsOut, DraftsWere, NEW i, Receive(i), Taken(i), ~Undoes(calls[i])
    PROVE  drafts' \subseteq drafts \ {i} /\ DraftsOut' /\ DraftsWere'
<1> DEFINE k == calls[i]
<1>1. \/ ReceiveLoad(k) \/ ReceiveCreate(k, i)
      \/ k.q.op = "setMember" /\ ReceiveMember(k)
      \/ k.q.op \in {"update", "setPerms", "delete"} /\ ReceiveChange(k)
  BY DEF Receive
<1>2. k.q.op # "create" => i \notin drafts
  BY DEF DraftsOut
<1>3. i \in Out
  BY DEF Taken, Given
<1>4. drafts' \subseteq drafts \ {i}
  <2>1. CASE k.q.op = "create"
    BY <1>1, <2>1 DEF Receive, ReceiveCreate, IsLoad
  <2>2. CASE k.q.op = "delete" /\ ~k.ok
    BY <1>1, <1>3, <2>2 DEF Receive, ReceiveChange, IsLoad, Undoes, DraftsWere
  <2>3. CASE k.q.op # "create" /\ ~(k.q.op = "delete" /\ ~k.ok)
    BY <1>2, <2>3 DEF Receive, ReceiveLoad, ReceiveChange, ReceiveMember
  <2> QED
    BY <2>1, <2>2, <2>3
<1>5. DraftsOut'
  BY <1>4 DEF DraftsOut, Taken
<1>6. DraftsWere'
  BY DEF DraftsWere, Taken, IsLoad
<1> QED
  BY <1>4, <1>5, <1>6

\* A true load puts the panel right, and what was answered before it and comes
\* after it is noticed.
LEMMA LoadSettles ==
    ASSUME PanelInv, Ordered, NEW i \in Slots, Receive(i), Taken(i), Loaded(calls[i]),
           \A j \in Given \ {i} : Harmless(j)' \/ Doomed'
    PROVE  Doomed' \/ Settled'
<1> DEFINE k == calls[i]
<1>1. /\ IsLoad(k) /\ ReceiveLoad(k) /\ UNCHANGED <<regVars, tab, member, events>>
      /\ tab \in {"roles", "members"}
  BY DEF Receive, Loaded, IsLoad, ReceiveCreate, ReceiveChange, ReceiveMember, PanelInv, TypeOK
<1>2. RowsHere' = RowsHere /\ BoxesHere' = BoxesHere
  BY <1>1, HereStays
<1>3. \A j \in Out' : calls'[j].moved
  BY <1>1 DEF Taken
<1>4. (tab = "roles" <=> k.q.op = "load") /\ i \in Out
  BY <1>1 DEF Ordered, CallsOf, IsLoad, Taken, Given
<1>5. \A j \in Out' : ~Pending(calls[j])' /\ ~Counts(calls[j])'
  BY <1>3 DEF Pending, Counts
<1>6. Sure'
  <2>1. ASSUME tab = "roles" PROVE RowsSure'
    BY <1>1, <1>2, <1>4, <1>5, <2>1 DEF RowsSure, Loaded, ReceiveLoad
  <2>2. ASSUME tab = "members" PROVE BoxesSure'
    <3>1. Counted' = {}
      BY <1>5 DEF Counted
    <3>2. form' = BoxesHere
      BY <1>1, <1>4, <2>2 DEF Loaded, ReceiveLoad, IsLoad
    <3>3. versions[member] \in Nat /\ UNCHANGED <<versions, assigned, member>>
      BY <1>1 DEF PanelInv, RegTyped, TypeOK, regVars
    <3>4. form'.of = member /\ form'.roles = assigned[member] /\ form'.version = versions[member]
      BY <3>2 DEF BoxesHere
    <3>5. Cardinality(Counted') = 0
      BY <3>1, FS_EmptySet
    <3> QED
      BY <3>3, <3>4, <3>5 DEF BoxesSure
  <2> QED
    BY <1>1, <2>1, <2>2 DEF Sure
<1> QED
  BY <1>3, <1>6 DEF Settled, Taken

LEMMA TakenStays ==
    ASSUME NEW i, Taken(i), UNCHANGED <<regVars, member>>, NEW j \in Given \ {i}
    PROVE  /\ (Loaded(calls[j])' <=> Loaded(calls[j])) /\ (Strays(calls[j])' <=> Strays(calls[j]))
           /\ j \in Given' /\ j \in Out' /\ j \in Out \ {i}
           /\ Undoes(calls[j]) => Undoes(calls[j])'
<1>1. RowsHere' = RowsHere /\ BoxesHere' = BoxesHere
  BY HereStays
<1>2. j \in Given' /\ j \in Out' /\ j \in Out \ {i}
  BY DEF Taken, Given
<1>3. Strays(calls[j])' <=> Strays(calls[j])
  BY <1>2 DEF Strays, Taken
<1>4. Loaded(calls[j])' <=> Loaded(calls[j])
  BY <1>1, <1>2, <1>3 DEF Loaded, IsLoad, Taken
<1>5. Undoes(calls[j]) => Undoes(calls[j])'
  BY <1>2 DEF Undoes, Taken
<1> QED
  BY <1>2, <1>3, <1>4, <1>5

\* A true load on its way stays one, or is the one that arrives.
LEMMA LandsStays ==
    ASSUME PanelInv, Ordered, DraftsOut, DraftsWere, NEW i \in Slots, Receive(i), Taken(i),
           ~Undoes(calls[i]), Lands
    PROVE  Lands' \/ Doomed' \/ Settled'
<1>1. PICK l \in Given : Loaded(calls[l]) /\ \A j \in Given : Follower(l, j)
  BY DEF Lands
<1>2. UNCHANGED <<regVars, tab, member, events>>
  BY DEF Receive
<1>3. Given' = Given \ {i} /\ Given \subseteq Out
  BY DEF Taken, Given
<1>4. CASE l # i
  <2>1. ASSUME NEW j \in Given' PROVE Follower(l, j)'
    <3>1. j \in Given \ {i} /\ l \in Given \ {i} /\ Follower(l, j)
      BY <1>1, <1>3, <1>4, <2>1
    <3>2. /\ (Loaded(calls[j])' <=> Loaded(calls[j])) /\ (Strays(calls[j])' <=> Strays(calls[j]))
          /\ calls'[j].q = calls[j].q /\ (calls'[j].ok <=> calls[j].ok)
          /\ calls'[j].over = calls[j].over \ {i} /\ calls'[l].over = calls[l].over \ {i}
      BY <1>2, <1>3, <3>1, TakenStays DEF Taken
    <3> QED
      BY <1>4, <3>1, <3>2 DEF Follower, IsLoad
  <2>2. l \in Given' /\ Loaded(calls[l])'
    BY <1>1, <1>2, <1>3, <1>4, TakenStays
  <2> QED
    BY <2>1, <2>2 DEF Lands
<1>5. CASE l = i
  <2>1. ASSUME NEW j \in Given \ {i} PROVE Harmless(j)' \/ Doomed'
    <3>1. /\ (Loaded(calls[j])' <=> Loaded(calls[j])) /\ (Strays(calls[j])' <=> Strays(calls[j]))
          /\ j \in Given' /\ calls'[j].q = calls[j].q /\ (calls'[j].ok <=> calls[j].ok)
          /\ calls'[j].late <=> calls[j].late \/ (IsLoad(calls[i]) /\ j \in calls[i].over)
      BY <1>2, TakenStays DEF Taken
    <3>2. IsLoad(calls[i]) /\ Follower(i, j)
      BY <1>1, <1>5 DEF Loaded
    <3>3. ASSUME j \in calls[i].over, calls[j].ok,
                 calls[j].q.op \in {"load", "loadMember", "update", "setPerms"}
          PROVE  Doomed'
      BY <3>1, <3>2, <3>3 DEF Undoes, Doomed
    <3>4. ASSUME IsLoad(calls[j]) PROVE Harmless(j)' \/ Doomed'
      <4>1. CASE Loaded(calls[j]) \/ Strays(calls[j])
        BY <3>1, <3>4, <4>1 DEF Harmless, IsLoad
      <4>2. CASE i \notin calls[j].over
        <5>1. j \in calls[i].over /\ calls[j].ok
          BY <1>3, <3>2, <3>4, <4>2 DEF Ordered, OverTotal, CallsOf, Taken, Given
        <5> QED
          BY <3>3, <3>4, <5>1 DEF IsLoad
      <4> QED
        BY <3>2, <3>4, <4>1, <4>2 DEF Follower
    <3>5. ASSUME calls[j].q.op = "create" PROVE Harmless(j)'
      <4>1. tab = "roles" /\ calls[i].q.op = "load"
        BY <1>3, <3>2, <3>5 DEF Ordered, CallsOf, IsLoad, Taken, PanelInv, TypeOK
      <4>2. drafts' = {}
        BY <4>1 DEF Receive, ReceiveLoad, IsLoad
      <4> QED
        BY <3>1, <3>5, <4>2 DEF Harmless, IsLoad
    <3>6. ASSUME calls[j].q.op \in {"update", "setPerms"} PROVE Harmless(j)' \/ Doomed'
      BY <3>1, <3>2, <3>3, <3>6 DEF Harmless, Follower, IsLoad
    <3>7. ASSUME calls[j].q.op \notin {"create", "update", "setPerms"}, ~IsLoad(calls[j]) PROVE Harmless(j)'
      BY <3>1, <3>7 DEF Harmless, IsLoad
    <3> QED
      BY <3>4, <3>5, <3>6, <3>7
  <2> QED
    BY <1>1, <1>5, <2>1, LoadSettles
<1> QED
  BY <1>4, <1>5

\* An answer that is no load leaves the others as they were.
LEMMA SaveTaken ==
    ASSUME NEW i, Taken(i), ~IsLoad(calls[i]), UNCHANGED <<regVars, member>>, NEW j \in Out \ {i}
    PROVE  /\ Pending(calls'[j]) <=> Pending(calls[j])
           /\ Counts(calls'[j]) <=> Counts(calls[j])
           /\ Rash(calls'[j]) <=> Rash(calls[j])
           /\ shown' = shown => (Restores(calls[j])' <=> Restores(calls[j]))
<1>1. RowsHere' = RowsHere
  BY HereStays
<1>2. /\ calls'[j].q = calls[j].q /\ calls'[j].rows = calls[j].rows
      /\ calls'[j].stage = calls[j].stage /\ (calls'[j].ok <=> calls[j].ok)
      /\ (calls'[j].alone <=> calls[j].alone) /\ (calls'[j].moved <=> calls[j].moved)
  BY DEF Taken
<1> QED
  BY <1>1, <1>2 DEF Pending, Counts, Rash, Restores

\* What a refused save puts back is what the registry has.
LEMMA PutsBack ==
    ASSUME PanelInv, NEW k \in Calls, k.q.op \in Edits, Restores(k)
    PROVE  Restored(k) = RowsHere
<1>1. shown \in PanelLists
  BY DEF PanelInv, TypeOK
<1>2. CASE k.q.op = "delete"
  BY <1>2 DEF Restored, Restores
<1>3. CASE k.q.op # "delete"
  <2>1. k.q.role \in RegRoleIds
    BY <1>3, SaveFields DEF Edits
  <2>2. Restored(k) = [shown EXCEPT ![k.q.role] = k.rows[k.q.role]]
    BY <1>1, <1>3, <2>1 DEF Restored, Restores, PanelLists
  <2>3. /\ Restored(k) = [r \in RegRoleIds |-> Restored(k)[r]]
        /\ \A r \in RegRoleIds : Restored(k)[r] = IF r = k.q.role THEN k.rows[r] ELSE shown[r]
    BY <1>1, <2>1, <2>2 DEF PanelLists
  <2>4. \A r \in RegRoleIds : Restored(k)[r] = RowsHere[r]
    BY <1>3, <2>1, <2>3 DEF Restores
  <2>5. RowsHere = [r \in RegRoleIds |-> RowsHere[r]]
    BY DEF RowsHere
  <2> QED
    BY <2>3, <2>4, <2>5
<1> QED
  BY <1>2, <1>3

\* The panel stays sure of what it shows where an answer is harmless and no
\* blemish.
LEMMA RowsStaySure ==
    ASSUME PanelInv, Ordered, NEW i \in Slots, Receive(i), Taken(i), ~Undoes(calls[i]),
           tab = "roles", ~IsLoad(calls[i]), Harmless(i), RowsSure
    PROVE  RowsSure'
<1> DEFINE k == calls[i]
<1>1. /\ UNCHANGED <<regVars, tab, member, events>> /\ k \in Calls /\ i \in Out
      /\ k.stage = "answered" /\ shown \in PanelLists
  BY DEF Receive, PanelInv, TypeOK, Taken, Given
<1>2. RowsHere' = RowsHere /\ Out' = Out \ {i}
  BY <1>1, HereStays DEF Taken
<1>3. \A j \in Out \ {i} : /\ Pending(calls'[j]) <=> Pending(calls[j])
                           /\ shown' = shown => (Restores(calls[j])' <=> Restores(calls[j]))
  BY <1>1, SaveTaken
<1>4. ASSUME shown' = shown, ~Pending(k) PROVE RowsSure'
  BY <1>2, <1>3, <1>4 DEF RowsSure
<1>5. ASSUME Pending(k), shown' = Restored(k) PROVE RowsSure'
  <2>1. shown' = RowsHere'
    BY <1>1, <1>2, <1>5, PutsBack DEF RowsSure, Pending
  <2>2. ASSUME NEW j \in Out \ {i} PROVE ~Pending(calls'[j])
    <3>1. Pending(calls[j]) => j = i
      BY <1>1, <1>5 DEF Ordered, AloneOnce, Pending, Edits, IsLoad
    <3> QED
      BY <1>3, <3>1
  <2> QED
    BY <1>2, <2>1, <2>2 DEF RowsSure
<1>6. k.q.op \in {"create", "update", "setPerms", "delete"} /\ CallsOf(k)
  BY <1>1, SaveFields DEF Ordered, CallsOf, IsLoad
<1>7. CASE k.q.op = "create"
  <2>1. shown' = shown
    BY <1>7 DEF Receive, ReceiveCreate, Harmless, IsLoad
  <2> QED
    BY <1>4, <1>7, <2>1 DEF Pending, Edits
<1>8. CASE k.q.op # "create" /\ k.ok
  <2>1. k.q.op = "delete" /\ k.list = NoRows /\ ReceiveChange(k)
    BY <1>6, <1>8 DEF Harmless, CallsOf, Receive, IsLoad
  <2>2. shown' = [r \in RegRoleIds |-> Answered(k, r)]
    BY <1>8, <2>1 DEF ReceiveChange
  <2>3. \A r \in RegRoleIds : Answered(k, r) = shown[r]
    BY <2>1 DEF Answered, NoRows
  <2>4. shown' = shown
    BY <1>1, <2>2, <2>3 DEF PanelLists
  <2> QED
    BY <1>1, <1>4, <1>8, <2>4 DEF Pending
<1>9. CASE k.q.op # "create" /\ ~k.ok
  <2>1. shown' = Restored(k)
    BY <1>6, <1>9 DEF Receive, ReceiveChange, IsLoad
  <2>2. Pending(k)
    BY <1>6, <1>9 DEF Pending, Edits, Undoes
  <2> QED
    BY <1>5, <2>1, <2>2
<1> QED
  BY <1>7, <1>8, <1>9

LEMMA BoxesStaySure ==
    ASSUME PanelInv, Ordered, NEW i \in Slots, Receive(i), Taken(i), ~Undoes(calls[i]),
           tab = "members", ~IsLoad(calls[i]), BoxesSure
    PROVE  BoxesSure'
<1> DEFINE k == calls[i]
<1>1. /\ UNCHANGED <<regVars, tab, member, events>> /\ i \in Out /\ k.stage = "answered"
      /\ form \in Forms /\ form.version \in Int /\ member \in RegMembers
  BY DEF Receive, PanelInv, TypeOK, Taken, Given, Forms
<1>2. k.q.op = "setMember"
  BY <1>1 DEF Ordered, CallsOf, IsLoad
<1>3. form' = IF k.ok THEN form ELSE [form EXCEPT !.version = @ - 1]
  BY <1>2 DEF Receive, ReceiveMember, IsLoad
<1>4. UNCHANGED <<versions, assigned, member>> /\ versions[member] \in Nat
  BY <1>1 DEF regVars, PanelInv, RegTyped
<1>5. Out' = Out \ {i} /\ \A j \in Out \ {i} : Counts(calls'[j]) <=> Counts(calls[j])
  BY <1>1, SaveTaken DEF Taken
<1>6. Counted' = Counted \ {i}
  BY <1>5 DEF Counted
<1>7. IsFiniteSet(Counted) /\ Cardinality(Counted) \in Nat
  BY CountedFinite, FS_CardinalityType
<1>8. CASE k.ok
  <2>1. Counted' = Counted
    BY <1>1, <1>6, <1>8 DEF Counted, Counts
  <2> QED
    BY <1>1, <1>3, <1>4, <1>8, <2>1 DEF BoxesSure
<1>9. CASE ~k.ok
  <2>1. i \in Counted
    BY <1>1, <1>2, <1>9 DEF Counted, Counts, Undoes
  <2>2. Cardinality(Counted') = Cardinality(Counted) - 1
    BY <1>6, <1>7, <2>1, FS_RemoveElement
  <2>3. form'.of = form.of /\ form'.version = form.version - 1 /\ form'.roles = form.roles
        /\ (form'.answered <=> form.answered)
    BY <1>1, <1>3, <1>9 DEF Forms
  <2> QED
    BY <1>1, <1>4, <1>7, <2>2, <2>3 DEF BoxesSure
<1> QED
  BY <1>8, <1>9

LEMMA SettledStays ==
    ASSUME PanelInv, Ordered, DraftsOut, DraftsWere, NEW i \in Slots, Receive(i), Taken(i),
           ~Undoes(calls[i]), Settled
    PROVE  Doomed' \/ Settled'
<1> DEFINE k == calls[i]
<1>1. /\ UNCHANGED <<regVars, tab, member, events>> /\ i \in Given /\ k.stage = "answered"
      /\ tab \in {"roles", "members"} /\ Out' = Out \ {i} /\ Given' = Given \ {i} /\ Given \subseteq Out
  BY DEF Receive, PanelInv, TypeOK, Taken, Given
<1>2. drafts' \subseteq drafts
  BY DraftsGo
<1>3. ASSUME NEW j \in Given \ {i} PROVE Harmless(j)'
  <2>1. /\ (Loaded(calls[j])' <=> Loaded(calls[j])) /\ (Strays(calls[j])' <=> Strays(calls[j]))
        /\ calls'[j].q = calls[j].q /\ (calls'[j].ok <=> calls[j].ok)
    BY <1>1, TakenStays DEF Taken
  <2>2. Harmless(j)
    BY DEF Settled
  <2> QED
    BY <1>2, <2>1, <2>2 DEF Harmless, IsLoad
<1>4. CASE IsLoad(k)
  <2>1. ~Strays(k)
    BY <1>1 DEF Settled, Undoes, Strays
  <2>2. Loaded(k)
    BY <1>1, <1>4, <2>1 DEF Settled, Harmless
  <2> QED
    BY <1>3, <2>2, LoadSettles
<1>5. CASE ~IsLoad(k)
  <2>1. \A j \in Out' : Strays(calls[j])' => calls'[j].moved
    BY <1>1 DEF Settled, Strays, Taken
  <2>2. ASSUME NEW j \in Out, Rash(calls[j]) PROVE \E l \in Out' : Rash(calls[l])'
    <3>1. j \in Out \ {i}
      BY <1>1, <2>2 DEF Rash
    <3> QED
      BY <1>1, <1>5, <2>2, <3>1, SaveTaken
  <2>3. ASSUME Sure PROVE Sure'
    <3>1. Harmless(i)
      BY <1>1 DEF Settled
    <3> QED
      BY <1>1, <1>5, <2>3, <3>1, RowsStaySure, BoxesStaySure DEF Sure
  <2> QED
    BY <1>1, <1>3, <2>1, <2>2, <2>3 DEF Settled
<1> QED
  BY <1>4, <1>5

LEMMA ReceiveRests ==
    ASSUME PanelInv, Ordered, RestInv, NEW i \in Slots, Receive(i)
    PROVE  Ordered' /\ RestInv'
<1> DEFINE k == calls[i]
<1>1. /\ UNCHANGED <<regVars, tab, member, events, used>> /\ (blemish' <=> blemish \/ Undoes(k))
      /\ k # Absent /\ k.stage = "answered" /\ Arrived(i)
  BY DEF Receive
<1>2. Taken(i)
  BY <1>1, ArrivedTakes
<1>3. Ordered'
  BY <1>1, <1>2, TakenOrdered
<1>4. RestInv'
  <2> SUFFICES ASSUME ~Undoes(k), DraftsOut, DraftsWere, Follows
               PROVE  DraftsOut' /\ DraftsWere' /\ Follows'
    BY <1>1 DEF RestInv
  <2>1. DraftsOut' /\ DraftsWere'
    BY <1>2, DraftsGo
  <2>2. ASSUME Reloads PROVE Reloads'
    <3>1. ASSUME NEW j \in Out, IsLoad(calls[j]), ~Strays(calls[j]), calls[j].stage = "sent"
          PROVE  Reloads'
      BY <1>1, <1>2, <3>1 DEF Reloads, IsLoad, Strays, Taken
    <3> QED
      BY <1>1, <2>2, <3>1 DEF Reloads
  <2>3. ASSUME Doomed PROVE Doomed'
    <3>1. PICK j \in Given : Undoes(calls[j])
      BY <2>3 DEF Doomed
    <3>2. j \in Given \ {i}
      BY <3>1
    <3> QED
      BY <1>1, <1>2, <3>1, <3>2, TakenStays DEF Doomed
  <2> QED
    BY <1>2, <2>1, <2>2, <2>3, LandsStays, SettledStays DEF Follows
<1> QED
  BY <1>3, <1>4

-----------------------------------------------------------------------------

LEMMA RestsInit ==
    ASSUME Init
    PROVE  Ordered /\ RestInv
<1>1. PanelInv
  BY PanelInvInit
<1> DEFINE q == Load(member)
           k == Call(q, TRUE)
<1>2. /\ drafts = {} /\ tab \in {"roles", "members"} /\ member \in RegMembers
      /\ calls = [i \in Slots |-> IF i = 1 THEN k ELSE Absent]
  BY DEF Init, PanelInit
<1>3. 1 \in Slots
  BY BoundsAssumption
<1>4. calls[1] = k
  BY <1>2, <1>3
<1>5. k \in Calls
  <2>1. k # Absent => k \in Calls
    BY <1>1, <1>3, <1>4 DEF PanelInv, TypeOK
  <2>2. q \in Loads
    BY <1>2 DEF Load, Loads
  <2>3. /\ shown \in PanelLists /\ form \in Forms /\ drafts \in SUBSET Slots
        /\ NoRows \in PanelLists /\ NoForm \in Forms
    BY <1>1, NothingTrue DEF PanelInv, TypeOK
  <2> HIDE DEF q
  <2> QED
    BY <2>2, <2>3 DEF Call, Calls
<1>6. k # Absent /\ k.q = q /\ k.stage = "sent" /\ k.over = {}
  BY <1>5, AbsentAssumption DEF Call
<1>7. /\ tab = "roles" => q.op = "load"
      /\ tab = "members" => q.op = "loadMember" /\ q.member = member
  BY <1>2 DEF Load
<1> HIDE DEF k, q
<1>8. ~Strays(k)
  BY <1>2, <1>6, <1>7 DEF Strays
<1>9. Out = {1} /\ Given = {}
  BY <1>2, <1>3, <1>6 DEF Out, Given
<1>10. Ordered
  <2>1. CallsOf(k)
    BY <1>2, <1>6, <1>7 DEF CallsOf
  <2> QED
    BY <1>4, <1>6, <1>9, <2>1 DEF Ordered, OverKnown, OverTotal, AloneOnce
<1>11. Reloads
  BY <1>2, <1>4, <1>6, <1>7, <1>8, <1>9 DEF Reloads, IsLoad
<1>12. DraftsOut /\ DraftsWere
  BY <1>2, <1>4, <1>6, <1>7, <1>9 DEF DraftsOut, DraftsWere, IsLoad
<1> QED
  BY <1>10, <1>11, <1>12 DEF RestInv, Follows

LEMMA RestsNext ==
    ASSUME PanelInv, Ordered, RestInv, [Next]_vars
    PROVE  Ordered' /\ RestInv'
<1>1. CASE UNCHANGED vars
  <2>1. UNCHANGED <<regVars, tab, member, shown, drafts, form, calls, events, blemish>>
    BY <1>1 DEF vars, page
  <2>2. Out' = Out /\ Given' = Given
    BY <2>1 DEF Out, Given
  <2>3. RowsHere' = RowsHere /\ BoxesHere' = BoxesHere
    BY <2>1, HereStays
  <2>4. Ordered'
    BY <2>1, <2>2 DEF Ordered, CallsOf, OverKnown, OverTotal, AloneOnce, IsLoad
  <2>5. (DraftsOut => DraftsOut') /\ (DraftsWere => DraftsWere')
    BY <2>1, <2>2 DEF DraftsOut, DraftsWere, IsLoad
  <2>6. (Reloads => Reloads') /\ (Doomed => Doomed')
    BY <2>1, <2>2 DEF Reloads, Doomed, IsLoad, Strays, Undoes
  <2>7. Lands => Lands'
    BY <2>1, <2>2, <2>3 DEF Lands, Loaded, Follower, IsLoad, Strays
  <2>8. Sure => Sure'
    <3>1. Counted' = Counted
      BY <2>1, <2>2 DEF Counted, Counts
    <3>2. RowsSure => RowsSure'
      BY <2>1, <2>2, <2>3 DEF RowsSure, Pending, Restores
    <3>3. BoxesSure => BoxesSure'
      BY <2>1, <3>1 DEF BoxesSure, regVars
    <3> QED
      BY <2>1, <3>2, <3>3 DEF Sure
  <2>9. Settled => Settled'
    BY <2>1, <2>2, <2>3, <2>8 DEF Settled, Harmless, Loaded, IsLoad, Strays, Rash
  <2> QED
    BY <2>1, <2>4, <2>5, <2>6, <2>7, <2>9 DEF RestInv, Follows
<1>2. ASSUME NEW i \in Slots, Read(i) \/ Grant(i) \/ Same(i) \/ Refuse(i) \/ Receive(i)
      PROVE  Ordered' /\ RestInv'
  BY <1>2, ReadRests, GrantedTells, RefuseRests, ReceiveRests
<1>3. CASE Others \/ Users \/ Deliver
  BY <1>3, OthersRest, UsersRest, DeliverRests
<1> QED
  BY <1>1, <1>2, <1>3 DEF Next

LEMMA RestTrue ==
    ASSUME PanelInv, Ordered, RestInv
    PROVE  PanelTrue
<1> SUFFICES ASSUME Out = {}, events = 0, ~blemish
             PROVE  IF tab = "roles"
                    THEN /\ drafts = {}
                         /\ \A r \in RegRoleIds :
                              IF Exists(r)
                              THEN /\ shown[r] # Absent
                                   /\ shown[r].name = roles[r].name /\ shown[r].rank = roles[r].rank
                                   /\ shown[r].perm = effects[r] /\ shown[r].version = roles[r].version
                              ELSE shown[r] = Absent
                    ELSE /\ form.of = member /\ form.version = versions[member]
                         /\ form.answered => form.roles = assigned[member]
  BY DEF PanelTrue
<1>1. Given = {} /\ Counted = {}
  BY DEF Given, Counted
<1>2. Settled /\ DraftsOut
  BY <1>1 DEF RestInv, Follows, Reloads, Doomed, Lands
<1>3. Sure /\ drafts = {}
  BY <1>2 DEF Settled, DraftsOut
<1>4. CASE tab = "roles"
  <2>1. shown = RowsHere
    BY <1>3, <1>4 DEF Sure, RowsSure
  <2>2. ASSUME NEW r \in RegRoleIds, Exists(r)
        PROVE  /\ shown[r] # Absent
               /\ shown[r].name = roles[r].name /\ shown[r].rank = roles[r].rank
               /\ shown[r].perm = effects[r] /\ shown[r].version = roles[r].version
    <3> DEFINE row == [name |-> roles[r].name, rank |-> roles[r].rank, perm |-> effects[r],
                       version |-> roles[r].version, answered |-> TRUE]
    <3>1. shown[r] = row
      BY <2>1, <2>2 DEF RowsHere
    <3>2. roles[r] \in RegRows /\ effects[r] \in Tables
      BY <2>2 DEF PanelInv, RegTyped, Exists
    <3>3. row \in PanelRows
      BY <3>2 DEF RegRows, PanelRows
    <3>4. /\ row.name = roles[r].name /\ row.rank = roles[r].rank /\ row.perm = effects[r]
          /\ row.version = roles[r].version /\ row # Absent
      BY <3>3, AbsentAssumption
    <3> QED
      BY ONLY <3>1, <3>4
  <2>3. \A r \in RegRoleIds : ~Exists(r) => shown[r] = Absent
    BY <2>1 DEF RowsHere
  <2> QED
    BY <1>3, <1>4, <2>2, <2>3
<1>5. CASE tab # "roles"
  <2>1. versions[member] \in Nat
    BY DEF PanelInv, TypeOK, RegTyped
  <2>2. Cardinality(Counted) = 0
    BY <1>1, FS_EmptySet
  <2> QED
    BY <1>3, <1>5, <2>1, <2>2 DEF Sure, BoxesSure
<1> QED
  BY <1>4, <1>5

\* A panel at rest shows the registry, for any number of roles, members, calls in
\* flight and others' changes and any order of answers and events, unless one of
\* the losses that blemish records occurred.
THEOREM PanelCorrect == Spec => []PanelTrue
<1>1. Init => PanelInv /\ Ordered /\ RestInv
  BY PanelInvInit, RestsInit
<1>2. PanelInv /\ Ordered /\ RestInv /\ [Next]_vars => (PanelInv /\ Ordered /\ RestInv)'
  BY PanelInvNext, RestsNext
<1>3. PanelInv /\ Ordered /\ RestInv => PanelTrue
  BY RestTrue
<1> QED
  BY <1>1, <1>2, <1>3, PTL DEF Spec
=============================================================================
