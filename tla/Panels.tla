-------------------------------- MODULE Panels --------------------------------
(* The role and member panels of the example's web client                      *)
(* (apps/web/src/components/RolesPanel.tsx, MembersPanel.tsx) over the         *)
(* registry that IamService implements.  A panel shows a save before it is     *)
(* answered, counts the version up itself and puts the old row back when the   *)
(* save is refused; other clients change the registry meanwhile, and each      *)
(* change makes the panel load again.  Answers arrive in any order.  A load    *)
(* is one step here; that memberRoles reads in two is part of IamService.      *)
EXTENDS RoleRegistry

CONSTANTS
    Slots,              \* bound: the calls that the panel has out, 1 .. n
    FormTables,         \* tables that the user chooses
    OtherTables,        \* bound: tables that others choose
    MaxSaves, MaxOthers \* bounds: the user's saves and the others' changes

\* The panel's controls have none for "*".
ASSUME TablesAssumption ==
    /\ FormTables \subseteq {t \in Tables : t[Star] = "NONE"}
    /\ OtherTables \subseteq Tables
ASSUME BoundsAssumption ==
    /\ Slots = 1 .. Cardinality(Slots) /\ Cardinality(Slots) \in Nat \ {0}
    /\ MaxSaves \in Nat /\ MaxOthers \in Nat

VARIABLES
    tab,        \* the panel that is open, "roles" or "members"
    shown,      \* the rows of the role panel
    drafts,     \* the slots of creations that are shown before they are answered
    member,     \* the member selected in the member panel
    form,       \* its boxes and version
    calls,
    events,     \* how many updates the stream has still to deliver
    blemish,    \* why the panel may be wrong, see PanelTrue
    used        \* how often each bounded action was taken

page == <<shown, drafts, form>>
vars == <<regVars, tab, page, member, calls, events, blemish, used>>

\* A row as the panel holds it.  answered: it is what the server answered, not
\* what the panel expects.
PanelRows == [name : RegNames, rank : RegRanks, perm : Tables, version : Nat, answered : BOOLEAN]
PanelLists == [RegRoleIds -> PanelRows \cup {Absent}]

\* of: the member whose roles were answered last.
Forms == [of : RegMembers \cup {Absent}, roles : SUBSET RegRoleIds, version : Int, answered : BOOLEAN]

RoleSaves ==
    [op : {"create"}, name : RegNames, rank : RegRanks]
      \cup [op : {"update"}, role : RegRoleIds, name : RegNames, rank : RegRanks, expected : Nat]
      \cup [op : {"setPerms"}, role : RegRoleIds, perm : FormTables, expected : Nat]
      \cup [op : {"delete"}, role : RegRoleIds, expected : Nat]
MemberSaves == [op : {"setMember"}, member : RegMembers, roles : SUBSET RegRoleIds, expected : Int]
Loads == [op : {"load"}] \cup [op : {"loadMember"}, member : RegMembers]

\* rows, drafts and boxes: what the panel held when the call was made.  list and
\* answer: what the server told.  over: the loads that were answered earlier and
\* had not arrived.  late: a load answered after this call arrived before it.
\* moved: the panel took a load since the call was made.  alone: no save was out.
Calls == [q : RoleSaves \cup MemberSaves \cup Loads,
          rows : PanelLists, drafts : SUBSET Slots, boxes : Forms,
          stage : {"sent", "answered"}, ok : BOOLEAN, list : PanelLists, answer : Forms,
          over : SUBSET Slots, late : BOOLEAN, moved : BOOLEAN, alone : BOOLEAN]

ASSUME AbsentAssumption == Absent \notin RegRows /\ Absent \notin PanelRows /\ Absent \notin Calls

TypeOK ==
    /\ tab \in {"roles", "members"}
    /\ shown \in PanelLists /\ drafts \subseteq Slots
    /\ member \in RegMembers /\ form \in Forms
    /\ calls \in [Slots -> Calls \cup {Absent}]
    /\ events \in Nat /\ blemish \in BOOLEAN
    /\ used \in [saves : Nat, others : Nat]
    /\ WellFormed

NoRows == [r \in RegRoleIds |-> Absent]
NoForm == [of |-> Absent, roles |-> {}, version |-> 0, answered |-> FALSE]

Out == {i \in Slots : calls[i] # Absent}
Vacant == Slots \ Out
First == CHOOSE i \in Vacant : \A j \in Vacant : i <= j

IsLoad(k) == k.q.op \in {"load", "loadMember"}

Call(q, alone) ==
    [q |-> q, rows |-> shown, drafts |-> drafts, boxes |-> form, stage |-> "sent", ok |-> FALSE,
     list |-> NoRows, answer |-> NoForm, over |-> {}, late |-> FALSE, moved |-> FALSE,
     alone |-> alone]
Load(m) == IF tab = "roles" THEN [op |-> "load"] ELSE [op |-> "loadMember", member |-> m]

Send(q) ==
    /\ Vacant # {}
    /\ calls' = [calls EXCEPT ![First] = Call(q, \A j \in Out : IsLoad(calls[j]))]

\* The panel opens and loads.
PanelInit ==
    /\ tab \in {"roles", "members"}
    /\ shown = NoRows /\ drafts = {}
    /\ member \in RegMembers /\ form = NoForm
    /\ calls = [i \in Slots |-> IF i = 1 THEN Call(Load(member), TRUE) ELSE Absent]
    /\ events = 0 /\ blemish = FALSE
    /\ used = [saves |-> 0, others |-> 0]

-----------------------------------------------------------------------------
(* The server: each call is one operation of the registry.                     *)

RowOf(r) == [name |-> roles'[r].name, rank |-> roles'[r].rank, perm |-> effects'[r],
             version |-> roles'[r].version, answered |-> TRUE]
RowsNow(rs) == [r \in RegRoleIds |-> IF r \in rs /\ roles'[r] # Absent THEN RowOf(r) ELSE Absent]
FormNow(m) == [of |-> m, roles |-> assigned'[m], version |-> versions'[m], answered |-> TRUE]

Reply(i, ok, list, answer) ==
    calls' = [calls EXCEPT ![i] =
        [@ EXCEPT !.stage = "answered", !.ok = ok, !.list = list, !.answer = answer,
                  !.over = IF IsLoad(calls[i]) THEN {j \in Out : calls[j].stage = "answered"} ELSE {}]]

\* A request reaches the server.
Serve(i) ==
    /\ calls[i] # Absent /\ calls[i].stage = "sent"
    /\ UNCHANGED <<tab, page, member, blemish, used>>

Read(i) ==
    LET q == calls[i].q
    IN  /\ Serve(i) /\ IsLoad(calls[i])
        /\ UNCHANGED <<regVars, events>>
        /\ IF q.op = "load" THEN Reply(i, TRUE, RowsNow(RegRoleIds), NoForm)
           ELSE Reply(i, TRUE, NoRows, FormNow(q.member))

\* Mutant of Current: the version is not compared.
AnyVersion(version, expected) == version \in Int /\ expected \in Int

Current(version, expected) == version = expected

Made(i, r) == Reply(i, TRUE, RowsNow({r}), NoForm)

\* A save that the registry takes; its event is published before the answer.
Grant(i) ==
    LET q == calls[i].q
        current == q.role \in RegRoleIds /\ Exists(q.role) /\ Current(roles[q.role].version, q.expected)
    IN  /\ Serve(i)
        /\ \/ /\ q.op = "create"
              /\ \E r \in RegRoleIds, org \in RegOrgs : CreateRole(r, org, q.name, q.rank) /\ Made(i, r)
           \/ q.op = "update" /\ current /\ UpdateRole(q.role, q.name, q.rank) /\ Made(i, q.role)
           \/ q.op = "setPerms" /\ current /\ SetRolePermissions(q.role, q.perm) /\ Made(i, q.role)
           \/ q.op = "delete" /\ current /\ DeleteRole(q.role) /\ Reply(i, TRUE, NoRows, NoForm)
           \/ /\ q.op = "setMember" /\ q.roles # assigned[q.member]
              /\ Current(versions[q.member], q.expected)
              /\ SetMemberRoles(q.member, q.roles) /\ Reply(i, TRUE, NoRows, NoForm)
        /\ events' = events + 1

\* A save that changes nothing is granted before its version is compared.
Same(i) ==
    LET q == calls[i].q
    IN  /\ Serve(i)
        /\ UNCHANGED regVars
        /\ \/ /\ q.op = "setPerms" /\ Exists(q.role) /\ ~roles[q.role].prot
              /\ q.perm = effects[q.role] /\ Made(i, q.role)
           \/ q.op = "setMember" /\ q.roles = assigned[q.member] /\ Reply(i, TRUE, NoRows, NoForm)
        /\ events' = events + 1

\* A save is refused: its version or name, the user's rank, a deadlock.
Refuse(i) ==
    /\ Serve(i) /\ ~IsLoad(calls[i])
    /\ Reply(i, FALSE, NoRows, NoForm)
    /\ events' \in {events, events + 1}
    /\ UNCHANGED regVars

Others ==
    /\ used.others < MaxOthers
    /\ used' = [used EXCEPT !.others = @ + 1]
    /\ Change
    /\ \A r \in RegRoleIds : effects'[r] \in OtherTables \cup {effects[r], NoEffects}
    /\ events' = events + 1
    /\ UNCHANGED <<tab, page, member, calls, blemish>>

-----------------------------------------------------------------------------
(* The panels. *)

\* The user, who does nothing while an answer would have no slot.
User(t) ==
    /\ tab = t /\ used.saves < MaxSaves
    /\ used' = [used EXCEPT !.saves = @ + 1]
    /\ UNCHANGED <<regVars, tab, events, blemish>>

\* A new role is shown at once, under an id of its own.
Create(name, rank) ==
    /\ User("roles")
    /\ Send([op |-> "create", name |-> name, rank |-> rank])
    /\ drafts' = drafts \cup {First}
    /\ UNCHANGED <<shown, member, form>>

\* The selected role is shown as it is expected to become.
Expecting(r, row) ==
    /\ User("roles") /\ shown[r] # Absent
    /\ shown' = [shown EXCEPT ![r] = row]
    /\ UNCHANGED <<drafts, member, form>>

Expected(row) == [row EXCEPT !.version = @ + 1, !.answered = FALSE]

Update(r, name, rank) ==
    /\ Expecting(r, [Expected(shown[r]) EXCEPT !.name = name, !.rank = rank])
    /\ Send([op |-> "update", role |-> r, name |-> name, rank |-> rank, expected |-> shown[r].version])

SaveEffects(r, t) ==
    /\ Expecting(r, [Expected(shown[r]) EXCEPT !.perm = t])
    /\ Send([op |-> "setPerms", role |-> r, perm |-> t, expected |-> shown[r].version])

Remove(r) ==
    /\ Expecting(r, Absent)
    /\ Send([op |-> "delete", role |-> r, expected |-> shown[r].version])

\* Another member is selected: its roles are loaded, and the boxes stay until
\* they come.
Select(m) ==
    /\ User("members") /\ m # member
    /\ member' = m
    /\ Send([op |-> "loadMember", member |-> m])
    /\ UNCHANGED page

Save(rs) ==
    /\ User("members")
    /\ form' = [form EXCEPT !.roles = rs, !.version = @ + 1, !.answered = FALSE]
    /\ Send([op |-> "setMember", member |-> member, roles |-> rs, expected |-> form.version])
    /\ UNCHANGED <<shown, drafts, member>>

\* An event of the stream makes the panel load.
Deliver ==
    /\ events > 0 /\ events' = events - 1
    /\ Send(Load(member))
    /\ UNCHANGED <<regVars, tab, page, member, blemish, used>>

\* The slot is free, and the calls that a load overtook are marked.
Arrived(i) ==
    LET load == IsLoad(calls[i])
    IN  calls' = [j \in Slots |->
          IF j = i \/ calls[j] = Absent THEN Absent
          ELSE [calls[j] EXCEPT !.over = @ \ {i}, !.moved = @ \/ load,
                                !.late = @ \/ (load /\ j \in calls[i].over)]]

\* Mutant of Restored: a refused save stays in the list.
Kept(k) == shown

\* The row as it was at the click; a deletion puts back the whole list.
Restored(k) ==
    IF k.q.op = "delete" THEN k.rows
    ELSE [shown EXCEPT ![k.q.role] = IF @ = Absent THEN Absent ELSE k.rows[k.q.role]]

\* An answered row takes the place of the row that is shown.
Answered(k, r) == IF shown[r] # Absent /\ k.list[r] # Absent THEN k.list[r] ELSE shown[r]

ReceiveLoad(k) ==
    /\ IF k.q.op = "load" THEN shown' = k.list /\ drafts' = {} /\ UNCHANGED form
       ELSE form' = k.answer /\ UNCHANGED <<shown, drafts>>

ReceiveCreate(k, i) ==
    /\ shown' = IF k.ok /\ i \in drafts
                THEN [r \in RegRoleIds |-> IF k.list[r] # Absent THEN k.list[r] ELSE shown[r]] ELSE shown
    /\ drafts' = drafts \ {i}
    /\ UNCHANGED form

ReceiveChange(k) ==
    /\ shown' = IF k.ok THEN [r \in RegRoleIds |-> Answered(k, r)] ELSE Restored(k)
    /\ drafts' = IF ~k.ok /\ k.q.op = "delete" THEN k.drafts ELSE drafts
    /\ UNCHANGED form

ReceiveMember(k) ==
    /\ form' = IF k.ok THEN form ELSE [form EXCEPT !.version = @ - 1]
    /\ UNCHANGED <<shown, drafts>>

\* The answer replaces what a load brought that was answered later or came
\* since, is another member's, or puts back rows that the panel only expected.
Undoes(k) ==
    \/ k.q.op = "loadMember" /\ k.q.member # member /\ k.moved
    \/ k.ok /\ k.late /\ k.q.op \in {"load", "loadMember", "update", "setPerms"}
    \/ ~k.ok /\ k.q.op # "create" /\ (k.moved \/ (k.q.op # "setMember" /\ ~k.alone))

Receive(i) ==
    LET k == calls[i]
    IN  /\ k # Absent /\ k.stage = "answered"
        /\ \/ IsLoad(k) /\ ReceiveLoad(k)
           \/ k.q.op = "create" /\ ReceiveCreate(k, i)
           \/ k.q.op \in {"update", "setPerms", "delete"} /\ ReceiveChange(k)
           \/ k.q.op = "setMember" /\ ReceiveMember(k)
        /\ Arrived(i)
        /\ blemish' = (blemish \/ Undoes(k))
        /\ UNCHANGED <<regVars, tab, member, events, used>>

-----------------------------------------------------------------------------

Users ==
    \/ \E name \in RegNames, rank \in RegRanks :
         Create(name, rank) \/ \E r \in RegRoleIds : Update(r, name, rank)
    \/ \E r \in RegRoleIds : Remove(r) \/ \E t \in FormTables : SaveEffects(r, t)
    \/ \E m \in RegMembers : Select(m)
    \/ \E rs \in SUBSET RegRoleIds : Save(rs)

Next ==
    \/ \E i \in Slots : Read(i) \/ Grant(i) \/ Same(i) \/ Refuse(i) \/ Receive(i)
    \/ Others \/ Users \/ Deliver

Init == RegInit /\ PanelInit

Spec == Init /\ [][Next]_vars

-----------------------------------------------------------------------------

Granted(i, op) ==
    /\ calls[i] # Absent /\ calls[i].q.op = op
    /\ calls[i].stage = "sent" /\ calls'[i].stage = "answered" /\ calls'[i].ok
    /\ <<roles, versions>>' # <<roles, versions>>

\* A role save that the registry takes replaces what the user saw: where the row
\* was one that the server had answered, the role is still exactly that row,
\* whatever others saved meanwhile and however answers overtook each other.  A
\* row that the panel only expects may be wrong: a second save then replaces a
\* change of others that came where the first was refused.
SavesSeen ==
    [][\A i \in Slots : \A op \in {"update", "setPerms", "delete"} :
         Granted(i, op) =>
             LET r == calls[i].q.role
                 row == calls[i].rows[r]
             IN  row.answered => row = [name |-> roles[r].name, rank |-> roles[r].rank,
                                        perm |-> effects[r], version |-> roles[r].version,
                                        answered |-> TRUE]]_vars

\* A save of a member's roles that is taken replaces the roles that the panel
\* had loaded for that member, less those that were deleted.  The boxes may be
\* another member's where its answer came after the selection, and the version
\* alone does not tell members apart: that case is excepted, as are boxes that
\* the panel only expects.
MemberSavesSeen ==
    [][\A i \in Slots :
         Granted(i, "setMember") =>
             LET boxes == calls[i].boxes
                 m == calls[i].q.member
             IN  boxes.of = m /\ boxes.answered => assigned[m] = {r \in boxes.roles : Exists(r)}]_vars

\* A panel at rest shows the registry, whoever changed it and in whatever order
\* answers and events met, unless an answer was overtaken by that of a later
\* load or came for a member that was no longer selected, or a refusal put back
\* the row, the list or the version over a load that came since the click, or
\* put back rows that were shown for an earlier save that was still out at the
\* click and may have been refused: nothing loads again then.
PanelTrue ==
    Out = {} /\ events = 0 /\ ~blemish =>
        IF tab = "roles"
        THEN /\ drafts = {}
             /\ \A r \in RegRoleIds :
                  IF Exists(r)
                  THEN /\ shown[r] # Absent
                       /\ shown[r].name = roles[r].name /\ shown[r].rank = roles[r].rank
                       /\ shown[r].perm = effects[r] /\ shown[r].version = roles[r].version
                  ELSE shown[r] = Absent
        ELSE /\ form.of = member /\ form.version = versions[member]
             /\ form.answered => form.roles = assigned[member]
=============================================================================
