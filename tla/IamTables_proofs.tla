--------------------------- MODULE IamTables_proofs ---------------------------
(* What the committed tables keep true of each other, for every number of      *)
(* requests, members and roles, either isolation level and whatever versions   *)
(* the clients expect.                                                         *)
(*                                                                             *)
(* Assignments name live roles of the member's organization.  setMemberRoles   *)
(* checks the roles in statements that end long before its inserts.  A role    *)
(* that passed the check is live in the organization or has been deleted since *)
(* (the first part of AssignOK); the insert, which needs each role and waits   *)
(* for who deletes it, leaves the live ones only; and from then on the         *)
(* reference keeps deleteRole's compare-and-set waiting.                       *)
(*                                                                             *)
(* The audit log numbers the versions of every role and member: an event says  *)
(* from the version expected to the one after the row's, which are neighbours  *)
(* because past its compare-and-set the transaction holds the row at the       *)
(* expected version.                                                           *)
(*                                                                             *)
(* Last, what one transaction at a time adds, as on the SQLite connection      *)
(* (Isolation = "serial"): the sessions stay fresh, no actor lifts anyone to   *)
(* its own rank, and a save replaces just what its client was shown.  While a  *)
(* request is in flight no other step is taken, so what it checked (RolesOK,   *)
(* RowOK) and whom it listed (Listed) still hold when it commits.  What a      *)
(* client was shown outlives its request: ViewsOK relates it to the committed  *)
(* version for as long as the client keeps it.                                 *)
EXTENDS IamService_proofs

-----------------------------------------------------------------------------
(* Assignments. *)

Checked(p) == \A r \in req[p].roles : Retired(r) \/ r \in RolesIn(req[p].actor.org)
Referenced(p) == \A r \in req[p].roles : Live(r) /\ \A o \in Procs : ~Deletes(o, r)

\* What the statements of setMemberRoles have established.
AssignOK ==
    \A p \in Procs : pc[p] # "idle" /\ req[p].op = "setMember" =>
        /\ pc[p] \in {"assigned", "cas", "clear", "assign", "invalidate", "commit"} => Checked(p)
        /\ pc[p] \in {"cas", "clear", "assign", "invalidate", "commit"} =>
             OrgOf[req[p].member] = req[p].actor.org
        /\ pc[p] \in {"invalidate", "commit"} => Referenced(p)

AssignInv == TypeInv /\ AssignOK /\ AssignmentsLive

-----------------------------------------------------------------------------

LEMMA InitAssign == Init => AssignInv
<1> SUFFICES ASSUME Init PROVE AssignInv
  OBVIOUS
<1>1. AssignOK
  BY DEF Init, AssignOK
<1>2. AssignmentsLive
  BY SeedAssumption DEF Init, AssignmentsLive, RolesIn, Live
<1> QED
  BY <1>1, <1>2, InitInv DEF AssignInv

\* A request that begins has established nothing yet.
LEMMA BeginAssign ==
    ASSUME AssignInv, NEW p \in Procs, Begin(p)
    PROVE  AssignInv'
<1> USE DEF AssignInv, TypeInv
<1>1. TypeInv'
  BY BeginInv
<1>2. PICK q \in Requests : req' = [req EXCEPT ![p] = q]
  BY AskedAssumption DEF Begin
<1>3. pc[p] = "idle" /\ pc' = [pc EXCEPT ![p] = "boundary"] /\ UNCHANGED tables
  BY DEF Begin
<1>4. /\ pc'[p] = "boundary"
      /\ \A o \in Procs \ {p} : pc'[o] = pc[o] /\ req'[o] = req[o]
  BY <1>2, <1>3 DEF TypeOK, RequestsTyped
<1>5. UNCHANGED <<role, assign, audit>>
  BY <1>3 DEF tables
<1>6. \A o \in Procs : \A r : Deletes(o, r)' => Deletes(o, r)
  BY <1>4 DEF Deletes, HoldsRole, Wrote
<1>7. AssignOK'
  BY <1>4, <1>5, <1>6 DEF AssignOK, Checked, Referenced, Retired, Live, RolesIn
<1>8. AssignmentsLive'
  BY <1>5 DEF AssignmentsLive, RolesIn, Live
<1> QED
  BY <1>1, <1>7, <1>8

-----------------------------------------------------------------------------
(* The statements before the commit. *)

\* The path of setMemberRoles, and what each statement on it finds.
LEMMA MemberPath ==
    ASSUME TypeOK, NEW p \in Procs, Reads(p) \/ Locks(p) \/ Abort(p), ~Answer(p),
           req[p].op = "setMember"
    PROVE  \/ pc'[p] = "roles"
           \/ pc'[p] = "assigned" /\ \A r \in req[p].roles : r \in RolesIn(req[p].actor.org)
           \/ pc[p] = "assigned" /\ pc'[p] = "cas" /\ InOrg(req[p])
           \/ pc[p] = "cas" /\ pc'[p] = "clear" /\ MemberFits(req[p]) /\ Unlocked(p)
           \/ pc[p] = "clear" /\ pc'[p] = "assign"
           \/ /\ pc[p] = "assign" /\ pc'[p] \in {"invalidate", "commit"}
              /\ RolesExist(req[p]) /\ Unlocked(p)
           \/ pc[p] = "invalidate" /\ pc'[p] \in {"invalidate", "commit"}
<1> USE DEF TypeOK, RequestsTyped, Goto
<1>1. CASE ReadBoundary(p)
  BY <1>1 DEF ReadBoundary, Reject, First
<1>2. CASE ReadTarget(p) \/ ReadCurrent(p) \/ Search(p) \/ Reserve(p) \/ ReadBefore(p)
  BY <1>2 DEF ReadTarget, ReadCurrent, Search, Reserve, ReadBefore, Reject, FlowOK, OpsAt, RoleOps
<1>3. CASE ReadRoles(p)
  BY <1>3 DEF ReadRoles, RolesAllowed, Reject
<1>4. CASE ReadAssigned(p)
  BY <1>4 DEF ReadAssigned, Reject
<1>5. CASE ReadVersion(p) \/ Abort(p)
  BY <1>5 DEF ReadVersion, Abort
<1>6. CASE ListMembers(p) \/ Cascade(p)
  BY <1>6 DEF ListMembers, Cascade, FlowOK, OpsAt
<1>7. CASE CasRole(p)
  BY <1>7 DEF CasRole, Reject, RoleOps
<1>8. CASE CasMember(p) \/ ClearRoles(p)
  BY <1>8 DEF CasMember, ClearRoles, Reject
<1>9. CASE AssignRoles(p)
  <2>1. /\ pc[p] = "assign" /\ RolesExist(req[p]) /\ Unlocked(p)
        /\ SignOut(p, {req[p].member})
    BY <1>9 DEF AssignRoles, Reject
  <2> QED
    BY <2>1, SignOutGoes
<1>10. CASE Invalidate(p)
  BY <1>10 DEF Invalidate
<1> QED
  BY <1>1, <1>2, <1>3, <1>4, <1>5, <1>6, <1>7, <1>8, <1>9, <1>10 DEF Reads, Locks

\* deleteRole takes its role by a compare-and-set that waits for references.
LEMMA DeletePath ==
    ASSUME TypeOK, NEW p \in Procs, Reads(p) \/ Locks(p) \/ Abort(p),
           NEW o \in Procs, NEW r, Deletes(o, r)', ~Deletes(o, r)
    PROVE  \A u \in Others(o) : pc'[u] = pc[u] /\ req'[u] = req[u] /\ ~References(u, r)
<1>1. Answer(p) \/ (req' = req /\ \E label : Goto(p, label))
  BY QuietSteps
<1>2. \A u \in Procs \ {p} : pc'[u] = pc[u] /\ req'[u] = req[u]
  BY <1>1 DEF Answer, Goto, TypeOK, RequestsTyped
<1>3. o = p
  BY <1>2 DEF Deletes, HoldsRole, Wrote
<1>4. ~Answer(p)
  BY <1>3 DEF Deletes, HoldsRole, Wrote, Answer, Goto, TypeOK, RequestsTyped
<1>5. RowHeld(p)' /\ req'[p] = req[p] /\ req[p].op = "delete" /\ req[p].role = r
  BY <1>1, <1>3, <1>4 DEF Deletes, HoldsRole, RowHeld
<1>6. ~RowHeld(p)
  BY <1>3, <1>5 DEF Deletes, HoldsRole, RowHeld
<1>7. CasRole(p)
  BY <1>4, <1>5, <1>6, QuietHolds
<1>8. \A u \in Others(p) : ~References(u, r)
  BY <1>5, <1>7 DEF CasRole, Unlocked, Waits
<1> QED
  BY <1>2, <1>3, <1>8 DEF Others

LEMMA QuietAssign ==
    ASSUME AssignInv, NEW p \in Procs, Reads(p) \/ Locks(p) \/ Abort(p)
    PROVE  AssignInv'
<1> USE DEF AssignInv, TypeInv
<1>1. TypeInv'
  BY QuietInv
<1>2. /\ UNCHANGED <<role, assign, audit>> /\ pc[p] # "idle"
      /\ Answer(p) \/ (req' = req /\ \E label : Goto(p, label))
  BY QuietSteps DEF tables
<1>3. \A o \in Procs \ {p} : pc'[o] = pc[o] /\ req'[o] = req[o]
  BY <1>2 DEF Answer, Goto, TypeOK, RequestsTyped
<1>4. AssignmentsLive'
  BY <1>2 DEF AssignmentsLive, RolesIn, Live
<1>5. \A r : (Retired(r)' <=> Retired(r)) /\ (Live(r)' <=> Live(r))
  BY <1>2 DEF Retired, Live
<1>6. \A org : RolesIn(org)' = RolesIn(org)
  BY <1>2 DEF RolesIn, Live
<1>7. ASSUME NEW o \in Procs, pc'[o] # "idle", req'[o].op = "setMember"
      PROVE  /\ req'[o] = req[o] /\ pc[o] # "idle"
             /\ pc'[o] \in {"assigned", "cas", "clear", "assign", "invalidate", "commit"} => Checked(o)
             /\ pc'[o] \in {"cas", "clear", "assign", "invalidate", "commit"} =>
                  OrgOf[req[o].member] = req[o].actor.org
             /\ pc'[o] \in {"invalidate", "commit"} =>
                  \A r \in req[o].roles : Live(r) /\ \A u \in Procs : ~Deletes(u, r)
             /\ pc[o] \notin {"invalidate", "commit"} => o = p \/ pc'[o] = pc[o]
  <2>1. CASE o # p
    BY <1>3, <1>7, <2>1 DEF AssignOK, Referenced
  <2>2. CASE o = p
    <3>1. ~Answer(p) /\ req'[p] = req[p]
      BY <1>2, <1>7, <2>2 DEF Answer, Goto, TypeOK, RequestsTyped
    <3>2. pc'[p] \in {"assigned", "cas", "clear", "assign", "invalidate", "commit"} => Checked(p)
      BY <1>2, <1>7, <2>2, <3>1, MemberPath DEF AssignOK, Checked
    <3>3. pc'[p] \in {"cas", "clear", "assign", "invalidate", "commit"} =>
            OrgOf[req[p].member] = req[p].actor.org
      BY <1>2, <1>7, <2>2, <3>1, MemberPath DEF AssignOK, InOrg
    <3>4. ASSUME pc'[p] \in {"invalidate", "commit"}, NEW r \in req[p].roles
          PROVE  Live(r) /\ \A u \in Procs : ~Deletes(u, r)
      <4>1. CASE pc[p] = "assign"
        <5>1. RolesExist(req[p]) /\ Unlocked(p)
          BY <1>7, <2>2, <3>1, <3>4, <4>1, MemberPath
        <5>2. \A u \in Others(p) : ~Deletes(u, r)
          BY <3>4, <4>1, <5>1 DEF Unlocked, Waits
        <5>3. ~Deletes(p, r)
          BY <1>7, <2>2, <3>1 DEF Deletes
        <5> QED
          BY <3>4, <5>1, <5>2, <5>3 DEF RolesExist, Others
      <4>2. CASE pc[p] = "invalidate"
        BY <1>7, <2>2, <3>1, <3>4, <4>2 DEF AssignOK, Referenced
      <4> QED
        BY <1>7, <2>2, <3>1, <3>4, <4>1, <4>2, MemberPath
    <3> QED
      BY <1>2, <2>2, <3>1, <3>2, <3>3, <3>4
  <2> QED
    BY <2>1, <2>2
<1>8. ASSUME NEW o \in Procs, pc'[o] \in {"invalidate", "commit"}, req'[o].op = "setMember"
      PROVE  Referenced(o)'
  <2>1. SUFFICES ASSUME NEW r \in req[o].roles, NEW u \in Procs, Deletes(u, r)' PROVE FALSE
    BY <1>5, <1>7, <1>8 DEF Referenced
  <2>2. ~Deletes(u, r)
    BY <1>7, <1>8, <2>1
  <2>3. \A w \in Others(u) : pc'[w] = pc[w] /\ req'[w] = req[w] /\ ~References(w, r)
    BY <2>1, <2>2, DeletePath
  <2>4. o \in Others(u)
    BY <1>8, <2>1 DEF Deletes, Others
  <2> QED
    BY <1>7, <1>8, <2>1, <2>3, <2>4 DEF References
<1>9. AssignOK'
  BY <1>5, <1>6, <1>7, <1>8 DEF AssignOK, Checked
<1> QED
  BY <1>1, <1>4, <1>9

-----------------------------------------------------------------------------
(* The commits. *)

\* A commit keeps the organization of a role, so a role that was checked stays
\* in its organization or is deleted for good.
LEMMA CommitChecked ==
    ASSUME TypeInv, NEW p \in Procs, Commits(p), NEW r \in RoleIds, NEW org,
           Retired(r) \/ r \in RolesIn(org)
    PROVE  Retired(r)' \/ r \in RolesIn(org)'
<1> USE DEF TypeInv, TypeOK, TablesTyped
<1>0. /\ req[p].op \in RoleOps \cup {"create", "setMember"}
      /\ req[p].op = "setMember" \/ r # req[p].role => role'[r] = role[r]
      /\ Retired(r) => Retired(r)'
      /\ req[p].op = "delete" /\ r = req[p].role => Retired(r)'
      /\ pc[p] = "commit"
  BY CommitShape
<1>1. CASE Retired(r) \/ req[p].op \in {"setMember", "delete"} \/ r # req[p].role
  BY <1>0, <1>1 DEF RolesIn, Live
<1>2. CASE ~Retired(r) /\ Live(r) /\ role[r].org = org /\ r = req[p].role
           /\ req[p].op \in {"create", "update", "setPerms"}
  <2>1. TypeOK'
    BY CommitInv
  <2>2. req[p].op # "create"
    BY <1>0, <1>2 DEF FreshOK, Creating
  <2>3. CASE CommitUpdate(p)
    <3>1. role' = Updated(role, r, req[p].name, req[p].rank)
      BY <1>2, <2>3 DEF CommitUpdate, Updated
    <3>2. req[p].name \in Names /\ req[p].rank \in Ranks
      BY <2>3, CommitShape, RequestFields DEF CommitUpdate
    <3>3. role[r] \in RoleRows
      BY <1>2 DEF Live
    <3>4. role'[r] \in RoleRows /\ role'[r].org = role[r].org
      BY <3>1, <3>2, <3>3, RowUpdated
    <3> QED
      BY <1>2, <3>4, NilAssumption DEF RolesIn, Live
  <2>4. CASE CommitPerms(p)
    <3>1. role' = [role EXCEPT ![r].version = @ + 1] /\ role[r] \in RoleRows
      BY <1>2, <2>4 DEF CommitPerms, Live
    <3>2. role'[r] \in RoleRows /\ role'[r].org = role[r].org
      BY <3>1 DEF RoleRows
    <3> QED
      BY <1>2, <3>2, NilAssumption DEF RolesIn, Live
  <2> QED
    BY <1>2, <2>2, <2>3, <2>4 DEF Commits, CommitCreate, CommitDelete, CommitMember
<1> QED
  BY <1>0, <1>1, <1>2 DEF RolesIn, RoleOps

\* deleteRole commits only a role that nobody references, so what is live for
\* another request stays so.
LEMMA CommitReferenced ==
    ASSUME AssignInv, NEW p \in Procs, Commits(p), NEW o \in Procs \ {p},
           pc[o] \in {"invalidate", "commit"}, req[o].op = "setMember"
    PROVE  Referenced(o)'
<1> USE DEF AssignInv, TypeInv
<1>1. Answer(p) /\ pc[p] = "commit" /\ \A u \in Procs \ {p} : pc'[u] = pc[u] /\ req'[u] = req[u]
  BY CommitShape DEF Answer, Goto, TypeOK, RequestsTyped
<1>2. pc'[p] = "idle"
  BY <1>1 DEF Answer, Goto, TypeOK, RequestsTyped
<1>3. SUFFICES ASSUME NEW r \in req[o].roles
               PROVE  Live(r)' /\ \A u \in Procs : ~Deletes(u, r)'
  BY <1>1 DEF Referenced, Deletes, HoldsRole, Wrote, Live
<1>4. r \in RoleIds
  <2>1. req[o] \in Requests
    BY DEF TypeOK, FlowOK, RequestsTyped
  <2> QED
    BY <1>3, <2>1, RequestFields
<1>5. Live(r) /\ \A u \in Procs : ~Deletes(u, r)
  BY <1>3 DEF AssignOK, Referenced
<1>6. \A u \in Procs : ~Deletes(u, r)'
  BY <1>1, <1>2, <1>5 DEF Deletes, HoldsRole, Wrote
<1>7. ~Retired(r)
  BY <1>4, <1>5 DEF FreshOK
<1>8. ~(req[p].op = "delete" /\ req[p].role = r)
  BY <1>1, <1>5 DEF Deletes, HoldsRole, Wrote, RoleOps
<1>9. ~Retired(r)'
  BY <1>4, <1>7, <1>8, CommitShape
<1>10. Live(r)'
  <2>1. PICK org : org = role[r].org
    OBVIOUS
  <2>2. r \in RolesIn(org)
    BY <1>4, <1>5, <2>1 DEF RolesIn
  <2> QED
    BY <1>4, <1>9, <2>2, CommitChecked DEF RolesIn, Live
<1> QED
  BY <1>6, <1>10

\* The assignments after a commit: deleteRole's cascade takes its role out of
\* all, setMemberRoles writes roles that are all live.
LEMMA CommitAssigned ==
    ASSUME AssignInv, NEW p \in Procs, Commits(p), NEW m \in Members
    PROVE  assign'[m] \subseteq RolesIn(OrgOf[m])'
<1> USE DEF AssignInv, TypeInv, TypeOK, TablesTyped
<1> SUFFICES ASSUME NEW r \in assign'[m] PROVE r \in RolesIn(OrgOf[m])'
  OBVIOUS
<1>0. req[p] \in Requests /\ pc[p] = "commit"
  BY CommitShape
<1>1. r \in RoleIds /\ r \in RolesIn(OrgOf[m])
  <2>1. CASE CommitMember(p) /\ m = req[p].member
    <3>1. req[p].op = "setMember" /\ r \in req[p].roles
      BY <2>1 DEF CommitMember
    <3>2. r \in RoleIds
      BY <1>0, <3>1, RequestFields
    <3>3. /\ Retired(r) \/ r \in RolesIn(req[p].actor.org)
          /\ OrgOf[m] = req[p].actor.org /\ Live(r)
      BY <1>0, <2>1, <3>1 DEF AssignOK, Checked, Referenced
    <3> QED
      BY <3>2, <3>3 DEF FreshOK
  <2>2. CASE ~(CommitMember(p) /\ m = req[p].member)
    <3>1. CASE CommitMember(p)
      BY <2>2, <3>1 DEF CommitMember, AssignmentsLive
    <3>2. CASE ~CommitMember(p)
      <4>1. r \in assign[m]
        <5>1. CASE CommitDelete(p)
          BY <5>1 DEF CommitDelete
        <5>2. CASE ~CommitDelete(p)
          <6>1. assign' = assign
            BY <3>2, <5>2 DEF Commits, CommitCreate, CommitUpdate, CommitPerms
          <6> QED
            BY <6>1
        <5> QED
          BY <5>1, <5>2
      <4> QED
        BY <4>1 DEF AssignmentsLive
    <3> QED
      BY <3>1, <3>2
  <2> QED
    BY <2>1, <2>2
<1>2. ~Retired(r)
  BY <1>1 DEF FreshOK, RolesIn
<1>3. ~(req[p].op = "delete" /\ req[p].role = r)
  <2>1. req[p].op = "delete" => CommitDelete(p)
    BY DEF Commits, CommitCreate, CommitUpdate, CommitPerms, CommitMember
  <2>2. CommitDelete(p) => assign'[m] = assign[m] \ {req[p].role}
    BY DEF CommitDelete
  <2> QED
    BY <2>1, <2>2
<1>4. ~Retired(r)'
  BY <1>1, <1>2, <1>3, CommitShape
<1> QED
  BY <1>1, <1>4, CommitChecked

LEMMA CommitAssign ==
    ASSUME AssignInv, NEW p \in Procs, Commits(p)
    PROVE  AssignInv'
<1> USE DEF AssignInv, TypeInv
<1>1. TypeInv'
  BY CommitInv
<1>2. pc'[p] = "idle" /\ \A o \in Procs \ {p} : pc'[o] = pc[o] /\ req'[o] = req[o]
  BY CommitShape DEF Answer, Goto, TypeOK, RequestsTyped
<1>3. ASSUME NEW o \in Procs, pc'[o] # "idle", req'[o].op = "setMember"
      PROVE  /\ pc'[o] \in {"assigned", "cas", "clear", "assign", "invalidate", "commit"} => Checked(o)'
             /\ pc'[o] \in {"cas", "clear", "assign", "invalidate", "commit"} =>
                  OrgOf[req'[o].member] = req'[o].actor.org
             /\ pc'[o] \in {"invalidate", "commit"} => Referenced(o)'
  <2>1. o # p /\ pc'[o] = pc[o] /\ req'[o] = req[o]
    BY <1>2, <1>3
  <2>2. \A r \in req[o].roles : r \in RoleIds
    <3>1. req[o] \in Requests
      BY <1>3, <2>1 DEF TypeOK, FlowOK, RequestsTyped
    <3> QED
      BY <1>3, <2>1, <3>1, RequestFields
  <2>3. Checked(o) => Checked(o)'
    <3>1. PICK org : org = req[o].actor.org /\ org = req'[o].actor.org
      BY <2>1
    <3>2. ASSUME Checked(o), NEW r \in req[o].roles
          PROVE  Retired(r)' \/ r \in RolesIn(org)'
      BY <2>2, <3>1, <3>2, CommitChecked DEF Checked
    <3> QED
      BY <2>1, <3>1, <3>2 DEF Checked, RolesIn, Live
  <2> QED
    BY <1>3, <2>1, <2>3, CommitReferenced DEF AssignOK
<1>4. AssignOK'
  BY <1>3 DEF AssignOK
<1>5. AssignmentsLive'
  BY CommitAssigned DEF AssignmentsLive
<1> QED
  BY <1>1, <1>4, <1>5

-----------------------------------------------------------------------------
(* The invariant. *)

LEMMA IdleAssign ==
    ASSUME AssignInv, UNCHANGED <<role, assign, audit, pc, req>>, TypeInv'
    PROVE  AssignInv'
BY DEF AssignInv, AssignOK, AssignmentsLive, Checked, Referenced, Retired, Live, RolesIn, Deletes,
   HoldsRole, Wrote

LEMMA AssignStep == AssignInv /\ [Next]_vars => AssignInv'
<1> SUFFICES ASSUME AssignInv, [Next]_vars PROVE AssignInv'
  OBVIOUS
<1>0. TypeInv'
  BY NextInv DEF AssignInv
<1>1. ASSUME NEW p \in Procs, Begin(p) PROVE AssignInv'
  BY <1>1, BeginAssign
<1>2. ASSUME NEW p \in Procs, Step(p) \/ Abort(p) PROVE AssignInv'
  BY <1>2, StepCases, QuietAssign, CommitAssign
<1>3. ASSUME NEW m \in Clients, LoadAbility(m) PROVE AssignInv'
  BY <1>0, <1>3, IdleAssign DEF LoadAbility
<1>4. CASE UNCHANGED vars
  BY <1>0, <1>4, IdleAssign DEF vars
<1> QED
  BY <1>1, <1>2, <1>3, <1>4 DEF Next

\* In every reachable state a member is assigned live roles of its own
\* organization only: however setMemberRoles, deleteRole and the other calls
\* interleave, no assignment names a role that is gone or another tenant's.
THEOREM AssignmentsCorrect == Spec => []AssignmentsLive
<1>1. AssignInv => AssignmentsLive
  BY DEF AssignInv
<1> QED
  BY <1>1, InitAssign, AssignStep, PTL DEF Spec

-----------------------------------------------------------------------------
(* The audit log. *)

MemberHeld(p) == Wrote(p) /\ req[p].op = "setMember"

\* What LocksOK says of role rows, of the version on a member row.
MemberLocks ==
    /\ \A p \in Procs : MemberHeld(p) => MemberVersion(req[p].member) = req[p].exp
    /\ \A p, o \in Procs : MemberHeld(p) /\ MemberHeld(o) /\ p # o => req[p].member # req[o].member

\* A role that was never created has no history.
Untold == \A r \in RoleIds : ~Live(r) /\ ~Retired(r) => RoleSteps(r) = {}

AuditInv == TypeInv /\ MemberLocks /\ Untold /\ AuditTellsVersions

-----------------------------------------------------------------------------
(* Numbering. *)

LEMMA NumberedNone == Numbered({}, 0)
BY DEF Numbered

\* One more event takes the numbering one further.
LEMMA NumberedNext ==
    ASSUME NEW es, NEW n \in Nat, Numbered(es, n), NEW e, e.to = n + 1, e.from = n
    PROVE  Numbered(es \cup {e}, n + 1)
<1>1. \A x \in es : x.to \in 1 .. n
  BY DEF Numbered
<1>2. {x.to : x \in es \cup {e}} = 1 .. (n + 1)
  <2>1. \A k \in 1 .. (n + 1) : k \in 1 .. n \/ k = n + 1
    OBVIOUS
  <2>2. \A k \in 1 .. n : \E x \in es : x.to = k
    BY DEF Numbered
  <2> QED
    BY <1>1, <2>1, <2>2
<1>3. \A x, y \in es \cup {e} : x.to = y.to => x = y
  BY <1>1 DEF Numbered
<1>4. \A x \in es \cup {e} : x.from = x.to - 1
  BY DEF Numbered
<1> QED
  BY <1>2, <1>3, <1>4 DEF Numbered

LEMMA VersionType == TypeOK => \A m \in Members : MemberVersion(m) \in Nat
BY DEF TypeOK, TablesTyped, MemberVersion

-----------------------------------------------------------------------------

LEMMA InitAudit == Init => AuditInv
<1> SUFFICES ASSUME Init PROVE AuditInv
  OBVIOUS
<1>1. MemberLocks
  BY DEF Init, MemberLocks, MemberHeld, Wrote
<1>2. \A x : RoleSteps(x) = {} /\ MemberSteps(x) = {}
  BY DEF Init, RoleSteps, MemberSteps
<1>3. \A r \in RoleIds : Live(r) => role[r].version = 0
  BY SeedAssumption DEF Init, Live
<1>4. \A m \in Members : MemberVersion(m) = 0
  BY SeedAssumption DEF Init, MemberVersion
<1> QED
  BY <1>1, <1>2, <1>3, <1>4, NumberedNone, InitInv DEF AuditInv, Untold, AuditTellsVersions

\* The log and the versions unmoved, the histories stay as they are.
LEMMA SameHistory ==
    ASSUME UNCHANGED <<role, mver, audit>>
    PROVE  /\ Untold => Untold'
           /\ AuditTellsVersions => AuditTellsVersions'
BY DEF Untold, AuditTellsVersions, RoleSteps, MemberSteps, MemberVersion, Live, Retired

LEMMA BeginAudit ==
    ASSUME AuditInv, NEW p \in Procs, Begin(p)
    PROVE  AuditInv'
<1> USE DEF AuditInv, TypeInv
<1>1. TypeInv'
  BY BeginInv
<1>2. PICK q \in Requests : req' = [req EXCEPT ![p] = q]
  BY AskedAssumption DEF Begin
<1>3. /\ pc[p] = "idle" /\ pc' = [pc EXCEPT ![p] = "boundary"]
      /\ UNCHANGED <<role, mver, audit>>
  BY DEF Begin, tables
<1>4. \A o \in Procs : MemberHeld(o)' => MemberHeld(o) /\ req'[o] = req[o]
  BY <1>2, <1>3 DEF MemberHeld, Wrote, TypeOK, RequestsTyped
<1>5. MemberLocks'
  BY <1>3, <1>4 DEF MemberLocks, MemberVersion
<1> QED
  BY <1>1, <1>3, <1>5, SameHistory

\* Only setMemberRoles' compare-and-set takes a member's version.
LEMMA QuietAudit ==
    ASSUME AuditInv, NEW p \in Procs, Reads(p) \/ Locks(p) \/ Abort(p)
    PROVE  AuditInv'
<1> USE DEF AuditInv, TypeInv
<1>1. TypeInv'
  BY QuietInv
<1>2. /\ UNCHANGED <<role, mver, audit>>
      /\ Answer(p) \/ (req' = req /\ \E label : Goto(p, label))
  BY QuietSteps DEF tables
<1>3. \A o \in Procs \ {p} : pc'[o] = pc[o] /\ req'[o] = req[o]
  BY <1>2 DEF Answer, Goto, TypeOK, RequestsTyped
<1>4. \A o \in Procs \ {p} : MemberHeld(o)' <=> MemberHeld(o)
  BY <1>3 DEF MemberHeld, Wrote
<1>5. ASSUME MemberHeld(p)'
      PROVE  /\ req'[p] = req[p]
             /\ \/ MemberHeld(p)
                \/ /\ MemberVersion(req[p].member) = req[p].exp
                   /\ \A o \in Procs \ {p} : MemberHeld(o) => req[o].member # req[p].member
  <2>1. ~Answer(p)
    BY <1>5 DEF MemberHeld, Wrote, Answer, Goto, TypeOK, RequestsTyped
  <2>2. req'[p] = req[p] /\ req[p].op = "setMember"
    BY <1>2, <1>5, <2>1 DEF MemberHeld
  <2>3. CASE pc[p] = "cas" /\ MemberFits(req[p]) /\ Unlocked(p)
    <3>1. \A o \in Others(p) : ~HoldsMember(o, req[p].member)
      BY <2>2, <2>3 DEF Unlocked, Waits
    <3> QED
      BY <2>2, <2>3, <3>1 DEF MemberFits, HoldsMember, MemberHeld, Others
  <2> QED
    BY <1>5, <2>1, <2>2, <2>3, MemberPath DEF MemberHeld, Wrote
<1>6. MemberLocks'
  <2>1. \A m : MemberVersion(m)' = MemberVersion(m)
    BY <1>2 DEF MemberVersion
  <2>2. \A o \in Procs : MemberHeld(o)' => MemberVersion(req[o].member) = req[o].exp
    BY <1>4, <1>5 DEF MemberLocks
  <2>3. \A o \in Procs : MemberHeld(o)' => req'[o] = req[o]
    BY <1>3, <1>5
  <2>4. \A o, u \in Procs : MemberHeld(o)' /\ MemberHeld(u)' /\ o # u => req[o].member # req[u].member
    BY <1>4, <1>5 DEF MemberLocks
  <2>5. \A o \in Procs : MemberHeld(o)' => MemberVersion(req[o].member)' = req'[o].exp
    BY <1>2, <2>2, <2>3 DEF MemberVersion
  <2> QED
    BY <2>3, <2>4, <2>5 DEF MemberLocks
<1> QED
  BY <1>1, <1>2, <1>6, SameHistory

-----------------------------------------------------------------------------
(* The commits. *)

\* A commit leaves the members and the versions that others hold alone.
LEMMA CommitLocks ==
    ASSUME AuditInv, NEW p \in Procs, Commits(p)
    PROVE  MemberLocks'
<1> USE DEF AuditInv, TypeInv, TypeOK, TablesTyped
<1>1. /\ pc[p] = "commit" /\ pc'[p] = "idle"
      /\ \A o \in Procs \ {p} : pc'[o] = pc[o] /\ req'[o] = req[o]
  BY CommitShape DEF Answer, Goto, RequestsTyped
<1>2. \A o \in Procs : MemberHeld(o)' => o # p /\ MemberHeld(o) /\ req'[o] = req[o]
  BY <1>1 DEF MemberHeld, Wrote
<1>3. ASSUME NEW o \in Procs, MemberHeld(o)'
      PROVE  mver'[req[o].member] = mver[req[o].member]
  <2>1. req[o] \in Requests /\ req[o].op = "setMember"
    BY <1>2, <1>3 DEF MemberHeld, Wrote, FlowOK, RequestsTyped
  <2>2. req[o].member \in Members
    BY <2>1, RequestFields
  <2>3. CASE CommitMember(p)
    <3>1. req[p].member # req[o].member
      BY <1>1, <1>2, <1>3, <2>3 DEF CommitMember, MemberLocks, MemberHeld, Wrote
    <3> QED
      BY <2>2, <2>3, <3>1 DEF CommitMember
  <2>4. CASE ~CommitMember(p)
    BY <2>4 DEF Commits, CommitCreate, CommitUpdate, CommitDelete, CommitPerms
  <2> QED
    BY <2>3, <2>4
<1>4. \A o \in Procs : MemberHeld(o)' => MemberVersion(req[o].member)' = req'[o].exp
  BY <1>2, <1>3 DEF MemberLocks, MemberVersion
<1>5. \A o, u \in Procs : MemberHeld(o)' /\ MemberHeld(u)' /\ o # u
        => req'[o].member # req'[u].member
  BY <1>2 DEF MemberLocks
<1> QED
  BY <1>4, <1>5 DEF MemberLocks

\* An event of another kind, or about another target, adds nothing to a history.
LEMMA EventAside ==
    ASSUME NEW e, audit' = audit \cup {e}
    PROVE  /\ \A r : \/ e.type \notin {"IAM_ROLE_UPDATED", "IAM_ROLE_PERMISSIONS_CHANGED"}
                    \/ e.target # r
                    => RoleSteps(r)' = RoleSteps(r)
           /\ e.type # "IAM_MEMBER_ROLES_CHANGED" => \A m : MemberSteps(m)' = MemberSteps(m)
           /\ \A m : e.target # m => MemberSteps(m)' = MemberSteps(m)
BY DEF RoleSteps, MemberSteps

\* createRole: a role without a history starts at version 0.
LEMMA CreateTold ==
    ASSUME AuditInv, NEW p \in Procs, CommitCreate(p)
    PROVE  Untold' /\ AuditTellsVersions'
<1> USE DEF AuditInv, TypeInv, TypeOK, TablesTyped
<1>0. Commits(p) /\ Creating(p) /\ req[p] \in Requests /\ req[p].op = "create"
  BY CommitShape DEF Commits, CommitCreate, Creating
<1>1. PICK r \in RoleIds : r = req[p].role
  BY <1>0, RequestFields
<1>2. /\ role' = [role EXCEPT ![r] = [org |-> req[p].actor.org, name |-> req[p].name,
                                     rank |-> req[p].rank, prot |-> FALSE, version |-> 0]]
      /\ mver' = mver
  BY <1>1 DEF CommitCreate
<1>3. \A s : RoleSteps(s)' = RoleSteps(s) /\ MemberSteps(s)' = MemberSteps(s)
  <2>1. PICK e : e.type = "IAM_ROLE_CREATED" /\ audit' = audit \cup {e}
    BY DEF CommitCreate, Logged, Event
  <2> QED
    BY <2>1, EventAside
<1>4. \A s \in RoleIds : Retired(s)' <=> Retired(s)
  BY <1>0, CommitShape
<1>5. RoleSteps(r) = {}
  BY <1>0, <1>1 DEF FreshOK, Untold
<1>6. role'[r].version = 0 /\ \A s \in RoleIds \ {r} : role'[s] = role[s]
  BY <1>2
<1>7. Untold'
  BY <1>3, <1>4, <1>5, <1>6 DEF Untold, Live
<1>8. ASSUME NEW s \in RoleIds, Live(s)' PROVE Numbered(RoleSteps(s), role'[s].version)
  BY <1>5, <1>6, <1>8, NumberedNone DEF AuditTellsVersions, Live
<1>9. AuditTellsVersions'
  BY <1>2, <1>3, <1>8 DEF AuditTellsVersions, MemberVersion
<1> QED
  BY <1>7, <1>9

\* updateRole and setRolePermissions: one version, one event.
LEMMA ChangeTold ==
    ASSUME AuditInv, NEW p \in Procs, CommitUpdate(p) \/ CommitPerms(p)
    PROVE  Untold' /\ AuditTellsVersions'
<1> USE DEF AuditInv, TypeInv, TypeOK, TablesTyped
<1>0. /\ Commits(p) /\ RowHeld(p) /\ req[p] \in Requests
      /\ req[p].op \in {"update", "setPerms"}
  BY CommitShape DEF Commits, CommitUpdate, CommitPerms, RowHeld, Wrote, RoleOps
<1>1. PICK r \in RoleIds : r = req[p].role
  BY <1>0, RequestFields DEF RoleOps
<1>2. Live(r) /\ role[r].version = req[p].exp /\ role[r] \in RoleRows
  BY <1>0, <1>1 DEF LocksOK, Live
<1>3. PICK v \in Nat : v = role[r].version
  BY <1>2 DEF RoleRows
<1>4. /\ role'[r].version = v + 1
      /\ \A s \in RoleIds \ {r} : role'[s] = role[s]
      /\ mver' = mver
  <2>1. CASE CommitUpdate(p)
    <3>1. role' = Updated(role, r, req[p].name, req[p].rank) /\ mver' = mver
      BY <1>1, <2>1 DEF CommitUpdate, Updated
    <3>2. req[p].name \in Names /\ req[p].rank \in Ranks
      BY <1>0, <2>1, RequestFields DEF CommitUpdate
    <3> QED
      BY <1>2, <1>3, <3>1, <3>2, RowUpdated
  <2>2. CASE CommitPerms(p)
    <3>1. role' = [role EXCEPT ![r].version = @ + 1] /\ mver' = mver
      BY <1>1, <2>2 DEF CommitPerms
    <3>2. role'[r] = [role[r] EXCEPT !.version = v + 1]
      BY <1>3, <3>1
    <3>3. \A s \in RoleIds \ {r} : role'[s] = role[s]
      BY <3>1
    <3>4. role'[r].version = v + 1
      BY <1>2, <3>2 DEF RoleRows
    <3> QED
      BY <3>1, <3>3, <3>4
  <2> QED
    BY <2>1, <2>2
<1>5. PICK e : /\ e.type \in {"IAM_ROLE_UPDATED", "IAM_ROLE_PERMISSIONS_CHANGED"}
               /\ e.target = r /\ e.from = v /\ e.to = v + 1
               /\ audit' = audit \cup {e}
  <2>1. CASE CommitUpdate(p)
    <3> DEFINE ev == Event("IAM_ROLE_UPDATED", r, v, v + 1, Nil)
    <3>1. audit' = audit \cup {ev}
      BY <1>1, <1>2, <1>3, <2>1 DEF CommitUpdate, Logged
    <3>2. ev.type = "IAM_ROLE_UPDATED" /\ ev.target = r /\ ev.from = v /\ ev.to = v + 1
      BY DEF Event
    <3> HIDE DEF ev
    <3> QED
      BY <3>1, <3>2
  <2>2. CASE CommitPerms(p)
    <3> DEFINE ev == Event("IAM_ROLE_PERMISSIONS_CHANGED", r, v, v + 1,
                           DiffEffects(seen[p], req[p].perm))
    <3>1. audit' = audit \cup {ev}
      BY <1>1, <1>2, <1>3, <2>2 DEF CommitPerms, Logged
    <3>2. /\ ev.type = "IAM_ROLE_PERMISSIONS_CHANGED"
          /\ ev.target = r /\ ev.from = v /\ ev.to = v + 1
      BY DEF Event
    <3> HIDE DEF ev
    <3> QED
      BY <3>1, <3>2
  <2> QED
    BY <2>1, <2>2
<1>6. \A s \in RoleIds : Retired(s)' <=> Retired(s)
  BY <1>0, CommitShape
<1>7. RoleSteps(r)' = RoleSteps(r) \cup {e}
  BY <1>5 DEF RoleSteps
<1>8. /\ \A s : s # r => RoleSteps(s)' = RoleSteps(s)
      /\ \A m : MemberSteps(m)' = MemberSteps(m)
  BY <1>5, EventAside
<1>9. Numbered(RoleSteps(r) \cup {e}, v + 1)
  <2>1. Numbered(RoleSteps(r), v)
    BY <1>2, <1>3 DEF AuditTellsVersions
  <2> QED
    BY <1>5, <2>1, NumberedNext
<1>10. ASSUME NEW s \in RoleIds, Live(s)' PROVE Numbered(RoleSteps(s)', role'[s].version)
  BY <1>4, <1>7, <1>8, <1>9, <1>10 DEF AuditTellsVersions, Live
<1>11. AuditTellsVersions'
  BY <1>4, <1>8, <1>10 DEF AuditTellsVersions, MemberVersion
<1>12. Untold'
  <2>1. Live(r)'
    <3>1. role'[r] \in RoleRows
      <4>1. CASE CommitUpdate(p)
        <5>1. role' = Updated(role, r, req[p].name, req[p].rank)
          BY <1>1, <4>1 DEF CommitUpdate, Updated
        <5>2. req[p].name \in Names /\ req[p].rank \in Ranks
          BY <1>0, <4>1, RequestFields DEF CommitUpdate
        <5> QED
          <6>1. role \in [RoleIds -> RoleRows \cup {Nil}] /\ role[r] \in RoleRows
            BY <1>2
          <6> QED
            BY ONLY <5>1, <5>2, <6>1, r \in RoleIds, RowUpdated
      <4>2. CASE CommitPerms(p)
        <5>1. role' = [role EXCEPT ![r].version = @ + 1]
          BY <1>1, <4>2 DEF CommitPerms
        <5>2. [role[r] EXCEPT !.version = @ + 1] \in RoleRows
          BY <1>2 DEF RoleRows
        <5> QED
          BY <1>2, <5>1, <5>2
      <4> QED
        BY <4>1, <4>2
    <3> QED
      BY <3>1, NilAssumption DEF Live
  <2> QED
    BY <1>4, <1>6, <1>8, <2>1 DEF Untold, Live
<1> QED
  BY <1>11, <1>12

\* deleteRole: the history ends with the role.
LEMMA DeleteTold ==
    ASSUME AuditInv, NEW p \in Procs, CommitDelete(p)
    PROVE  Untold' /\ AuditTellsVersions'
<1> USE DEF AuditInv, TypeInv, TypeOK, TablesTyped
<1>0. Commits(p) /\ req[p].op = "delete"
  BY DEF Commits, CommitDelete
<1>1. /\ \A s \in RoleIds : role'[s] = IF s = req[p].role THEN Nil ELSE role[s]
      /\ mver' = mver
  BY DEF CommitDelete
<1>2. \A s : RoleSteps(s)' = RoleSteps(s) /\ MemberSteps(s)' = MemberSteps(s)
  <2>1. PICK e : e.type = "IAM_ROLE_DELETED" /\ audit' = audit \cup {e}
    BY DEF CommitDelete, Logged, Event
  <2> QED
    BY <2>1, EventAside
<1>3. \A s \in RoleIds : Retired(s)' <=> Retired(s) \/ s = req[p].role
  BY <1>0, CommitShape
<1> QED
  BY <1>1, <1>2, <1>3 DEF Untold, AuditTellsVersions, Live, MemberVersion

\* setMemberRoles: one version of the member, one event.
LEMMA MemberTold ==
    ASSUME AuditInv, NEW p \in Procs, CommitMember(p)
    PROVE  Untold' /\ AuditTellsVersions'
<1> USE DEF AuditInv, TypeInv, TypeOK, TablesTyped
<1>0. Commits(p) /\ MemberHeld(p) /\ req[p] \in Requests /\ req[p].op = "setMember"
  BY CommitShape DEF Commits, CommitMember, MemberHeld, Wrote
<1>1. PICK m \in Members : m = req[p].member
  BY <1>0, RequestFields
<1>2. PICK v \in Nat : v = MemberVersion(m) /\ v = req[p].exp
  BY <1>0, <1>1, VersionType DEF MemberLocks
<1>3. mver' = [mver EXCEPT ![m] = v + 1] /\ role' = role
  BY <1>1, <1>2 DEF CommitMember
<1>4. PICK e : /\ e.type = "IAM_MEMBER_ROLES_CHANGED" /\ e.target = m
               /\ e.from = v /\ e.to = v + 1 /\ audit' = audit \cup {e}
  BY <1>1, <1>2 DEF CommitMember, Logged, Event
<1>5. /\ \A s : RoleSteps(s)' = RoleSteps(s)
      /\ \A n : n # m => MemberSteps(n)' = MemberSteps(n)
      /\ MemberSteps(m)' = MemberSteps(m) \cup {e}
  <2>1. MemberSteps(m)' = MemberSteps(m) \cup {e}
    BY <1>4 DEF MemberSteps
  <2> QED
    BY <1>4, <2>1, EventAside
<1>6. Numbered(MemberSteps(m) \cup {e}, v + 1)
  BY <1>2, <1>4, NumberedNext DEF AuditTellsVersions
<1>7. /\ MemberVersion(m)' = v + 1
      /\ \A n \in Members \ {m} : MemberVersion(n)' = MemberVersion(n)
  BY <1>3, NilAssumption DEF MemberVersion
<1>8. \A s \in RoleIds : Retired(s)' <=> Retired(s)
  BY <1>0, CommitShape
<1>9. \A n \in Members : Numbered(MemberSteps(n)', MemberVersion(n)')
  BY <1>5, <1>6, <1>7 DEF AuditTellsVersions
<1> QED
  BY <1>3, <1>5, <1>8, <1>9 DEF Untold, AuditTellsVersions, Live

LEMMA CommitAudit ==
    ASSUME AuditInv, NEW p \in Procs, Commits(p)
    PROVE  AuditInv'
<1>1. TypeInv'
  BY CommitInv DEF AuditInv
<1> QED
  BY <1>1, CommitLocks, CreateTold, ChangeTold, DeleteTold, MemberTold DEF AuditInv, Commits

-----------------------------------------------------------------------------
(* The invariant. *)

LEMMA IdleAudit ==
    ASSUME AuditInv, UNCHANGED <<role, mver, audit, pc, req>>, TypeInv'
    PROVE  AuditInv'
BY SameHistory DEF AuditInv, MemberLocks, MemberHeld, Wrote, MemberVersion

LEMMA AuditStep == AuditInv /\ [Next]_vars => AuditInv'
<1> SUFFICES ASSUME AuditInv, [Next]_vars PROVE AuditInv'
  OBVIOUS
<1>0. TypeInv'
  BY NextInv DEF AuditInv
<1>1. ASSUME NEW p \in Procs, Begin(p) PROVE AuditInv'
  BY <1>1, BeginAudit
<1>2. ASSUME NEW p \in Procs, Step(p) \/ Abort(p) PROVE AuditInv'
  BY <1>2, StepCases, QuietAudit, CommitAudit
<1>3. ASSUME NEW m \in Clients, LoadAbility(m) PROVE AuditInv'
  BY <1>0, <1>3, IdleAudit DEF LoadAbility
<1>4. CASE UNCHANGED vars
  BY <1>0, <1>4, IdleAudit DEF vars
<1> QED
  BY <1>1, <1>2, <1>3, <1>4 DEF Next

\* In every reachable state the audit log has exactly one event for each version
\* a role or a member has reached, from the version before: no commit of
\* updateRole, setRolePermissions or setMemberRoles goes unrecorded, and no
\* event tells of a change that lost the race or was rolled back.
THEOREM AuditCorrect == Spec => []AuditTellsVersions
<1>1. AuditInv => AuditTellsVersions
  BY DEF AuditInv
<1> QED
  BY <1>1, InitAudit, AuditStep, PTL DEF Spec

-----------------------------------------------------------------------------
(* One transaction at a time. *)

Alone == \A p, o \in Procs : pc[p] # "idle" /\ pc[o] # "idle" => p = o

\* setMemberRoles may still assign the roles that it checked.
RolesOK ==
    \A p \in Procs :
        /\ pc[p] \in {"assigned", "cas", "clear", "assign", "invalidate", "commit"}
        /\ req[p].op = "setMember"
        => RolesAllowed(req[p], bnd[p])

\* A role operation may still change the row that it checked.
RowOK ==
    \A p \in Procs :
        pc[p] \notin {"idle", "boundary", "target"} /\ req[p].op \in RoleOps =>
            TargetAllowed(req[p], bnd[p])

\* The members whose decisions the request may alter.
Affected(p) == IF req[p].op = "setMember" THEN {req[p].member}
               ELSE {m \in Members : req[p].role \in assign[m]}

\* What a request has listed is what the tables hold.
Listed ==
    \A p \in Procs :
        /\ pc[p] \in {"cas", "cascade"} /\ req[p].op = "delete" => Affected(p) \subseteq ids[p]
        /\ pc[p] \in {"invalidate", "commit"} /\ req[p].op \in {"delete", "setPerms", "setMember"} =>
             {m \in Affected(p) : session[m] # Nil} \subseteq ids[p]
        /\ pc[p] = "version" => ids[p] = assign[req[p].member]

Shown == [member : Members, roles : SUBSET RoleIds, version : Nat]

\* What a client was shown is of a version that the member has had, and the
\* committed assignment, less deleted roles, unless the version moved on.
ViewsOK ==
    /\ view \in [Procs -> Shown \cup {Nil}]
    /\ \A p \in Procs : view[p] # Nil =>
         /\ \A r \in view[p].roles : Live(r) \/ Retired(r)
         /\ view[p].version <= MemberVersion(view[p].member)
         /\ view[p].version = MemberVersion(view[p].member) =>
              assign[view[p].member] = {r \in view[p].roles : Live(r)}

SerialInv ==
    /\ AssignInv /\ AuditInv
    /\ Alone /\ RolesOK /\ RowOK /\ Listed /\ ViewsOK /\ SessionsFresh

-----------------------------------------------------------------------------

LEMMA InitSerial == Init => SerialInv
<1> SUFFICES ASSUME Init PROVE SerialInv
  OBVIOUS
<1>1. \A p \in Procs : pc[p] = "idle"
  BY DEF Init
<1>2. Alone /\ RolesOK /\ RowOK /\ Listed
  BY <1>1 DEF Alone, RolesOK, RowOK, Listed
<1>3. ViewsOK
  BY DEF Init, ViewsOK
<1>4. SessionsFresh
  BY DEF Init, SessionsFresh
<1> QED
  BY <1>2, <1>3, <1>4, InitAssign, InitAudit DEF SerialInv

\* The tables and the views unmoved, the facts about them stay.
LEMMA ViewsKept ==
    ASSUME UNCHANGED <<role, assign, mver, audit, view>>
    PROVE  ViewsOK => ViewsOK'
BY DEF ViewsOK, Live, Retired, MemberVersion

LEMMA FreshKept ==
    ASSUME UNCHANGED <<role, perm, assign, session>>
    PROVE  SessionsFresh => SessionsFresh'
BY DEF SessionsFresh, View, MemberRoles, RolesIn, Live

LEMMA BeginSerial ==
    ASSUME Isolation = "serial", SerialInv, NEW p \in Procs, Begin(p)
    PROVE  Alone' /\ RolesOK' /\ RowOK' /\ Listed' /\ ViewsOK' /\ SessionsFresh'
<1> USE DEF SerialInv
<1>1. (\A o \in Procs : pc[o] = "idle") /\ UNCHANGED <<tables, view>>
  BY DEF Begin
<1>2. pc' = [pc EXCEPT ![p] = "boundary"]
  BY DEF Begin
<1>3. pc'[p] = "boundary" /\ \A o \in Procs \ {p} : pc'[o] = "idle"
  BY <1>1, <1>2 DEF AssignInv, TypeInv, TypeOK, RequestsTyped
<1>4. Alone' /\ RolesOK' /\ RowOK' /\ Listed'
  BY <1>3 DEF Alone, RolesOK, RowOK, Listed
<1> QED
  BY <1>1, <1>4, ViewsKept, FreshKept DEF tables

-----------------------------------------------------------------------------
(* The statements before the commit. *)

\* The tables stay, so whatever is allowed stays allowed.
LEMMA AllowedKept ==
    ASSUME UNCHANGED <<role, perm>>
    PROVE  \A q, b : /\ RolesAllowed(q, b)' <=> RolesAllowed(q, b)
                     /\ TargetAllowed(q, b)' <=> TargetAllowed(q, b)
BY DEF RolesAllowed, TargetAllowed, RolesIn, Live

\* setMemberRoles goes past its check only with roles it may assign.
LEMMA RolesPath ==
    ASSUME TypeOK, RolesOK, NEW p \in Procs, Reads(p) \/ Locks(p) \/ Abort(p), ~Answer(p),
           req[p].op = "setMember",
           pc'[p] \in {"assigned", "cas", "clear", "assign", "invalidate", "commit"}
    PROVE  bnd' = bnd /\ RolesAllowed(req[p], bnd[p])
<1> USE DEF TypeOK, RequestsTyped, Goto
<1>1. CASE ReadBoundary(p)
  BY <1>1 DEF ReadBoundary, Reject, First
<1>2. CASE ReadTarget(p) \/ ReadCurrent(p) \/ Search(p) \/ Reserve(p) \/ ReadBefore(p)
  BY <1>2 DEF ReadTarget, ReadCurrent, Search, Reserve, ReadBefore, Reject, FlowOK, OpsAt, RoleOps
<1>3. CASE ReadRoles(p)
  BY <1>3 DEF ReadRoles, Reject, locals
<1>4. CASE ReadAssigned(p)
  BY <1>4 DEF ReadAssigned, Reject, RolesOK
<1>5. CASE ReadVersion(p) \/ Abort(p)
  BY <1>5 DEF ReadVersion, Abort
<1>6. CASE ListMembers(p) \/ Cascade(p)
  BY <1>6 DEF ListMembers, Cascade, FlowOK, OpsAt
<1>7. CASE CasRole(p)
  BY <1>7 DEF CasRole, Reject, RoleOps
<1>8. CASE CasMember(p) \/ ClearRoles(p)
  BY <1>8 DEF CasMember, ClearRoles, Reject, RolesOK, locals
<1>9. CASE AssignRoles(p)
  BY <1>9 DEF AssignRoles, Reject, RolesOK
<1>10. CASE Invalidate(p)
  BY <1>10 DEF Invalidate, RolesOK
<1> QED
  BY <1>1, <1>2, <1>3, <1>4, <1>5, <1>6, <1>7, <1>8, <1>9, <1>10 DEF Reads, Locks

\* A role operation goes past its check only with a row it may change.
LEMMA RowPath ==
    ASSUME TypeOK, RowOK, NEW p \in Procs, Reads(p) \/ Locks(p) \/ Abort(p), ~Answer(p),
           req[p].op \in RoleOps, pc'[p] \notin {"idle", "boundary", "target"}
    PROVE  bnd' = bnd /\ TargetAllowed(req[p], bnd[p])
<1> USE DEF TypeOK, RequestsTyped, Goto
<1>1. CASE ReadBoundary(p)
  BY <1>1 DEF ReadBoundary, Reject, First, RoleOps
<1>2. CASE ReadTarget(p)
  BY <1>2 DEF ReadTarget, Reject, locals
<1>3. CASE ReadCurrent(p) \/ Search(p) \/ Reserve(p) \/ ReadBefore(p)
  BY <1>3 DEF ReadCurrent, Search, Reserve, ReadBefore, Reject, RowOK, locals
<1>4. CASE ReadRoles(p) \/ ReadAssigned(p) \/ CasMember(p) \/ ClearRoles(p) \/ AssignRoles(p)
  BY <1>4 DEF ReadRoles, ReadAssigned, CasMember, ClearRoles, AssignRoles, FlowOK, OpsAt, RoleOps
<1>5. CASE ReadVersion(p) \/ Abort(p)
  BY <1>5 DEF ReadVersion, Abort
<1>6. CASE ListMembers(p) \/ Cascade(p) \/ Invalidate(p)
  BY <1>6 DEF ListMembers, Cascade, Invalidate, RowOK
<1>7. CASE CasRole(p)
  BY <1>7 DEF CasRole, Reject, RowOK, locals
<1> QED
  BY <1>1, <1>2, <1>3, <1>4, <1>5, <1>6, <1>7 DEF Reads, Locks

\* A request lists whom it affects before it goes on to delete sessions, and
\* memberRoles the roles of a member of its organization.
LEMMA ListPath ==
    ASSUME AssignInv, Listed, NEW p \in Procs, Reads(p) \/ Locks(p) \/ Abort(p), ~Answer(p)
    PROVE  /\ pc'[p] \in {"cas", "cascade"} /\ req[p].op = "delete" => Affected(p) \subseteq ids'[p]
           /\ pc'[p] \in {"invalidate", "commit"} /\ req[p].op \in {"delete", "setPerms", "setMember"} =>
                {m \in Affected(p) : session[m] # Nil} \subseteq ids'[p]
           /\ pc'[p] = "version" => ids'[p] = assign[req[p].member]
<1> USE DEF AssignInv, TypeInv, TypeOK, RequestsTyped, Goto
<1>1. CASE ReadBoundary(p)
  <2>1. pc'[p] = First(req[p].op) /\ req[p].op \in RoleOps \cup {"create", "setMember", "readMember"}
    BY <1>1 DEF ReadBoundary, Reject, FlowOK, OpsAt
  <2> QED
    BY <2>1 DEF First, RoleOps
<1>2. CASE ReadTarget(p)
  <2>1. pc'[p] \in {"current", "list", "before"}
    BY <1>2 DEF ReadTarget, Reject
  <2> QED
    BY <2>1
<1>3. CASE ReadCurrent(p) \/ Search(p) \/ Reserve(p) \/ ReadBefore(p)
  BY <1>3 DEF ReadCurrent, Search, Reserve, ReadBefore, Reject, FlowOK, OpsAt
<1>4. CASE ReadRoles(p) \/ CasMember(p) \/ ClearRoles(p)
  BY <1>4 DEF ReadRoles, CasMember, ClearRoles, Reject, FlowOK, OpsAt
<1>5. CASE ReadVersion(p) \/ Abort(p)
  BY <1>5 DEF ReadVersion, Abort
<1>6. CASE ReadAssigned(p)
  <2>1. /\ InOrg(req[p]) /\ ids'[p] = MemberRoles(req[p].actor.org, req[p].member)
        /\ pc'[p] \in {"cas", "version"} /\ req[p].op \in {"setMember", "readMember"}
        /\ req[p] \in Requests
    BY <1>6 DEF ReadAssigned, Reject, FlowOK, OpsAt
  <2>2. req[p].member \in Members
    BY <2>1, RequestFields
  <2>3. ids'[p] = assign[req[p].member]
    BY <2>1, <2>2 DEF InOrg, MemberRoles, AssignmentsLive
  <2> QED
    BY <2>1, <2>3
<1>7. CASE ListMembers(p)
  <2>1. /\ ids'[p] = {m \in Members : req[p].role \in assign[m]}
        /\ req[p].op \in {"delete", "setPerms"}
    BY <1>7 DEF ListMembers, FlowOK, OpsAt
  <2>2. ids'[p] = Affected(p)
    BY <2>1 DEF Affected
  <2>3. pc'[p] \in {"cas", "invalidate", "commit"}
    BY <1>7, SignOutGoes DEF ListMembers
  <2> QED
    BY <2>2, <2>3
<1>8. CASE CasRole(p)
  <2>1. /\ pc[p] = "cas" /\ ids' = ids /\ req[p].op \in RoleOps
        /\ pc'[p] = CASE req[p].op = "update" -> "commit" [] req[p].op = "setPerms" -> "list"
                      [] OTHER -> "cascade"
    BY <1>8 DEF CasRole, Reject, locals
  <2> QED
    BY <2>1 DEF Listed, RoleOps
<1>9. CASE Cascade(p)
  <2>1. pc[p] = "cascade" /\ req[p].op = "delete" /\ ids' = ids /\ SignOut(p, ids[p])
    BY <1>9 DEF Cascade, FlowOK, OpsAt
  <2>2. pc'[p] \in {"invalidate", "commit"}
    BY <2>1, SignOutGoes
  <2> QED
    BY <2>1, <2>2 DEF Listed
<1>10. CASE AssignRoles(p)
  <2>1. /\ req[p].op = "setMember" /\ ids'[p] = {req[p].member}
        /\ SignOut(p, {req[p].member})
    BY <1>10 DEF AssignRoles, Reject, FlowOK, OpsAt
  <2>2. pc'[p] \in {"invalidate", "commit"} /\ Affected(p) = {req[p].member}
    BY <2>1, SignOutGoes DEF Affected
  <2> QED
    BY <2>1, <2>2
<1>11. CASE Invalidate(p)
  <2> DEFINE m == Head(queue[p])
  <2>1. /\ pc[p] = "invalidate" /\ pc'[p] \in {"invalidate", "commit"}
        /\ ids'[p] = IF session[m] = Nil THEN ids[p] \ {m} ELSE ids[p]
    BY <1>11 DEF Invalidate
  <2> HIDE DEF m
  <2> QED
    BY <2>1 DEF Listed
<1> QED
  BY <1>1, <1>2, <1>3, <1>4, <1>5, <1>6, <1>7, <1>8, <1>9, <1>10, <1>11 DEF Reads, Locks

\* Only memberRoles answers a view: the roles it read, with their version.
LEMMA ViewPath ==
    ASSUME SerialInv, NEW p \in Procs, Reads(p) \/ Locks(p) \/ Abort(p)
    PROVE  ViewsOK'
<1> USE DEF SerialInv, AssignInv, TypeInv, TypeOK, RequestsTyped
<1>0. UNCHANGED tables
  BY QuietSteps
<1>1. CASE ReadVersion(p)
  <2> DEFINE m == req[p].member
             v == [member |-> m, roles |-> assign[m], version |-> MemberVersion(m)]
  <2>1. req[p] \in Requests /\ req[p].op = "readMember" /\ pc[p] = "version"
    BY <1>1 DEF ReadVersion, FlowOK, OpsAt
  <2>2. m \in Members /\ assign[m] \subseteq RoleIds /\ (\A r \in assign[m] : Live(r))
    BY <2>1, RequestFields DEF AssignmentsLive, RolesIn
  <2>3. ids[p] = assign[m]
    BY <2>1 DEF Listed
  <2>9. view' = [view EXCEPT ![p] = v]
    BY <1>1, <2>3 DEF ReadVersion
  <2>4. v \in Shown /\ MemberVersion(m) \in Nat
    BY <2>2, VersionType DEF Shown
  <2>5. /\ \A r \in v.roles : Live(r) \/ Retired(r)
        /\ v.version <= MemberVersion(v.member)
        /\ assign[v.member] = {r \in v.roles : Live(r)}
    BY <2>2, <2>4
  <2> HIDE DEF v
  <2>6. view' \in [Procs -> Shown \cup {Nil}]
    BY <2>9, <2>4 DEF ViewsOK
  <2>7. view'[p] = v /\ \A o \in Procs \ {p} : view'[o] = view[o]
    BY <2>9 DEF ViewsOK
  <2>8. /\ \A m_1 : MemberVersion(m_1)' = MemberVersion(m_1)
        /\ \A r : (Live(r)' <=> Live(r)) /\ (Retired(r)' <=> Retired(r))
        /\ assign' = assign
    BY <1>0 DEF tables, MemberVersion, Live, Retired
  <2> QED
    BY <2>5, <2>6, <2>7, <2>8 DEF ViewsOK
<1>2. CASE ~ReadVersion(p)
  <2>1. view' = view
    BY <1>2 DEF Reads, Locks, ReadBoundary, ReadTarget, ReadCurrent, Search, Reserve, ReadBefore,
       ReadRoles, ReadAssigned, ListMembers, CasRole, Cascade, CasMember, ClearRoles, AssignRoles,
       Invalidate, Reject, Abort
  <2> QED
    BY <1>0, <2>1, ViewsKept DEF tables
<1> QED
  BY <1>1, <1>2

LEMMA QuietSerial ==
    ASSUME SerialInv, NEW p \in Procs, Reads(p) \/ Locks(p) \/ Abort(p)
    PROVE  Alone' /\ RolesOK' /\ RowOK' /\ Listed' /\ ViewsOK' /\ SessionsFresh'
<1> USE DEF SerialInv, AssignInv, TypeInv
<1>1. /\ UNCHANGED tables /\ pc[p] # "idle"
      /\ Answer(p) \/ (req' = req /\ \E label : Goto(p, label))
  BY QuietSteps
<1>2. \A o \in Procs \ {p} : pc'[o] = "idle"
  BY <1>1 DEF Alone, Answer, Goto, TypeOK, RequestsTyped
<1>3. pc'[p] # "idle" => ~Answer(p) /\ req'[p] = req[p]
  BY <1>1 DEF Answer, Goto, TypeOK, RequestsTyped
<1>4. Alone'
  BY <1>2 DEF Alone
<1>5. RolesOK'
  BY <1>1, <1>2, <1>3, RolesPath, AllowedKept DEF RolesOK, tables
<1>6. RowOK'
  BY <1>1, <1>2, <1>3, RowPath, AllowedKept DEF RowOK, tables
<1>7. Listed'
  <2>1. CASE pc'[p] = "idle"
    BY <1>2, <2>1 DEF Listed
  <2>2. CASE pc'[p] # "idle"
    <3>1. Affected(p)' = Affected(p)
      BY <1>1, <1>3, <2>2 DEF Affected, tables
    <3> QED
      BY <1>1, <1>2, <1>3, <2>2, <3>1, ListPath DEF Listed, tables
  <2> QED
    BY <2>1, <2>2
<1> QED
  BY <1>1, <1>4, <1>5, <1>6, <1>7, ViewPath, FreshKept DEF tables

-----------------------------------------------------------------------------
(* The commits. *)

LEMMA CommitKinds ==
    ASSUME NEW p \in Procs, Commits(p)
    PROVE  /\ req[p].op = "create" => CommitCreate(p)
           /\ req[p].op = "update" => CommitUpdate(p)
           /\ req[p].op = "delete" => CommitDelete(p)
           /\ req[p].op = "setPerms" => CommitPerms(p)
           /\ req[p].op = "setMember" => CommitMember(p)
BY DEF Commits, CommitCreate, CommitUpdate, CommitDelete, CommitPerms, CommitMember

\* A commit ends the life of the role it deletes, and of no other.
LEMMA LiveMoves ==
    ASSUME TypeInv, NEW p \in Procs, Commits(p), NEW r \in RoleIds, Live(r) \/ Retired(r)
    PROVE  /\ Live(r)' <=> Live(r) /\ ~(req[p].op = "delete" /\ r = req[p].role)
           /\ Live(r)' \/ Retired(r)'
<1> USE DEF TypeInv
<1>1. TypeInv'
  BY CommitInv
<1>2. Retired(r)' <=> Retired(r) \/ (req[p].op = "delete" /\ r = req[p].role)
  BY CommitShape
<1>3. Live(r) => Retired(r)' \/ Live(r)'
  <2>1. PICK org : org = role[r].org
    OBVIOUS
  <2> QED
    BY <2>1, CommitChecked DEF RolesIn, Live
<1>4. ~(Retired(r)' /\ Live(r)')
  BY <1>1 DEF FreshOK
<1>5. ~(Retired(r) /\ Live(r))
  BY DEF FreshOK
<1> QED
  BY <1>2, <1>3, <1>4, <1>5

\* A member's roles in its organization are those assigned to it.
LEMMA RolesHeld ==
    ASSUME AssignmentsLive, NEW m \in Members
    PROVE  MemberRoles(OrgOf[m], m) = assign[m]
BY DEF AssignmentsLive, MemberRoles

LEMMA CommitFresh ==
    ASSUME SerialInv, NEW p \in Procs, Commits(p)
    PROVE  SessionsFresh'
<1> USE DEF SerialInv
<1>1. AssignmentsLive' /\ AssignmentsLive
  BY CommitAssign DEF AssignInv
<1>2. \A m \in Members : MemberRoles(OrgOf[m], m)' = assign'[m]
  BY <1>1 DEF AssignmentsLive, MemberRoles
<1> USE DEF AssignInv, TypeInv, TypeOK, TablesTyped
<1>3. req[p] \in Requests /\ pc[p] = "commit"
  BY CommitShape
<1>4. SUFFICES ASSUME NEW m \in Members, session'[m] # Nil
               PROVE  session'[m] = Decisions({perm'[r] : r \in assign'[m]})
  BY <1>2 DEF SessionsFresh, View
<1>5. session[m] # Nil => session[m] = Decisions({perm[r] : r \in assign[m]})
  BY <1>1, RolesHeld DEF SessionsFresh, View
<1>6. CASE CommitCreate(p) \/ CommitUpdate(p)
  <2>1. UNCHANGED <<perm, assign, session>>
    BY <1>6 DEF CommitCreate, CommitUpdate
  <2> QED
    BY <1>4, <1>5, <2>1
<1>7. CASE CommitPerms(p)
  <2>1. /\ SignedOut(ids[p]) /\ assign' = assign /\ req[p].op = "setPerms"
        /\ perm' = [perm EXCEPT ![req[p].role] = req[p].perm]
    BY <1>7 DEF CommitPerms
  <2>2. session'[m] = session[m] /\ m \notin ids[p]
    BY <1>4, <2>1 DEF SignedOut
  <2>3. req[p].role \notin assign[m]
    BY <1>3, <1>4, <2>1, <2>2 DEF Listed, Affected
  <2>4. {perm'[r] : r \in assign'[m]} = {perm[r] : r \in assign[m]}
    BY <2>1, <2>3
  <2> QED
    BY <1>4, <1>5, <2>2, <2>4
<1>8. CASE CommitDelete(p)
  <2>1. /\ SignedOut(ids[p]) /\ req[p].op = "delete"
        /\ assign'[m] = assign[m] \ {req[p].role}
        /\ perm' = [perm EXCEPT ![req[p].role] = NoEffects]
    BY <1>8 DEF CommitDelete
  <2>2. session'[m] = session[m] /\ m \notin ids[p]
    BY <1>4, <2>1 DEF SignedOut
  <2>3. req[p].role \notin assign[m]
    BY <1>3, <1>4, <2>1, <2>2 DEF Listed, Affected
  <2>4. {perm'[r] : r \in assign'[m]} = {perm[r] : r \in assign[m]}
    BY <2>1, <2>3
  <2> QED
    BY <1>4, <1>5, <2>2, <2>4
<1>9. CASE CommitMember(p)
  <2>1. /\ SignedOut(ids[p]) /\ perm' = perm /\ req[p].op = "setMember"
        /\ assign' = [assign EXCEPT ![req[p].member] = req[p].roles]
    BY <1>9 DEF CommitMember
  <2>2. session'[m] = session[m] /\ m \notin ids[p]
    BY <1>4, <2>1 DEF SignedOut
  <2>3. m # req[p].member
    BY <1>3, <1>4, <2>1, <2>2 DEF Listed, Affected
  <2> QED
    BY <1>4, <1>5, <2>1, <2>2, <2>3
<1> QED
  BY <1>6, <1>7, <1>8, <1>9 DEF Commits

\* setMemberRoles moves the member's version on, so what any client was shown
\* of it is now of the past.
LEMMA CommitViews ==
    ASSUME SerialInv, NEW p \in Procs, Commits(p)
    PROVE  ViewsOK'
<1> USE DEF SerialInv, AssignInv, TypeInv
<1>1. view' = view
  BY DEF Commits, CommitCreate, CommitUpdate, CommitDelete, CommitPerms, CommitMember
<1>2. SUFFICES ASSUME NEW o \in Procs, NEW v, view[o] = v, v # Nil
               PROVE  /\ \A r \in v.roles : Live(r)' \/ Retired(r)'
                      /\ v.version <= MemberVersion(v.member)'
                      /\ v.version = MemberVersion(v.member)' =>
                           assign'[v.member] = {r \in v.roles : Live(r)'}
  BY <1>1 DEF ViewsOK
<1>3. v.member \in Members /\ v.roles \subseteq RoleIds /\ v.version \in Nat
  BY <1>2 DEF ViewsOK, Shown
<1>4. /\ \A r \in v.roles : Live(r) \/ Retired(r)
      /\ v.version <= MemberVersion(v.member)
      /\ v.version = MemberVersion(v.member) => assign[v.member] = {r \in v.roles : Live(r)}
  BY <1>2, <1>3 DEF ViewsOK
<1>5. \A r \in v.roles :
        /\ Live(r)' <=> Live(r) /\ ~(req[p].op = "delete" /\ r = req[p].role)
        /\ Live(r)' \/ Retired(r)'
  BY <1>3, <1>4, LiveMoves
<1>6. CASE CommitMember(p)
  <2>1. /\ req[p].op = "setMember"
        /\ assign' = [assign EXCEPT ![req[p].member] = req[p].roles]
        /\ mver' = [mver EXCEPT ![req[p].member] = MemberVersion(req[p].member) + 1]
    BY <1>6 DEF CommitMember
  <2>2. CASE v.member = req[p].member
    <3>1. MemberVersion(v.member)' = MemberVersion(v.member) + 1
      <4>1. MemberVersion(v.member) \in Nat
        BY <1>3, VersionType
      <4>2. mver'[v.member] = MemberVersion(v.member) + 1
        BY <1>3, <2>1, <2>2 DEF TypeOK, TablesTyped
      <4> QED
        BY <4>1, <4>2, NilAssumption DEF MemberVersion
    <3> QED
      BY <1>3, <1>4, <1>5, <3>1, VersionType
  <2>3. CASE v.member # req[p].member
    <3>1. MemberVersion(v.member)' = MemberVersion(v.member) /\ assign'[v.member] = assign[v.member]
      BY <1>3, <2>1, <2>3 DEF MemberVersion, TypeOK, TablesTyped
    <3> QED
      BY <1>4, <1>5, <2>1, <3>1
  <2> QED
    BY <2>2, <2>3
<1>7. CASE CommitDelete(p)
  <2>1. /\ req[p].op = "delete" /\ mver' = mver
        /\ assign'[v.member] = assign[v.member] \ {req[p].role}
    BY <1>3, <1>7 DEF CommitDelete
  <2> QED
    BY <1>4, <1>5, <2>1 DEF MemberVersion
<1>8. CASE CommitCreate(p) \/ CommitUpdate(p) \/ CommitPerms(p)
  <2>1. req[p].op # "delete" /\ UNCHANGED <<mver, assign>>
    BY <1>8 DEF CommitCreate, CommitUpdate, CommitPerms
  <2> QED
    BY <1>4, <1>5, <2>1 DEF MemberVersion
<1> QED
  BY <1>6, <1>7, <1>8 DEF Commits

LEMMA CommitSerial ==
    ASSUME SerialInv, NEW p \in Procs, Commits(p)
    PROVE  Alone' /\ RolesOK' /\ RowOK' /\ Listed' /\ ViewsOK' /\ SessionsFresh'
<1>1. pc[p] = "commit" /\ pc' = [pc EXCEPT ![p] = "idle"]
  BY CommitShape DEF SerialInv, AssignInv, TypeInv, Answer, Goto
<1>2. \A o \in Procs : pc'[o] = "idle"
  BY <1>1 DEF SerialInv, AssignInv, TypeInv, Alone, TypeOK, RequestsTyped
<1>3. Alone' /\ RolesOK' /\ RowOK' /\ Listed'
  BY <1>2 DEF Alone, RolesOK, RowOK, Listed
<1> QED
  BY <1>3, CommitViews, CommitFresh

-----------------------------------------------------------------------------
(* The invariant. *)

\* A client loads its ability while no request is in flight.
LEMMA LoadSerial ==
    ASSUME Isolation = "serial", SerialInv, NEW m \in Members, LoadAbility(m)
    PROVE  Alone' /\ RolesOK' /\ RowOK' /\ Listed' /\ ViewsOK' /\ SessionsFresh'
<1>1. /\ \A p \in Procs : pc'[p] = "idle"
      /\ UNCHANGED <<role, perm, assign, mver, audit, view>>
      /\ session' = [session EXCEPT ![m] = View(m)]
  BY DEF LoadAbility
<1>2. Alone' /\ RolesOK' /\ RowOK' /\ Listed'
  BY <1>1 DEF Alone, RolesOK, RowOK, Listed
<1>3. \A x : View(x)' = View(x)
  BY <1>1 DEF View, MemberRoles, RolesIn, Live
<1>4. SessionsFresh'
  BY <1>1, <1>3 DEF SerialInv, AssignInv, TypeInv, TypeOK, TablesTyped, SessionsFresh
<1> QED
  BY <1>1, <1>2, <1>4, ViewsKept DEF SerialInv

LEMMA SerialStep ==
    ASSUME Isolation = "serial"
    PROVE  SerialInv /\ [Next]_vars => SerialInv'
<1> SUFFICES ASSUME SerialInv, [Next]_vars PROVE SerialInv'
  OBVIOUS
<1>0. AssignInv' /\ AuditInv'
  BY AssignStep, AuditStep DEF SerialInv
<1>1. ASSUME NEW p \in Procs, Begin(p) PROVE SerialInv'
  BY <1>0, <1>1, BeginSerial DEF SerialInv
<1>2. ASSUME NEW p \in Procs, Step(p) \/ Abort(p) PROVE SerialInv'
  <2>1. CASE Commits(p)
    BY <1>0, <2>1, CommitSerial DEF SerialInv
  <2>2. CASE Reads(p) \/ Locks(p) \/ Abort(p)
    BY <1>0, <2>2, QuietSerial DEF SerialInv
  <2> QED
    BY <1>2, <2>1, <2>2, StepCases
<1>3. ASSUME NEW m \in Clients, LoadAbility(m) PROVE SerialInv'
  BY <1>0, <1>3, LoadSerial, BoundAssumption DEF SerialInv
<1>4. CASE UNCHANGED vars
  <2>1. Alone' /\ RolesOK' /\ RowOK'
    BY <1>4, AllowedKept DEF vars, SerialInv, Alone, RolesOK, RowOK
  <2>2. Listed'
    BY <1>4 DEF vars, SerialInv, Listed, Affected
  <2> QED
    BY <1>0, <1>4, <2>1, <2>2, ViewsKept, FreshKept DEF vars, SerialInv
<1> QED
  BY <1>1, <1>2, <1>3, <1>4 DEF Next

\* With one transaction at a time no session outlives a change of what it may
\* do: whoever listMemberIdsForRole named is still everyone the mutation affects
\* when invalidateSessions deletes and the transaction commits.
THEOREM FreshCorrect ==
    ASSUME Isolation = "serial"
    PROVE  Spec => []SessionsFresh
<1>1. SerialInv /\ [Next]_vars => SerialInv'
  BY SerialStep
<1>2. SerialInv => SessionsFresh
  BY DEF SerialInv
<1> QED
  BY <1>1, <1>2, InitSerial, PTL DEF Spec

-----------------------------------------------------------------------------
(* Saves. *)

LEMMA ShownReplaced ==
    ASSUME SerialInv, NEW p \in Procs, pc[p] = "commit", req[p].op = "setMember",
           view[p] # Nil, view[p].member = req[p].member, view[p].version = req[p].exp
    PROVE  assign[req[p].member] = {r \in view[p].roles : Live(r)}
<1>1. MemberVersion(req[p].member) = req[p].exp
  BY DEF SerialInv, AuditInv, MemberLocks, MemberHeld, Wrote
<1> QED
  BY <1>1 DEF SerialInv, ViewsOK

\* With one transaction at a time, setMemberRoles with the version that
\* memberRoles answered replaces exactly the roles that it answered, less the
\* roles deleted since.
THEOREM SavesCorrect ==
    ASSUME Isolation = "serial"
    PROVE  Spec => NoLostUpdate
<1>1. SerialInv /\ [Next]_vars => SerialInv'
  BY SerialStep
<1>2. SerialInv => \A p \in Procs :
         /\ pc[p] = "commit" /\ audit' # audit /\ pc'[p] = "idle" /\ req[p].op = "setMember"
         /\ view[p] # Nil /\ view[p].member = req[p].member /\ view[p].version = req[p].exp
         => assign[req[p].member] = {r \in view[p].roles : Live(r)}
  BY ShownReplaced
<1> QED
  BY <1>1, <1>2, InitSerial, PTL DEF Spec, NoLostUpdate

-----------------------------------------------------------------------------
(* Ranks. *)

RankOf(rows, rs) == IF rs = {} THEN MaxSafe ELSE Min({rows[r].rank : r \in rs})

LEMMA RankFacts ==
    ASSUME NEW rows, NEW rs, \A r \in rs : rows[r].rank \in Ranks
    PROVE  /\ RankOf(rows, rs) \in Nat
           /\ \A r \in rs : RankOf(rows, rs) <= rows[r].rank
           /\ RankOf(rows, rs) < MaxSafe => \E r \in rs : RankOf(rows, rs) = rows[r].rank
           /\ RankOf(rows, rs) <= MaxSafe
<1> DEFINE ns == {rows[r].rank : r \in rs}
<1>1. ns \subseteq Ranks /\ ns \subseteq Nat /\ MaxSafe \in Nat /\ \A n \in Ranks : n < MaxSafe
  BY BoundAssumption
<1>2. CASE rs = {}
  BY <1>1, <1>2 DEF RankOf
<1>3. CASE rs # {}
  <2>1. RankOf(rows, rs) = Min(ns) /\ ns # {}
    BY <1>3 DEF RankOf
  <2> HIDE DEF ns
  <2>2. Min(ns) \in ns /\ \A n \in ns : Min(ns) <= n
    BY <1>1, <2>1, MinIn
  <2>3. PICK r \in rs : Min(ns) = rows[r].rank
    BY <2>2 DEF ns
  <2>4. \A s \in rs : rows[s].rank \in ns
    BY DEF ns
  <2>5. Min(ns) \in Nat /\ Min(ns) < MaxSafe
    BY <1>1, <2>2
  <2>6. RankOf(rows, rs) <= MaxSafe
    BY <1>1, <2>1, <2>5
  <2> QED
    BY <2>1, <2>2, <2>3, <2>4, <2>5, <2>6
<1> QED
  BY <1>2, <1>3

LEMMA CommitRanks ==
    ASSUME SerialInv, NEW p \in Procs, Commits(p), ~bnd[p].owner, NEW m \in Members,
           NEW r \in assign'[m]
    PROVE  \/ role'[r].rank > bnd[p].rank
           \/ r \in assign[m] /\ role'[r].rank = role[r].rank
<1> USE DEF SerialInv, AssignInv, TypeInv, TypeOK, TablesTyped
<1>1. req[p] \in Requests /\ pc[p] = "commit"
  BY CommitShape
<1>2. r \in assign[m] => r \in RoleIds /\ Live(r)
  BY DEF AssignmentsLive, RolesIn
<1>3. CASE CommitMember(p)
  <2>1. /\ req[p].op = "setMember" /\ role' = role
        /\ assign' = [assign EXCEPT ![req[p].member] = req[p].roles]
    BY <1>3 DEF CommitMember
  <2>2. m = req[p].member => role[r].rank > bnd[p].rank
    BY <1>1, <2>1 DEF RolesOK, RolesAllowed, MayChange
  <2> QED
    BY <2>1, <2>2
<1>4. CASE CommitUpdate(p)
  <2>1. /\ req[p].op = "update" /\ assign' = assign
        /\ role' = [role EXCEPT ![req[p].role].name = req[p].name, ![req[p].role].rank = req[p].rank,
                                ![req[p].role].version = @ + 1]
    BY <1>4 DEF CommitUpdate
  <2>2. req[p].rank > bnd[p].rank
    <3>1. TargetAllowed(req[p], bnd[p])
      BY <1>1, <2>1 DEF RowOK, RoleOps
    <3> QED
      BY <2>1, <3>1 DEF TargetAllowed, MayChange
  <2>3. r = req[p].role => role'[r].rank = req[p].rank
    <3>1. r = req[p].role => role[r] \in RoleRows
      BY <1>2, <2>1 DEF Live
    <3> QED
      BY <1>2, <2>1, <3>1 DEF RoleRows
  <2>4. r # req[p].role => role'[r] = role[r]
    BY <1>2, <2>1
  <2> QED
    BY <2>1, <2>2, <2>3, <2>4
<1>5. CASE CommitPerms(p)
  <2>1. assign' = assign /\ role' = [role EXCEPT ![req[p].role].version = @ + 1]
    BY <1>5 DEF CommitPerms
  <2>2. role[r] \in RoleRows
    BY <1>2, <2>1 DEF Live
  <2> QED
    BY <1>2, <2>1, <2>2 DEF RoleRows
<1>6. CASE CommitCreate(p)
  <2>1. assign' = assign /\ req[p].op = "create"
    BY <1>6 DEF CommitCreate
  <2>2. ~Live(req[p].role)
    BY <1>1, <2>1 DEF FreshOK, Creating
  <2> QED
    BY <1>2, <1>6, <2>1, <2>2 DEF CommitCreate
<1>7. CASE CommitDelete(p)
  <2>1. /\ assign'[m] = assign[m] \ {req[p].role}
        /\ role' = [role EXCEPT ![req[p].role] = Nil]
    BY <1>7 DEF CommitDelete
  <2> QED
    BY <1>2, <2>1
<1> QED
  BY <1>3, <1>4, <1>5, <1>6, <1>7 DEF Commits

\* A member's best rank is the least of its roles'.
LEMMA BestRankIs ==
    ASSUME TypeOK, AssignmentsLive, NEW m \in Members
    PROVE  /\ BestRank(m) = RankOf(role, assign[m])
           /\ \A r \in assign[m] : role[r].rank \in Ranks
<1>1. BestRank(m) = RankOf(role, assign[m])
  BY RolesHeld DEF BestRank, Boundary, RankOf
<1>2. \A r \in assign[m] : role[r].rank \in Ranks
  BY DEF AssignmentsLive, RolesIn, Live, TypeOK, TablesTyped, RoleRows
<1> QED
  BY <1>1, <1>2

LEMMA BestRankNext ==
    ASSUME TypeOK', AssignmentsLive', NEW m \in Members
    PROVE  /\ BestRank(m)' = RankOf(role', assign'[m])
           /\ \A r \in assign'[m] : role'[r].rank \in Ranks
<1>1. MemberRoles(OrgOf[m], m)' = assign'[m]
  BY DEF AssignmentsLive, MemberRoles
<1>2. BestRank(m)' = RankOf(role', assign'[m])
  BY <1>1 DEF BestRank, Boundary, RankOf
<1>3. \A r \in assign'[m] : role'[r].rank \in Ranks
  BY DEF AssignmentsLive, RolesIn, Live, TypeOK, TablesTyped, RoleRows
<1> QED
  BY <1>2, <1>3

LEMMA StepRanks ==
    ASSUME SerialInv, SerialInv', [Next]_vars,
           NEW p \in Procs, pc[p] = "commit", pc'[p] = "idle", ~bnd[p].owner,
           NEW m \in Members, BestRank(m)' < BestRank(m)
    PROVE  BestRank(m)' > bnd[p].rank
<1> USE DEF SerialInv, AssignInv, TypeInv
<1>1. /\ BestRank(m) = RankOf(role, assign[m])
      /\ \A r \in assign[m] : role[r].rank \in Ranks
  BY BestRankIs
<1>2. /\ BestRank(m)' = RankOf(role', assign'[m])
      /\ \A r \in assign'[m] : role'[r].rank \in Ranks
  BY BestRankNext
<1>3. role' # role \/ assign' # assign
  BY <1>1, <1>2, RankFacts
<1>4. \A o \in Procs : pc[o] # "idle" => o = p
  BY DEF Alone
<1>5. ~UNCHANGED vars
  BY <1>3 DEF vars
<1>6. \A o \in Procs : ~Begin(o)
  BY <1>3 DEF Begin, tables
<1>7. \A x \in Clients : ~LoadAbility(x)
  BY <1>3 DEF LoadAbility
<1>8. \A o \in Procs : ~(Reads(o) \/ Locks(o) \/ Abort(o))
  BY <1>3, QuietSteps DEF tables
<1>9. PICK o \in Procs : Commits(o)
  BY <1>5, <1>6, <1>7, <1>8, StepCases DEF Next
<1>10. o = p
  BY <1>4, <1>9, CommitShape
<1>11. PICK r \in assign'[m] : BestRank(m)' = role'[r].rank
  <2>1. RankOf(role, assign[m]) \in Nat /\ RankOf(role, assign[m]) <= MaxSafe
    BY <1>1, RankFacts
  <2>2. RankOf(role', assign'[m]) \in Nat
    BY <1>2, RankFacts
  <2>3. RankOf(role', assign'[m]) < MaxSafe
    BY <1>1, <1>2, <2>1, <2>2, BoundAssumption
  <2> QED
    BY <1>2, <2>3, RankFacts
<1>12. ~(r \in assign[m] /\ role'[r].rank = role[r].rank)
  <2>1. \A s \in assign[m] : BestRank(m) <= role[s].rank
    BY <1>1, RankFacts
  <2>2. BestRank(m) \in Nat /\ BestRank(m)' \in Nat
    BY <1>1, <1>2, RankFacts
  <2> QED
    BY <1>11, <2>1, <2>2
<1>13. role'[r].rank > bnd[p].rank
  BY <1>9, <1>10, <1>12, CommitRanks
<1> QED
  BY <1>11, <1>13

\* With one transaction at a time no call of an actor that is not an owner gives
\* anyone, itself included, a rank as good as the actor's own: what
\* assertRoleMutation compared is what the commit writes.
THEOREM RanksCorrect ==
    ASSUME Isolation = "serial"
    PROVE  Spec => RankCeiling
<1>1. SerialInv /\ [Next]_vars => SerialInv'
  BY SerialStep
<1>2. SerialInv /\ SerialInv' /\ [Next]_vars => \A p \in Procs :
         pc[p] = "commit" /\ pc'[p] = "idle" /\ ~bnd[p].owner =>
         \A m \in Members : BestRank(m)' < BestRank(m) => BestRank(m)' > bnd[p].rank
  BY StepRanks
<1> QED
  BY <1>1, <1>2, InitSerial, PTL DEF Spec, RankCeiling
=============================================================================
