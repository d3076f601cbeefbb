-------------------------- MODULE IamRegistry_proofs --------------------------
(* The service against the registry that RoleRegistry specifies, for every     *)
(* number of requests, members, roles and names and whatever versions the      *)
(* clients expect.                                                             *)
(*                                                                             *)
(* A role operation reads the row, and the effects, before its compare-and-set. *)
(* A row read is the committed one unless the version moved on (RowsOK); so    *)
(* where it was read at the version that the compare-and-set then finds, which *)
(* the row lock keeps (LocksOK), the commit replaces what was read.  Such a    *)
(* commit is one change of the registry, of a row that the actor may change,   *)
(* with a true audit event, and keeps the reservations.                        *)
(*                                                                             *)
(* One transaction at a time, every row is read at that version: the service   *)
(* then implements the registry, with no exception.                            *)
EXTENDS IamTables_proofs

-----------------------------------------------------------------------------
(* The rows read. *)

\* A role that a request names exists, or did.
Known == \A p \in Procs : pc[p] # "idle" /\ req[p].op \in RoleOps =>
    Live(req[p].role) \/ Retired(req[p].role)

NamesInv == TypeInv /\ Known /\ RowsOK /\ NamesHeld

-----------------------------------------------------------------------------
(* The initial state. *)

\* The migration reserves the name of each role it writes, and no other.
LEMMA SeedReserved ==
    /\ \A r \in RoleIds : SeedRole[r] # Nil => SeedName[<<SeedRole[r].org, SeedRole[r].name>>] = r
    /\ \A k \in Keyed : SeedName[k] # Nil =>
         /\ SeedName[k] \in RoleIds /\ SeedRole[SeedName[k]] # Nil
         /\ <<SeedRole[SeedName[k]].org, SeedRole[SeedName[k]].name>> = k
<1> DEFINE Has(r, k) == SeedRole[r] # Nil /\ <<SeedRole[r].org, SeedRole[r].name>> = k
<1>1. \A k \in Keyed : SeedName[k] =
        IF \E r \in RoleIds : Has(r, k) THEN CHOOSE r \in RoleIds : Has(r, k) ELSE Nil
  BY DEF SeedName
<1>2. \A k \in Keyed : SeedName[k] # Nil => SeedName[k] \in RoleIds /\ Has(SeedName[k], k)
  <2> HIDE DEF Has
  <2> QED
    BY <1>1
<1>3. ASSUME NEW r \in RoleIds, SeedRole[r] # Nil
      PROVE  SeedName[<<SeedRole[r].org, SeedRole[r].name>>] = r
  <2> DEFINE k == <<SeedRole[r].org, SeedRole[r].name>>
  <2>1. k \in Keyed /\ Has(r, k)
    BY <1>3, SeedAssumption DEF RoleRows, Keyed
  <2>2. SeedName[k] \in RoleIds /\ Has(SeedName[k], k)
    <3> HIDE DEF Has, k
    <3>1. PICK s \in RoleIds : Has(s, k) /\ SeedName[k] = s
      BY <1>1, <2>1
    <3> QED
      BY <3>1
  <2>3. SeedRole[SeedName[k]].org = SeedRole[r].org /\ SeedRole[SeedName[k]].name = SeedRole[r].name
    BY <2>2
  <2> QED
    BY <1>3, <2>2, <2>3, SeedAssumption
<1> QED
  BY <1>2, <1>3

LEMMA InitNames == Init => NamesInv /\ NamesReserved
<1> SUFFICES ASSUME Init PROVE NamesInv /\ NamesReserved
  OBVIOUS
<1>1. \A p \in Procs : pc[p] = "idle"
  BY DEF Init
<1>2. Known /\ RowsOK /\ NamesHeld
  BY <1>1 DEF Known, RowsOK, NamesHeld, Targeted, Updating, HoldsName
<1>3. NamesReserved
  BY SeedReserved DEF Init, NamesReserved, Live, Id
<1> QED
  BY <1>2, <1>3, InitInv DEF NamesInv

-----------------------------------------------------------------------------
(* Requests that begin. *)

LEMMA BeginNames ==
    ASSUME NamesInv, NEW p \in Procs, Begin(p)
    PROVE  NamesInv'
<1> USE DEF NamesInv
<1>1. TypeInv'
  BY BeginInv
<1>2. PICK q \in Requests : IdsKnown(q) /\ req' = [req EXCEPT ![p] = q]
  BY AskedAssumption DEF Begin
<1>3. pc' = [pc EXCEPT ![p] = "boundary"] /\ UNCHANGED tables /\ UNCHANGED <<target, cur>>
  BY DEF Begin, locals
<1>4. /\ pc'[p] = "boundary" /\ req'[p] = q
      /\ \A o \in Procs \ {p} : pc'[o] = pc[o] /\ req'[o] = req[o]
  BY <1>2, <1>3 DEF TypeInv, TypeOK, RequestsTyped
<1>5. UNCHANGED <<role, nameRow>> /\ \A r : (Retired(r)' <=> Retired(r)) /\ (Live(r)' <=> Live(r))
  BY <1>3 DEF tables, Retired, Live
<1>6. Known'
  BY <1>2, <1>4, <1>5 DEF Known, IdsKnown
<1>7. RowsOK'
  <2>1. /\ ~Updating(p)' /\ ~Targeted(p)'
        /\ \A o \in Procs \ {p} : (Updating(o)' <=> Updating(o)) /\ (Targeted(o)' <=> Targeted(o))
    BY <1>4 DEF Updating, Targeted
  <2>2. \A o \in Procs \ {p} : Renames(o)' <=> Renames(o)
    BY <1>3, <1>4 DEF Renames
  <2> QED
    BY <1>3, <1>4, <1>5, <2>1, <2>2 DEF RowsOK, Remembers
<1>8. NamesHeld'
  <2>1. \A k : ~HoldsName(p, k)' /\ \A o \in Procs \ {p} : HoldsName(o, k)' <=> HoldsName(o, k)
    BY <1>3, <1>4 DEF HoldsName, NewKey, Renames
  <2> QED
    BY <1>5, <2>1 DEF NamesHeld, Others
<1> QED
  BY <1>1, <1>6, <1>7, <1>8

-----------------------------------------------------------------------------
(* The statements before the commit. *)

\* Only getRole and updateRole's read of its row change the rows a request has read.
LEMMA CurKept ==
    ASSUME TypeOK, NEW p \in Procs, Reads(p) \/ Locks(p) \/ Abort(p)
    PROVE  /\ \A o \in Procs \ {p} : /\ pc'[o] = pc[o] /\ req'[o] = req[o]
                                     /\ cur'[o] = cur[o] /\ target'[o] = target[o]
           /\ Answer(p) \/ ReadCurrent(p) \/ cur' = cur
           /\ Answer(p) \/ ReadTarget(p) \/ target' = target
<1>1. \A o \in Procs \ {p} : pc'[o] = pc[o] /\ req'[o] = req[o]
  BY QuietSteps DEF Answer, Goto, TypeOK, RequestsTyped
<1>2. Answer(p) \/ ReadCurrent(p) \/ cur' = cur
  BY DEF Reads, Locks, Abort, ReadBoundary, ReadTarget, Search, Reserve, ReadBefore, ReadRoles,
     ReadAssigned, ReadVersion, ListMembers, CasRole, Cascade, CasMember, ClearRoles, AssignRoles,
     Invalidate, Reject, locals
<1>3. Answer(p) \/ ReadTarget(p) \/ target' = target
  BY DEF Reads, Locks, Abort, ReadBoundary, ReadCurrent, Search, Reserve, ReadBefore, ReadRoles,
     ReadAssigned, ReadVersion, ListMembers, CasRole, Cascade, CasMember, ClearRoles, AssignRoles,
     Invalidate, Reject, locals
<1>4. \A o \in Procs \ {p} : cur'[o] = cur[o]
  BY <1>2 DEF Answer, ReadCurrent, Reject, TypeOK, RequestsTyped
<1>5. \A o \in Procs \ {p} : target'[o] = target[o]
  BY <1>3 DEF Answer, ReadTarget, Reject, TypeOK, RequestsTyped
<1> QED
  BY <1>1, <1>2, <1>3, <1>4, <1>5

\* An update reaches its write over four statements only.
LEMMA UpdatePath ==
    ASSUME TypeOK, NEW p \in Procs, Reads(p) \/ Locks(p) \/ Abort(p), ~Answer(p),
           pc'[p] \in {"search", "reserve", "cas", "commit"}, req[p].op = "update"
    PROVE  \/ ReadCurrent(p)
           \/ pc[p] = "search" /\ pc'[p] = "reserve"
           \/ pc[p] \in {"reserve", "cas"} /\ pc'[p] \in {"cas", "commit"}
<1> USE DEF TypeOK, RequestsTyped, Goto
<1>1. CASE ReadBoundary(p)
  BY <1>1 DEF ReadBoundary, Reject, First
<1>2. CASE ReadTarget(p)
  BY <1>2 DEF ReadTarget, Reject
<1>3. CASE ReadCurrent(p)
  BY <1>3
<1>4. CASE Reserve(p)
  BY <1>4 DEF Reserve, Reject
<1>5. CASE ReadBefore(p)
  BY <1>5 DEF ReadBefore, Reject, FlowOK, OpsAt
<1>6. CASE ReadRoles(p) \/ ReadAssigned(p)
  BY <1>6 DEF ReadRoles, ReadAssigned, Reject, FlowOK, OpsAt
<1>7. CASE ReadVersion(p) \/ Abort(p)
  BY <1>7 DEF ReadVersion, Abort
<1>8. CASE ListMembers(p)
  BY <1>8 DEF ListMembers
<1>9. CASE CasRole(p)
  BY <1>9 DEF CasRole, Reject
<1>10. CASE CasMember(p) \/ ClearRoles(p)
  BY <1>10 DEF CasMember, ClearRoles, FlowOK, OpsAt
<1>11. CASE AssignRoles(p)
  BY <1>11 DEF AssignRoles, FlowOK, OpsAt
<1>12. CASE Invalidate(p)
  BY <1>12 DEF Invalidate, FlowOK, OpsAt
<1>13. CASE Cascade(p)
  BY <1>13 DEF Cascade, FlowOK, OpsAt
<1>14. CASE Search(p)
  BY <1>14 DEF Search, Reject
<1> QED
  BY <1>1, <1>2, <1>3, <1>4, <1>5, <1>6, <1>7, <1>8, <1>9, <1>10, <1>11, <1>12, <1>13, <1>14
     DEF Reads, Locks

\* A creation reaches its commit from its reservation.
LEMMA CreatePath ==
    ASSUME TypeOK, NEW p \in Procs, Reads(p) \/ Locks(p) \/ Abort(p), ~Answer(p),
           pc'[p] = "commit", req[p].op = "create"
    PROVE  Reserve(p)
<1> USE DEF TypeOK, RequestsTyped, Goto
<1>1. CASE ReadBoundary(p)
  BY <1>1 DEF ReadBoundary, Reject, First
<1>2. CASE ReadTarget(p)
  BY <1>2 DEF ReadTarget, Reject
<1>3. CASE ReadCurrent(p)
  BY <1>3 DEF ReadCurrent, Reject
<1>4. CASE ReadBefore(p) \/ ReadRoles(p) \/ ReadAssigned(p)
  BY <1>4 DEF ReadBefore, ReadRoles, ReadAssigned, Reject
<1>5. CASE ReadVersion(p) \/ Abort(p)
  BY <1>5 DEF ReadVersion, Abort
<1>6. CASE ListMembers(p) \/ Cascade(p)
  BY <1>6 DEF ListMembers, Cascade, FlowOK, OpsAt
<1>7. CASE CasMember(p) \/ ClearRoles(p) \/ AssignRoles(p)
  BY <1>7 DEF CasMember, ClearRoles, AssignRoles, FlowOK, OpsAt
<1>8. CASE CasRole(p)
  BY <1>8 DEF CasRole, RoleOps
<1>9. CASE Invalidate(p)
  BY <1>9 DEF Invalidate, FlowOK, OpsAt
<1>10. CASE Search(p)
  BY <1>10 DEF Search, Reject
<1> QED
  BY <1>1, <1>2, <1>3, <1>4, <1>5, <1>6, <1>7, <1>8, <1>9, <1>10 DEF Reads, Locks

\* A role operation passes its target check before any other statement.
LEMMA TargetPath ==
    ASSUME TypeOK, NEW p \in Procs, Reads(p) \/ Locks(p) \/ Abort(p), ~Answer(p),
           req[p].op \in RoleOps, pc'[p] # "target"
    PROVE  /\ ~ReadBoundary(p)
           /\ \/ Targeted(p) /\ ~ReadTarget(p)
              \/ /\ ReadTarget(p) /\ TargetAllowed(req[p], bnd[p])
                 /\ target'[p] = role[req[p].role]
<1> USE DEF TypeOK, RequestsTyped, Goto
<1>1. ~ReadBoundary(p)
  BY DEF ReadBoundary, Reject, First, RoleOps
<1>2. CASE ReadTarget(p)
  BY <1>1, <1>2 DEF ReadTarget, Reject
<1>3. CASE ~ReadTarget(p)
  <2>1. pc[p] \notin {"idle", "boundary", "target"}
    BY <1>1, <1>3 DEF Reads, Locks, Abort, ReadCurrent, Search, Reserve, ReadBefore, ReadRoles,
       ReadAssigned, ReadVersion, ListMembers, CasRole, Cascade, CasMember, ClearRoles, AssignRoles,
       Invalidate
  <2> QED
    BY <1>1, <1>3, <2>1 DEF Targeted
<1> QED
  BY <1>1, <1>2, <1>3

LEMMA QuietKnown ==
    ASSUME TypeOK, Known, NEW p \in Procs, UNCHANGED tables, pc[p] # "idle",
           Answer(p) \/ (req' = req /\ \E label : Goto(p, label))
    PROVE  Known'
<1>1. \A o \in Procs : pc'[o] # "idle" => pc[o] # "idle" /\ req'[o] = req[o]
  BY DEF Answer, Goto, TypeOK, RequestsTyped
<1>2. \A r : (Retired(r)' <=> Retired(r)) /\ (Live(r)' <=> Live(r))
  BY DEF tables, Retired, Live
<1> QED
  BY <1>1, <1>2 DEF Known

LEMMA QuietRows ==
    ASSUME NamesInv, NEW p \in Procs, Reads(p) \/ Locks(p) \/ Abort(p)
    PROVE  RowsOK'
<1> USE DEF NamesInv, TypeInv
<1>1. UNCHANGED tables /\ (Answer(p) \/ (req' = req /\ \E label : Goto(p, label)))
  BY QuietSteps
<1>2. role' = role /\ \A r : Live(r)' <=> Live(r)
  BY <1>1 DEF tables, Live
<1>3. \A o \in Procs \ {p} : /\ pc'[o] = pc[o] /\ req'[o] = req[o]
                             /\ cur'[o] = cur[o] /\ target'[o] = target[o]
  BY CurKept
<1>4. \A r \in RoleIds : Live(r) => role[r].version \in Nat /\ Remembers(role[r], r)
  BY DEF TypeOK, TablesTyped, Live, RoleRows, Remembers
<1>5. \A o \in Procs \ {p} :
        /\ Targeted(o)' => Remembers(target'[o], req'[o].role)
        /\ Updating(o)' =>
             /\ Remembers(cur'[o], req'[o].role)
             /\ pc'[o] \in {"search", "reserve"} => Renames(o)'
  <2>1. \A o \in Procs \ {p} : /\ Updating(o)' <=> Updating(o)
                               /\ Targeted(o)' <=> Targeted(o)
                               /\ Renames(o)' <=> Renames(o)
    BY <1>3 DEF Updating, Targeted, Renames
  <2> QED
    BY <1>3, <2>1 DEF RowsOK
<1>6. ASSUME pc'[p] # "idle" PROVE ~Answer(p) /\ req'[p] = req[p]
  BY <1>1, <1>6 DEF Answer, Goto, TypeOK, RequestsTyped
<1>7. ASSUME Targeted(p)' PROVE Remembers(target'[p], req[p].role)
  <2>1. ~Answer(p) /\ req'[p] = req[p] /\ req[p].op \in RoleOps /\ pc'[p] # "target"
    BY <1>6, <1>7 DEF Targeted
  <2>2. CASE Targeted(p) /\ ~ReadTarget(p)
    BY <2>1, <2>2, CurKept DEF RowsOK
  <2>3. CASE TargetAllowed(req[p], bnd[p]) /\ target'[p] = role[req[p].role]
    BY <1>4, <2>3 DEF TargetAllowed, RolesIn
  <2> QED
    BY <2>1, <2>2, <2>3, TargetPath
<1>8. ASSUME Updating(p)'
      PROVE  /\ Remembers(cur'[p], req[p].role)
             /\ pc'[p] \in {"search", "reserve"} => Renames(p)'
  <2>1. /\ ~Answer(p) /\ req'[p] = req[p] /\ req[p].op = "update"
        /\ pc'[p] \in {"search", "reserve", "cas", "commit"}
    BY <1>6, <1>8 DEF Updating
  <2>2. CASE ReadCurrent(p)
    <3> DEFINE row == role[req[p].role]
    <3>1. /\ pc[p] = "current" /\ Live(req[p].role)
          /\ Goto(p, IF row.name # req[p].name THEN "search" ELSE "cas")
          /\ cur' = [cur EXCEPT ![p] = row]
      BY <2>1, <2>2 DEF ReadCurrent, Reject
    <3>2. req[p].role \in RoleIds
      <4>1. req[p] \in Requests
        BY <3>1 DEF TypeOK, FlowOK, RequestsTyped
      <4> QED
        BY <2>1, <4>1, RequestFields DEF RoleOps
    <3>3. cur'[p] = row /\ row # Nil
      BY <3>1, <3>2 DEF TypeOK, RequestsTyped, Live
    <3>4. pc'[p] \in {"search", "reserve"} => Renames(p)'
      BY <2>1, <3>1, <3>3 DEF Renames, Goto, TypeOK, RequestsTyped
    <3> QED
      BY <1>4, <3>1, <3>2, <3>3, <3>4
  <2>3. CASE ~ReadCurrent(p)
    <3>1. \/ pc[p] = "search" /\ pc'[p] = "reserve"
          \/ pc[p] \in {"reserve", "cas"} /\ pc'[p] \in {"cas", "commit"}
      BY <2>1, <2>3, UpdatePath
    <3>2. cur' = cur /\ Updating(p)
      BY <2>1, <2>3, <3>1, CurKept DEF Updating
    <3>3. Renames(p)' <=> Renames(p)
      BY <2>1, <3>2 DEF Renames
    <3> QED
      BY <2>1, <3>1, <3>2, <3>3 DEF RowsOK
  <2> QED
    BY <2>2, <2>3
<1>9. \A o \in Procs :
        /\ Targeted(o)' => Remembers(target'[o], req'[o].role)
        /\ Updating(o)' =>
             /\ Remembers(cur'[o], req'[o].role)
             /\ pc'[o] \in {"search", "reserve"} => Renames(o)'
  <2>1. Targeted(p)' \/ Updating(p)' => req'[p] = req[p]
    BY <1>6 DEF Targeted, Updating
  <2> QED
    BY <1>5, <1>7, <1>8, <2>1
<1> QED
  BY <1>2, <1>9 DEF RowsOK, Remembers

LEMMA QuietHeld ==
    ASSUME NamesInv, NEW p \in Procs, Reads(p) \/ Locks(p) \/ Abort(p)
    PROVE  NamesHeld'
<1> USE DEF NamesInv, TypeInv
<1>1. UNCHANGED tables /\ (Answer(p) \/ (req' = req /\ \E label : Goto(p, label)))
  BY QuietSteps
<1>2. nameRow' = nameRow
  BY <1>1 DEF tables
<1>3. \A o \in Procs \ {p} : pc'[o] = pc[o] /\ req'[o] = req[o] /\ cur'[o] = cur[o]
  BY CurKept
<1>4. \A o \in Procs \ {p} : \A k : HoldsName(o, k)' <=> HoldsName(o, k)
  BY <1>3 DEF HoldsName, NewKey, Renames
<1>5. ASSUME NEW k \in Keyed, HoldsName(p, k)'
      PROVE  HoldsName(p, k) \/ (nameRow[k] = Nil /\ \A o \in Others(p) : ~HoldsName(o, k))
  <2>1. /\ ~Answer(p) /\ req'[p] = req[p]
        /\ \/ pc'[p] = "commit" /\ req[p].op = "create"
           \/ pc'[p] \in {"cas", "commit"} /\ req[p].op = "update" /\ Renames(p)'
    BY <1>1, <1>5 DEF HoldsName, Answer, Goto, TypeOK, RequestsTyped
  <2>2. CASE Reserve(p)
    <3>1. /\ cur' = cur /\ req' = req /\ pc[p] = "reserve" /\ Unlocked(p)
          /\ CanReserve(req[p], NewKey(p))
      BY <2>1, <2>2 DEF Reserve, Reject, locals
    <3>2. k = NewKey(p)
      BY <1>5, <3>1 DEF HoldsName, NewKey
    <3> QED
      BY <3>1, <3>2 DEF CanReserve, Unlocked, Waits
  <2>3. CASE ReadCurrent(p)
    <3> DEFINE row == role[req[p].role]
    <3>1. /\ Goto(p, IF row.name # req[p].name THEN "search" ELSE "cas")
          /\ cur' = [cur EXCEPT ![p] = row] /\ req' = req /\ pc[p] = "current"
      BY <2>1, <2>3 DEF ReadCurrent, Reject
    <3>2. req[p].op = "update"
      BY <3>1 DEF TypeOK, FlowOK, OpsAt
    <3>3. cur'[p] = row /\ pc'[p] = IF row.name # req[p].name THEN "search" ELSE "cas"
      BY <3>1 DEF Goto, TypeOK, RequestsTyped
    <3> QED
      BY <2>1, <3>1, <3>2, <3>3 DEF Renames
  <2>4. CASE ~Reserve(p) /\ ~ReadCurrent(p)
    <3>1. req[p].op # "create" /\ req[p].op = "update"
      BY <2>1, <2>4, CreatePath
    <3>2. pc[p] \in {"reserve", "cas"} /\ cur' = cur
      BY <2>1, <2>4, <3>1, UpdatePath, CurKept
    <3>3. pc[p] = "cas"
      <4>1. pc[p] = "reserve" => ~Locks(p) /\ ~Reads(p)
        BY <2>1, <2>4 DEF Locks, CasRole, Cascade, CasMember, ClearRoles, AssignRoles, Invalidate,
           Reads, ReadBoundary, ReadTarget, Search, ReadBefore, ReadRoles, ReadAssigned,
           ReadVersion, ListMembers
      <4> QED
        BY <2>1, <3>2, <4>1 DEF Abort
    <3>4. NewKey(p)' = NewKey(p) /\ Renames(p)' = Renames(p)
      BY <2>1, <3>2 DEF NewKey, Renames
    <3> QED
      BY <1>5, <2>1, <3>1, <3>3, <3>4 DEF HoldsName
  <2> QED
    BY <2>2, <2>3, <2>4
<1>6. ASSUME NEW k \in Keyed, NEW o \in Procs, HoldsName(o, k)'
      PROVE  nameRow[k] = Nil /\ \A u \in Others(o) : ~HoldsName(u, k)'
  BY <1>4, <1>5, <1>6 DEF NamesHeld, Others
<1> QED
  BY <1>2, <1>6 DEF NamesHeld, Others

LEMMA QuietNames ==
    ASSUME NamesInv, NEW p \in Procs, Reads(p) \/ Locks(p) \/ Abort(p)
    PROVE  NamesInv'
<1>1. TypeInv'
  BY QuietInv DEF NamesInv
<1>2. Known'
  BY QuietSteps, QuietKnown DEF NamesInv, TypeInv
<1> QED
  BY <1>1, <1>2, QuietRows, QuietHeld DEF NamesInv

-----------------------------------------------------------------------------
(* The commits. *)

\* The row a role operation commits to is live, at the expected version.
LEMMA CommitHeld ==
    ASSUME TypeInv, NEW p \in Procs, Commits(p), req[p].op \in RoleOps
    PROVE  /\ req[p].role \in RoleIds /\ role[req[p].role] \in RoleRows
           /\ Live(req[p].role) /\ role[req[p].role].version = req[p].exp
<1>1. RowHeld(p)
  BY CommitShape DEF TypeInv, RowHeld, Wrote
<1>2. req[p].role \in RoleIds
  BY CommitShape, RequestFields DEF TypeInv
<1> QED
  BY <1>1, <1>2 DEF TypeInv, TypeOK, TablesTyped, LocksOK, Live

\* A commit removes a role for good, moves its version up or leaves it alone;
\* its organization and its protection never change.
LEMMA RowMoves ==
    ASSUME TypeInv, NEW p \in Procs, Commits(p), NEW r \in RoleIds
    PROVE  /\ Retired(r) => Retired(r)'
           /\ Live(r) => \/ ~Live(r)' /\ Retired(r)'
                         \/ Live(r)' /\ role'[r] = role[r]
                         \/ /\ Live(r)' /\ role'[r].version = role[r].version + 1
                            /\ role'[r].org = role[r].org /\ role'[r].prot = role[r].prot
           /\ ~Live(r) /\ Live(r)' => req[p].op = "create" /\ req[p].role = r
<1> USE DEF TypeInv
<1>1. /\ req[p].op \in RoleOps \cup {"create", "setMember"}
      /\ req[p].op = "setMember" \/ r # req[p].role => role'[r] = role[r]
      /\ Retired(r) => Retired(r)'
      /\ req[p].op = "delete" /\ r = req[p].role => Retired(r)'
  BY CommitShape
<1>2. CASE req[p].op = "setMember" \/ r # req[p].role
  BY <1>1, <1>2 DEF Live
<1>3. CASE req[p].op = "create" /\ r = req[p].role
  <2>1. Creating(p)
    BY <1>3, CommitShape DEF Creating
  <2> QED
    BY <1>1, <1>3, <2>1 DEF FreshOK
<1>4. CASE req[p].op \in RoleOps /\ r = req[p].role
  <2>0. role[r] \in RoleRows /\ Live(r)
    BY <1>4, CommitHeld
  <2>1. CASE CommitUpdate(p)
    <3>1. role' = Updated(role, r, req[p].name, req[p].rank)
      BY <1>4, <2>1 DEF CommitUpdate, Updated
    <3>2. /\ role'[r].version = role[r].version + 1 /\ role'[r] \in RoleRows
          /\ role'[r].org = role[r].org /\ role'[r].prot = role[r].prot
      <4>1. req[p].name \in Names /\ req[p].rank \in Ranks
        BY <2>1, CommitShape, RequestFields DEF CommitUpdate
      <4> QED
        BY <2>0, <3>1, <4>1, RowUpdated DEF TypeOK, TablesTyped
    <3> QED
      BY <1>1, <2>0, <3>2, NilAssumption DEF Live
  <2>2. CASE CommitPerms(p)
    <3>1. role' = [role EXCEPT ![r].version = @ + 1]
      BY <1>4, <2>2 DEF CommitPerms
    <3>2. /\ role'[r].version = role[r].version + 1 /\ role'[r] \in RoleRows
          /\ role'[r].org = role[r].org /\ role'[r].prot = role[r].prot
      BY <2>0, <3>1 DEF TypeOK, TablesTyped, RoleRows
    <3> QED
      BY <1>1, <2>0, <3>2, NilAssumption DEF Live
  <2>3. CASE CommitDelete(p)
    <3>1. role' = [role EXCEPT ![r] = Nil] /\ req[p].op = "delete"
      BY <1>4, <2>3 DEF CommitDelete
    <3> QED
      BY <1>1, <1>4, <2>0, <3>1 DEF Live, TypeOK, TablesTyped
  <2> QED
    BY <1>4, <2>1, <2>2, <2>3 DEF Commits, CommitCreate, CommitMember, RoleOps
<1> QED
  BY <1>1, <1>2, <1>3, <1>4

\* A commit ends its request and leaves the others where they are.
LEMMA CommitEnds ==
    ASSUME TypeInv, NEW p \in Procs, Commits(p)
    PROVE  /\ pc'[p] = "idle" /\ pc[p] = "commit"
           /\ \A o \in Procs \ {p} : /\ pc'[o] = pc[o] /\ req'[o] = req[o]
                                     /\ cur'[o] = cur[o] /\ target'[o] = target[o]
BY CommitShape DEF Answer, Goto, TypeInv, TypeOK, RequestsTyped

\* A role that a request in flight names is not created under it.
LEMMA NamedNotCreated ==
    ASSUME NamesInv, NEW p \in Procs, Commits(p), NEW o \in Procs, pc[o] # "idle",
           req[o].op \in RoleOps
    PROVE  /\ req[o].role \in RoleIds /\ req[o].exp \in Nat
           /\ role'[req[o].role] # Nil => Live(req[o].role) /\ role[req[o].role] \in RoleRows
<1>1. req[o] \in Requests
  BY DEF NamesInv, TypeInv, TypeOK, FlowOK, RequestsTyped
<1>2. PICK r \in RoleIds : r = req[o].role /\ req[o].exp \in Nat
  BY <1>1, RequestFields
<1>3. ASSUME role'[r] # Nil PROVE Live(r)
  <2>1. SUFFICES ASSUME ~Live(r) PROVE FALSE
    OBVIOUS
  <2>2. Live(r)'
    BY <1>3 DEF Live
  <2>3. Creating(p) /\ req[p].role = r
    BY <2>1, <2>2, RowMoves, CommitEnds DEF NamesInv, Creating
  <2>4. Retired(r)
    BY <1>2, <2>1 DEF NamesInv, Known
  <2> QED
    BY <2>3, <2>4 DEF NamesInv, TypeInv, FreshOK
<1> QED
  BY <1>2, <1>3 DEF NamesInv, TypeInv, TypeOK, TablesTyped, Live

\* A commit leaves the row and the effects that another request names alone, or
\* moves the row's version up.
LEMMA CommitMoves ==
    ASSUME NamesInv, NEW p \in Procs, Commits(p), NEW o \in Procs \ {p}, pc[o] # "idle",
           req[o].op \in RoleOps, NEW r, r = req[o].role, role'[r] # Nil
    PROVE  /\ r \in RoleIds /\ Live(r) /\ role[r] \in RoleRows
           /\ role'[r].org = role[r].org /\ role'[r].prot = role[r].prot
           /\ \/ role'[r] = role[r] /\ perm'[r] = perm[r]
              \/ role'[r].version = role[r].version + 1
<1> USE DEF NamesInv, TypeInv, TypeOK, TablesTyped
<1>1. r \in RoleIds /\ Live(r) /\ role[r] \in RoleRows
  BY NamedNotCreated
<1>2. \/ role'[r] = role[r]
      \/ /\ role'[r].version = role[r].version + 1
         /\ role'[r].org = role[r].org /\ role'[r].prot = role[r].prot
  BY <1>1, RowMoves DEF Live
<1>3. role'[r] = role[r] => role'[r].version # role[r].version + 1
  BY <1>1 DEF RoleRows
<1>4. ASSUME role'[r].version # role[r].version + 1
      PROVE  perm'[r] = perm[r]
  <2>1. CASE CommitDelete(p)
    BY <1>1, <2>1 DEF CommitDelete
  <2>2. CASE CommitPerms(p)
    <3>1. r # req[p].role
      BY <1>1, <1>4, <2>2 DEF CommitPerms, RoleRows
    <3> QED
      BY <1>1, <2>2, <3>1 DEF CommitPerms
  <2> QED
    BY <2>1, <2>2 DEF Commits, CommitCreate, CommitUpdate, CommitMember
<1> QED
  BY <1>1, <1>2, <1>4

LEMMA CommitKnown ==
    ASSUME NamesInv, NEW p \in Procs, Commits(p)
    PROVE  Known'
<1> USE DEF NamesInv
<1> SUFFICES ASSUME NEW o \in Procs, pc'[o] # "idle", req'[o].op \in RoleOps
             PROVE  Live(req[o].role)' \/ Retired(req[o].role)'
  BY DEF Known, Live, Retired
<1>1. o # p /\ pc'[o] = pc[o] /\ req'[o] = req[o]
  BY CommitEnds
<1>2. PICK r \in RoleIds : r = req[o].role
  BY <1>1, NamedNotCreated
<1>3. Live(r) \/ Retired(r)
  BY <1>1, <1>2 DEF Known
<1>4. Live(r)' \/ Retired(r)'
  BY <1>3, RowMoves
<1> QED
  BY <1>1, <1>2, <1>4 DEF Live, Retired

LEMMA CommitRows ==
    ASSUME NamesInv, NEW p \in Procs, Commits(p)
    PROVE  RowsOK'
<1> USE DEF NamesInv, TypeInv
<1>1. \A o \in Procs : pc'[o] # "idle" =>
        o # p /\ pc'[o] = pc[o] /\ req'[o] = req[o] /\ cur'[o] = cur[o] /\ target'[o] = target[o]
  BY CommitEnds
<1>2. ASSUME NEW o \in Procs \ {p}, pc[o] # "idle", req[o].op \in RoleOps,
             NEW row \in RoleRows, Remembers(row, req[o].role), role'[req[o].role] # Nil
      PROVE  /\ row.version <= role'[req[o].role].version
             /\ row.version = role'[req[o].role].version => row = role'[req[o].role]
  <2>1. PICK r : r = req[o].role
    OBVIOUS
  <2>2. /\ Live(r) /\ role[r] \in RoleRows
        /\ role'[r] = role[r] \/ role'[r].version = role[r].version + 1
    BY <1>2, <2>1, CommitMoves
  <2>3. row.version <= role[r].version /\ (row.version = role[r].version => row = role[r])
    BY <1>2, <2>1, <2>2 DEF Remembers
  <2>4. row.version \in Nat /\ role[r].version \in Nat
    BY <2>2 DEF RoleRows
  <2> QED
    BY <2>1, <2>2, <2>3, <2>4
<1>3. ASSUME NEW o \in Procs, Targeted(o)' PROVE Remembers(target[o], req[o].role)'
  <2>1. o # p /\ Targeted(o) /\ pc[o] # "idle" /\ req[o].op \in RoleOps
    BY <1>1, <1>3 DEF Targeted
  <2>2. target[o] \in RoleRows /\ Remembers(target[o], req[o].role)
    BY <2>1 DEF TypeOK, FlowOK, RequestsTyped, RowsOK
  <2>3. req'[o] = req[o] /\ target'[o] = target[o]
    BY <1>1, <1>3 DEF Targeted
  <2> QED
    BY <1>2, <2>1, <2>2, <2>3 DEF Remembers, Live
<1>4. ASSUME NEW o \in Procs, Updating(o)'
      PROVE  /\ Remembers(cur[o], req[o].role)'
             /\ pc'[o] \in {"search", "reserve"} => Renames(o)'
  <2>1. o # p /\ Updating(o) /\ pc[o] # "idle" /\ req[o].op \in RoleOps
    BY <1>1, <1>4 DEF Updating, RoleOps
  <2>2. cur[o] \in RoleRows /\ Remembers(cur[o], req[o].role)
    BY <2>1 DEF TypeOK, FlowOK, RequestsTyped, RowsOK
  <2>3. pc'[o] = pc[o] /\ req'[o] = req[o] /\ cur'[o] = cur[o]
    BY <1>1, <1>4 DEF Updating
  <2>4. pc'[o] \in {"search", "reserve"} => Renames(o)'
    BY <2>1, <2>3 DEF RowsOK, Renames
  <2>5. Remembers(cur[o], req[o].role)'
    BY <1>2, <2>1, <2>2, <2>3 DEF Remembers, Live
  <2> QED
    BY <2>4, <2>5
<1> QED
  BY <1>3, <1>4 DEF RowsOK

\* The reservations a commit writes: the new key, held until now, and the
\* removal of the key of the row it replaces.
LEMMA CommitKeys ==
    ASSUME NamesInv, NEW p \in Procs, Commits(p), NEW k \in Keyed, nameRow'[k] # nameRow[k]
    PROVE  HoldsName(p, k) \/ nameRow'[k] = Nil
<1> USE DEF NamesInv, TypeInv, TypeOK, TablesTyped
<1>1. CASE CommitCreate(p)
  BY <1>1 DEF CommitCreate, HoldsName
<1>2. CASE CommitUpdate(p)
  <2> DEFINE old == OldKey(p)
  <2>1. /\ Renames(p) /\ req[p].op = "update" /\ pc[p] = "commit"
        /\ nameRow' = [nameRow EXCEPT ![NewKey(p)] = req[p].role, ![old] = Nil]
    BY <1>2 DEF CommitUpdate
  <2> HIDE DEF old
  <2>2. k = NewKey(p) \/ nameRow'[k] = Nil
    BY <2>1
  <2> QED
    BY <2>1, <2>2 DEF HoldsName
<1>3. CASE CommitDelete(p)
  BY <1>3 DEF CommitDelete
<1>4. CASE CommitPerms(p) \/ CommitMember(p)
  BY <1>4 DEF CommitPerms, CommitMember
<1> QED
  BY <1>1, <1>2, <1>3, <1>4 DEF Commits

LEMMA CommitNamesHeld ==
    ASSUME NamesInv, NEW p \in Procs, Commits(p)
    PROVE  NamesHeld'
<1> SUFFICES ASSUME NEW o \in Procs, NEW k \in Keyed, HoldsName(o, k)'
             PROVE  nameRow'[k] = Nil /\ \A u \in Others(o) : ~HoldsName(u, k)'
  BY DEF NamesHeld, Others
<1>1. \A u \in Procs : HoldsName(u, k)' => u # p /\ HoldsName(u, k)
  <2>1. \A u \in Procs \ {p} : HoldsName(u, k)' <=> HoldsName(u, k)
    BY CommitEnds DEF NamesInv, HoldsName, NewKey, Renames
  <2>2. ~HoldsName(p, k)'
    BY CommitEnds DEF NamesInv, HoldsName
  <2> QED
    BY <2>1, <2>2
<1>2. nameRow[k] = Nil /\ ~HoldsName(p, k) /\ \A u \in Others(o) : ~HoldsName(u, k)
  BY <1>1 DEF NamesInv, NamesHeld, Others
<1>3. nameRow'[k] = Nil
  BY <1>2, CommitKeys
<1> QED
  BY <1>1, <1>2, <1>3 DEF Others

LEMMA CommitNames ==
    ASSUME NamesInv, NEW p \in Procs, Commits(p)
    PROVE  NamesInv'
BY CommitInv, CommitKnown, CommitRows, CommitNamesHeld DEF NamesInv

-----------------------------------------------------------------------------
(* The invariant. *)

LEMMA IdleNames ==
    ASSUME NamesInv, UNCHANGED <<role, nameRow, audit, pc, req, target, cur>>, TypeInv'
    PROVE  NamesInv'
BY DEF NamesInv, Known, RowsOK, Remembers, NamesHeld, Retired, Live, Id, Targeted, Updating, Renames,
   HoldsName, NewKey, Others

LEMMA NamesStep == NamesInv /\ [Next]_vars => NamesInv'
<1> SUFFICES ASSUME NamesInv, [Next]_vars PROVE NamesInv'
  OBVIOUS
<1>0. TypeInv'
  BY NextInv DEF NamesInv
<1>1. ASSUME NEW p \in Procs, Begin(p) PROVE NamesInv'
  BY <1>1, BeginNames
<1>2. ASSUME NEW p \in Procs, Step(p) \/ Abort(p) PROVE NamesInv'
  BY <1>2, StepCases, QuietNames, CommitNames
<1>3. ASSUME NEW m \in Clients, LoadAbility(m) PROVE NamesInv'
  BY <1>0, <1>3, IdleNames DEF LoadAbility, locals
<1>4. CASE UNCHANGED vars
  BY <1>0, <1>4, IdleNames DEF vars
<1> QED
  BY <1>1, <1>2, <1>3, <1>4 DEF Next

-----------------------------------------------------------------------------
(* The reservations. *)

\* A row read at the version that the compare-and-set found is the committed row.
LEMMA CommitReadsTarget ==
    ASSUME NamesInv, NEW p \in Procs, Commits(p), req[p].op \in RoleOps,
           ReadAtExpected(target[p], p)
    PROVE  target[p] = role[req[p].role]
<1>1. Targeted(p)
  BY CommitShape DEF NamesInv, TypeInv, Targeted
<1> QED
  BY <1>1, CommitHeld DEF NamesInv, RowsOK, Remembers, ReadAtExpected

LEMMA CommitReadsCurrent ==
    ASSUME NamesInv, NEW p \in Procs, CommitUpdate(p), ReadAtExpected(cur[p], p)
    PROVE  /\ req[p].role \in RoleIds /\ Live(req[p].role)
           /\ cur[p] = role[req[p].role] /\ cur[p] \in RoleRows /\ cur[p] # Nil
<1>1. Commits(p) /\ req[p].op = "update" /\ pc[p] = "commit"
  BY DEF Commits, CommitUpdate
<1>2. /\ req[p].role \in RoleIds /\ Live(req[p].role)
      /\ role[req[p].role].version = req[p].exp
  BY <1>1, CommitHeld DEF NamesInv, RoleOps
<1>3. Updating(p)
  BY <1>1 DEF Updating
<1>4. cur[p] = role[req[p].role]
  BY <1>2, <1>3 DEF NamesInv, RowsOK, Remembers, ReadAtExpected
<1>5. cur[p] \in RoleRows /\ cur[p] # Nil
  BY <1>1, <1>3 DEF NamesInv, TypeInv, TypeOK, FlowOK, RequestsTyped
<1> QED
  BY <1>2, <1>4, <1>5

\* The four ways a commit changes the roles or the reservations.
LEMMA CreateReserves ==
    ASSUME NamesInv, NamesReserved, NEW p \in Procs, CommitCreate(p)
    PROVE  NamesReserved'
<1> USE DEF NamesInv, TypeInv, TypeOK, TablesTyped
<1>1. PICK r \in RoleIds : r = req[p].role
  <2>1. req[p] \in Requests /\ req[p].op = "create"
    BY DEF CommitCreate, FlowOK, RequestsTyped
  <2> QED
    BY <2>1, RequestFields
<1>2. PICK key \in Keyed : key = NewKey(p)
  <2>1. req[p] \in Requests /\ req[p].op = "create"
    BY DEF CommitCreate, FlowOK, RequestsTyped
  <2> QED
    BY <2>1, RequestFields, BoundAssumption DEF NewKey, Keyed
<1>3. ~Live(r) /\ nameRow[key] = Nil
  <2>1. HoldsName(p, key) /\ Creating(p)
    BY <1>2 DEF CommitCreate, HoldsName, Creating
  <2> QED
    BY <1>1, <2>1 DEF FreshOK, NamesHeld
<1>4. /\ nameRow' = [nameRow EXCEPT ![key] = r]
      /\ \A s \in RoleIds \ {r} : role'[s] = role[s]
      /\ role'[r] # Nil => <<role'[r].org, role'[r].name>> = key
  BY <1>1, <1>2 DEF CommitCreate, NewKey
<1>5. role'[r] # Nil
  <2>1. TypeOK'
    BY CommitsTyped
  <2> DEFINE row == [org |-> req[p].actor.org, name |-> req[p].name, rank |-> req[p].rank,
                     prot |-> FALSE, version |-> 0]
  <2>2. role'[r] = row
    BY <1>1 DEF CommitCreate
  <2>3. req[p] \in Requests /\ req[p].op = "create"
    BY DEF CommitCreate, FlowOK, RequestsTyped
  <2>4. row \in RoleRows
    BY <2>3, RequestFields, BoundAssumption DEF RoleRows
  <2> QED
    BY <2>2, <2>4, NilAssumption
<1>6. r # Nil
  BY NilAssumption
<1>7. nameRow'[key] = r /\ \A k \in Keyed \ {key} : nameRow'[k] = nameRow[k]
  BY <1>4
<1>8. ASSUME NEW s \in RoleIds, role'[s] # Nil
      PROVE  nameRow'[<<role'[s].org, role'[s].name>>] = s
  <2>1. CASE s = r
    BY <1>4, <1>5, <1>7, <2>1
  <2>2. CASE s # r
    <3>1. role'[s] = role[s] /\ nameRow[<<role[s].org, role[s].name>>] = s
      BY <1>4, <1>8, <2>2 DEF NamesReserved, Live, Id
    <3>2. <<role[s].org, role[s].name>> \in Keyed
      BY <1>8, <3>1 DEF Keyed, RoleRows
    <3> QED
      BY <1>3, <1>7, <3>1, <3>2, NilAssumption
  <2> QED
    BY <2>1, <2>2
<1>9. ASSUME NEW k \in Keyed, nameRow'[k] # Nil
      PROVE  role'[nameRow'[k]] # Nil
             /\ <<role'[nameRow'[k]].org, role'[nameRow'[k]].name>> = k
  <2>1. CASE k = key
    BY <1>4, <1>5, <1>7, <2>1
  <2>2. CASE k # key
    <3>1. nameRow'[k] = nameRow[k] /\ nameRow[k] \in RoleIds
      BY <1>7, <1>9, <2>2
    <3>2. role[nameRow[k]] # Nil /\ <<role[nameRow[k]].org, role[nameRow[k]].name>> = k
      BY <1>9, <3>1 DEF NamesReserved, Live, Id
    <3> QED
      BY <1>3, <1>4, <3>1, <3>2 DEF Live
  <2> QED
    BY <2>1, <2>2
<1> QED
  BY <1>8, <1>9 DEF NamesReserved, Live, Id

LEMMA RenameReserves ==
    ASSUME NamesInv, NamesReserved, NEW p \in Procs, CommitUpdate(p),
           ReadAtExpected(cur[p], p)
    PROVE  NamesReserved'
<1> USE DEF NamesInv, TypeInv, TypeOK, TablesTyped
<1>1. PICK r \in RoleIds : /\ r = req[p].role /\ Live(r) /\ cur[p] = role[r]
                           /\ cur[p] \in RoleRows /\ cur[p] # Nil
  BY CommitReadsCurrent
<1>2. req[p] \in Requests /\ req[p].op = "update" /\ pc[p] = "commit"
  BY DEF CommitUpdate, FlowOK, RequestsTyped
<1>3. /\ \A s \in RoleIds \ {r} : role'[s] = role[s]
      /\ role'[r] \in RoleRows /\ role'[r].org = role[r].org /\ role'[r].name = req[p].name
  <2>1. role' = Updated(role, r, req[p].name, req[p].rank)
    BY <1>1 DEF CommitUpdate, Updated
  <2>2. req[p].name \in Names /\ req[p].rank \in Ranks
    BY <1>2, RequestFields
  <2> QED
    BY <1>1, <2>1, <2>2, RowUpdated
<1>4. role'[r] # Nil /\ r # Nil
  BY <1>3, NilAssumption
<1>5. CASE ~Renames(p)
  <2>1. nameRow' = nameRow /\ role'[r].name = role[r].name
    BY <1>1, <1>3, <1>5 DEF CommitUpdate, Renames
  <2> QED
    BY <1>1, <1>3, <1>4, <2>1 DEF NamesReserved, Live, Id
<1>6. CASE Renames(p)
  <2>1. PICK old \in Keyed : old = <<role[r].org, role[r].name>>
    BY <1>1 DEF Keyed, RoleRows
  <2>2. PICK key \in Keyed : key = NewKey(p) /\ key = <<role[r].org, req[p].name>>
    BY <1>1, <1>2, RequestFields DEF Keyed, RoleRows, NewKey
  <2>3. key # old
    BY <1>1, <1>6, <2>1, <2>2 DEF Renames
  <2>4. nameRow[key] = Nil /\ nameRow[old] = r
    <3>1. HoldsName(p, key)
      BY <1>2, <1>6, <2>2 DEF HoldsName
    <3> QED
      BY <1>1, <2>1, <3>1 DEF NamesHeld, NamesReserved, Id
  <2>5. nameRow' = [nameRow EXCEPT ![key] = r, ![old] = Nil]
    BY <1>1, <1>6, <2>1, <2>2 DEF CommitUpdate, OldKey
  <2>6. nameRow'[key] = r /\ nameRow'[old] = Nil
        /\ \A k \in Keyed \ {key, old} : nameRow'[k] = nameRow[k]
    BY <2>3, <2>5
  <2>7. ASSUME NEW s \in RoleIds, role'[s] # Nil
        PROVE  nameRow'[<<role'[s].org, role'[s].name>>] = s
    <3>1. CASE s = r
      BY <1>3, <2>2, <2>6, <3>1
    <3>2. CASE s # r
      <4>1. role'[s] = role[s] /\ nameRow[<<role[s].org, role[s].name>>] = s
        BY <1>3, <2>7, <3>2 DEF NamesReserved, Live, Id
      <4>2. <<role[s].org, role[s].name>> \in Keyed
        BY <2>7, <4>1 DEF Keyed, RoleRows
      <4> QED
        BY <2>4, <2>6, <3>2, <4>1, <4>2, NilAssumption
    <3> QED
      BY <3>1, <3>2
  <2>8. ASSUME NEW k \in Keyed, nameRow'[k] # Nil
        PROVE  role'[nameRow'[k]] # Nil
               /\ <<role'[nameRow'[k]].org, role'[nameRow'[k]].name>> = k
    <3>1. CASE k = key
      BY <1>3, <1>4, <2>2, <2>6, <3>1
    <3>2. CASE k \notin {key, old}
      <4>1. nameRow'[k] = nameRow[k] /\ nameRow[k] \in RoleIds
        BY <2>6, <2>8, <3>2
      <4>2. role[nameRow[k]] # Nil /\ <<role[nameRow[k]].org, role[nameRow[k]].name>> = k
        BY <2>8, <4>1 DEF NamesReserved, Live, Id
      <4>3. nameRow[k] # r
        BY <2>1, <3>2, <4>2
      <4> QED
        BY <1>3, <4>1, <4>2, <4>3
    <3> QED
      BY <2>6, <2>8, <3>1, <3>2
  <2> QED
    BY <2>7, <2>8 DEF NamesReserved, Live, Id
<1> QED
  BY <1>5, <1>6

LEMMA DeleteReserves ==
    ASSUME NamesInv, NamesReserved, NEW p \in Procs, CommitDelete(p)
    PROVE  NamesReserved'
<1>0. /\ role \in [RoleIds -> RoleRows \cup {Nil}] /\ nameRow \in [Keyed -> RoleIds \cup {Nil}]
      /\ NamesReserved
  BY DEF NamesInv, TypeInv, TypeOK, TablesTyped
<1>1. PICK r \in RoleIds : r = req[p].role /\ Live(r)
  BY CommitHeld DEF Commits, CommitDelete, RoleOps, NamesInv, TypeInv
<1>2. /\ \A s \in RoleIds : role'[s] = IF s = r THEN Nil ELSE role[s]
      /\ \A k \in Keyed : nameRow'[k] = IF nameRow[k] = r THEN Nil ELSE nameRow[k]
  BY <1>0, <1>1 DEF CommitDelete
<1>3. ASSUME NEW s \in RoleIds, Live(s)'
      PROVE  nameRow'[Id(s)'] = s
  <2>1. s # r /\ Live(s) /\ Id(s)' = Id(s)
    BY <1>2, <1>3 DEF Live, Id
  <2>2. nameRow[Id(s)] = s
    BY <1>0, <2>1 DEF NamesReserved
  <2>3. Id(s) \in Keyed
    BY <1>0, <2>1 DEF Live, Id, RoleRows, Keyed
  <2> QED
    BY <1>2, <2>1, <2>2, <2>3
<1>4. ASSUME NEW k \in Keyed, nameRow'[k] # Nil
      PROVE  (Live(nameRow[k]) /\ Id(nameRow[k]) = k)'
  <2>1. nameRow'[k] = nameRow[k] /\ nameRow[k] # r /\ nameRow[k] # Nil /\ nameRow[k] \in RoleIds
    BY <1>0, <1>2, <1>4
  <2>2. Live(nameRow[k]) /\ Id(nameRow[k]) = k
    BY <1>0, <2>1 DEF NamesReserved
  <2> QED
    BY <1>2, <2>1, <2>2 DEF Live, Id
<1> QED
  BY <1>3, <1>4 DEF NamesReserved

LEMMA PermsReserves ==
    ASSUME NamesInv, NamesReserved, NEW p \in Procs, CommitPerms(p)
    PROVE  NamesReserved'
<1> USE DEF NamesInv, TypeInv, TypeOK, TablesTyped
<1>1. PICK r \in RoleIds : r = req[p].role /\ Live(r) /\ role[r] \in RoleRows
  BY CommitHeld DEF Commits, CommitPerms, RoleOps
<1>2. role' = [role EXCEPT ![r].version = @ + 1] /\ nameRow' = nameRow
  BY <1>1 DEF CommitPerms
<1>3. /\ \A s \in RoleIds \ {r} : role'[s] = role[s]
      /\ role'[r] \in RoleRows /\ role'[r].org = role[r].org /\ role'[r].name = role[r].name
  BY <1>1, <1>2 DEF RoleRows
<1>4. \A s \in RoleIds : (Live(s) <=> Live(s)') /\ Id(s)' = Id(s)
  BY <1>1, <1>3, NilAssumption DEF Live, Id
<1>5. NamesReserved /\ nameRow \in [Keyed -> RoleIds \cup {Nil}]
  OBVIOUS
<1> QED
  BY ONLY <1>2, <1>4, <1>5 DEF NamesReserved

\* The event of a role operation is new to the audit log, which has one event per
\* version and one per deletion.
LEMMA CommitTells ==
    ASSUME AuditInv, NEW p \in Procs, Commits(p), req[p].op \in RoleOps
    PROVE  Changes(p)
<1> USE DEF AuditInv, TypeInv
<1> DEFINE r == req[p].role
<1>1. r \in RoleIds /\ Live(r) /\ role[r] \in RoleRows /\ role[r].version = req[p].exp
  BY CommitHeld
<1>2. pc[p] = "commit" /\ pc'[p] = "idle"
  BY CommitEnds
<1>3. PICK v \in Nat : v = role[r].version
  BY <1>1 DEF RoleRows
<1>4. \A e \in RoleSteps(r) : e.to \in 1 .. v
  BY <1>1, <1>3 DEF AuditTellsVersions, Numbered
<1>5. CASE CommitUpdate(p) \/ CommitPerms(p)
  <2>1. PICK e : /\ e.type \in {"IAM_ROLE_UPDATED", "IAM_ROLE_PERMISSIONS_CHANGED"}
                 /\ e.target = r /\ e.to = v + 1 /\ audit' = audit \cup {e}
    <3>1. CASE CommitUpdate(p)
      <4> DEFINE ev == Event("IAM_ROLE_UPDATED", r, req[p].exp, v + 1, Nil)
      <4>1. audit' = audit \cup {ev}
        BY <1>3, <3>1 DEF CommitUpdate, Logged
      <4>2. ev.type = "IAM_ROLE_UPDATED" /\ ev.target = r /\ ev.to = v + 1
        BY DEF Event
      <4> HIDE DEF ev
      <4> QED
        BY <4>1, <4>2
    <3>2. CASE CommitPerms(p)
      <4> DEFINE ev == Event("IAM_ROLE_PERMISSIONS_CHANGED", r, req[p].exp, v + 1,
                             DiffEffects(seen[p], req[p].perm))
      <4>1. audit' = audit \cup {ev}
        BY <1>3, <3>2 DEF CommitPerms, Logged
      <4>2. ev.type = "IAM_ROLE_PERMISSIONS_CHANGED" /\ ev.target = r /\ ev.to = v + 1
        BY DEF Event
      <4> HIDE DEF ev
      <4> QED
        BY <4>1, <4>2
    <3> QED
      BY <1>5, <3>1, <3>2
  <2>2. e \notin audit
    BY <1>4, <2>1 DEF RoleSteps
  <2> QED
    BY <1>2, <2>1, <2>2 DEF Changes
<1>6. CASE CommitDelete(p)
  <2>1. PICK e : e.type = "IAM_ROLE_DELETED" /\ e.target = r /\ audit' = audit \cup {e}
    BY <1>6 DEF CommitDelete, Logged, Event
  <2>2. e \notin audit
    BY <1>1, <2>1 DEF FreshOK, Retired
  <2> QED
    BY <1>2, <2>1, <2>2 DEF Changes
<1> QED
  BY <1>5, <1>6 DEF Commits, CommitCreate, CommitMember, RoleOps

LEMMA NamesKeptStep ==
    ASSUME NamesInv, AuditInv, [Next]_vars, NamesReserved
    PROVE  \/ NamesReserved'
           \/ \E p \in Procs : Changes(p) /\ req[p].op = "update" /\ ~ReadAtExpected(cur[p], p)
<1>1. UNCHANGED <<role, nameRow>> => NamesReserved'
  BY DEF NamesReserved, Live, Id
<1>2. ASSUME NEW p \in Procs, Begin(p) PROVE UNCHANGED <<role, nameRow>>
  BY <1>2 DEF Begin, tables
<1>3. ASSUME NEW p \in Procs, Reads(p) \/ Locks(p) \/ Abort(p) PROVE UNCHANGED <<role, nameRow>>
  BY <1>3, QuietSteps DEF NamesInv, TypeInv, tables
<1>4. ASSUME NEW m \in Clients, LoadAbility(m) PROVE UNCHANGED <<role, nameRow>>
  BY <1>4 DEF LoadAbility
<1>5. CASE UNCHANGED vars
  BY <1>1, <1>5 DEF vars
<1>6. ASSUME NEW p \in Procs, Commits(p)
      PROVE  NamesReserved' \/ (Changes(p) /\ req[p].op = "update" /\ ~ReadAtExpected(cur[p], p))
  <2>1. CASE CommitMember(p)
    BY <1>1, <2>1 DEF CommitMember
  <2>2. CASE CommitUpdate(p) /\ ~ReadAtExpected(cur[p], p)
    BY <1>6, <2>2, CommitTells DEF CommitUpdate, RoleOps
  <2> QED
    BY <1>6, <2>1, <2>2, CreateReserves, RenameReserves, DeleteReserves, PermsReserves DEF Commits
<1> QED
  BY <1>1, <1>2, <1>3, <1>4, <1>5, <1>6, StepCases DEF Next

\* The iamRoleName table mirrors the live roles, so that role names stay unique
\* within an organization: createRole, updateRole and deleteRole neither lose nor
\* leak a reservation, whatever else is in flight and at either isolation level,
\* except where updateRole of the store read its row before the version that the
\* client expects came up.
THEOREM NamesCorrect == Spec => NamesKept
<1>1. NamesInv /\ [Next]_vars => NamesInv'
  BY NamesStep
<1>2. AuditInv /\ [Next]_vars => AuditInv'
  BY AuditStep
<1>3. ASSUME NamesInv, AuditInv, [Next]_vars
      PROVE  [NamesReserved =>
                 \/ NamesReserved'
                 \/ \E p \in Procs :
                      Changes(p) /\ req[p].op = "update" /\ ~ReadAtExpected(cur[p], p)]_vars
  BY <1>3, NamesKeptStep
<1> QED
  BY <1>1, <1>2, <1>3, InitNames, InitAudit, PTL DEF Spec, NamesKept

-----------------------------------------------------------------------------
(* Checks. *)

\* getRole allowed the row that it answered, of which the committed row keeps
\* the organization and the protection.
AllowedOK ==
    \A p \in Procs : Targeted(p) =>
        LET row == target[p]
        IN  /\ MayChange(bnd[p], row.org, row.rank, row.prot, {})
            /\ req[p].op = "update" => MayChange(bnd[p], row.org, req[p].rank, row.prot, {})
            /\ Live(req[p].role) => /\ role[req[p].role].org = row.org
                                    /\ role[req[p].role].prot = row.prot

EffectsOK ==
    \A p \in Procs : pc[p] \notin {"idle", "boundary"} /\ req[p].op = "setPerms" =>
        KnownEffects(req[p].perm)

Comparing(p) == pc[p] \in {"cas", "list", "invalidate", "commit"} /\ req[p].op = "setPerms"

\* At the version that getRole answered the effects are still those that
\* setRolePermissions read next.
SeenOK ==
    \A p \in Procs : Comparing(p) =>
        /\ seen[p] # req[p].perm
        /\ Live(req[p].role) /\ role[req[p].role].version = target[p].version =>
             seen[p] = perm[req[p].role]

CheckedInv == NamesInv /\ AllowedOK /\ EffectsOK /\ SeenOK

-----------------------------------------------------------------------------
(* What was read stays what it was. *)

LEMMA InitChecked == Init => CheckedInv
<1> SUFFICES ASSUME Init PROVE CheckedInv
  OBVIOUS
<1>1. \A p \in Procs : pc[p] = "idle"
  BY DEF Init
<1> QED
  BY <1>1, InitNames DEF CheckedInv, AllowedOK, EffectsOK, SeenOK, Targeted, Comparing

LEMMA BeginChecked ==
    ASSUME CheckedInv, NEW p \in Procs, Begin(p)
    PROVE  CheckedInv'
<1> USE DEF CheckedInv, NamesInv, TypeInv
<1>1. NamesInv'
  BY BeginNames
<1>2. PICK q \in Requests : req' = [req EXCEPT ![p] = q]
  BY AskedAssumption DEF Begin
<1>3. /\ pc' = [pc EXCEPT ![p] = "boundary"]
      /\ UNCHANGED <<role, perm, bnd, target, seen>>
  BY DEF Begin, tables, locals
<1>4. /\ pc'[p] = "boundary"
      /\ \A o \in Procs \ {p} : pc'[o] = pc[o] /\ req'[o] = req[o]
  BY <1>2, <1>3 DEF TypeOK, RequestsTyped
<1>5. AllowedOK' /\ EffectsOK' /\ SeenOK'
  BY <1>3, <1>4 DEF AllowedOK, EffectsOK, SeenOK, Targeted, Comparing, Live
<1> QED
  BY <1>1, <1>5

\* Only the request that steps changes what it has read.
LEMMA ReadKept ==
    ASSUME TypeOK, NEW p \in Procs, Reads(p) \/ Locks(p) \/ Abort(p)
    PROVE  /\ \A o \in Procs \ {p} : bnd'[o] = bnd[o] /\ seen'[o] = seen[o]
           /\ Answer(p) \/ ReadBoundary(p) \/ bnd' = bnd
           /\ Answer(p) \/ ReadBefore(p) \/ seen' = seen
<1>1. Answer(p) \/ ReadBoundary(p) \/ bnd' = bnd
  BY DEF Reads, Locks, Abort, ReadTarget, ReadCurrent, Search, Reserve, ReadBefore, ReadRoles,
     ReadAssigned, ReadVersion, ListMembers, CasRole, Cascade, CasMember, ClearRoles, AssignRoles,
     Invalidate, Reject, locals
<1>2. Answer(p) \/ ReadBefore(p) \/ seen' = seen
  BY DEF Reads, Locks, Abort, ReadBoundary, ReadTarget, ReadCurrent, Search, Reserve, ReadRoles,
     ReadAssigned, ReadVersion, ListMembers, CasRole, Cascade, CasMember, ClearRoles, AssignRoles,
     Invalidate, Reject, locals
<1>3. \A o \in Procs \ {p} : bnd'[o] = bnd[o]
  BY <1>1 DEF Answer, ReadBoundary, Reject, TypeOK, RequestsTyped
<1>4. \A o \in Procs \ {p} : seen'[o] = seen[o]
  BY <1>2 DEF Answer, ReadBefore, Reject, TypeOK, RequestsTyped
<1> QED
  BY <1>1, <1>2, <1>3, <1>4

\* setRolePermissions reads the stored effects, after the row, before any other
\* statement that compares or writes.
LEMMA SeenPath ==
    ASSUME TypeOK, NEW p \in Procs, Reads(p) \/ Locks(p) \/ Abort(p), ~Answer(p),
           req[p].op = "setPerms", pc'[p] \in {"cas", "list", "invalidate", "commit"}
    PROVE  /\ Targeted(p) /\ ~ReadTarget(p)
           /\ \/ Comparing(p) /\ ~ReadBefore(p)
              \/ seen'[p] = perm[req[p].role] /\ perm[req[p].role] # req[p].perm
<1> USE DEF TypeOK, RequestsTyped, Goto
<1>0. Targeted(p) /\ ~ReadTarget(p)
  <2>1. ~ReadTarget(p)
    BY DEF ReadTarget, Reject
  <2> QED
    BY <2>1, TargetPath DEF RoleOps
<1>1. CASE ReadBoundary(p)
  BY <1>1, TargetPath DEF RoleOps
<1>2. CASE ReadTarget(p)
  BY <1>0, <1>2
<1>3. CASE ReadBefore(p)
  BY <1>0, <1>3 DEF ReadBefore, Reject
<1>4. CASE ReadCurrent(p) \/ Search(p) \/ Reserve(p) \/ ReadRoles(p) \/ ReadAssigned(p)
  BY <1>4 DEF ReadCurrent, Search, Reserve, ReadRoles, ReadAssigned, FlowOK, OpsAt
<1>5. CASE ReadVersion(p) \/ Abort(p)
  BY <1>5 DEF ReadVersion, Abort
<1>6. CASE ListMembers(p)
  BY <1>0, <1>6 DEF ListMembers, Comparing, ReadBefore
<1>7. CASE CasRole(p) \/ Invalidate(p)
  BY <1>0, <1>7 DEF CasRole, Invalidate, Comparing, ReadBefore
<1>8. CASE Cascade(p)
  BY <1>8 DEF Cascade, FlowOK, OpsAt
<1>9. CASE ClearRoles(p) \/ CasMember(p)
  BY <1>9 DEF ClearRoles, CasMember, FlowOK, OpsAt
<1>10. CASE AssignRoles(p)
  BY <1>10 DEF AssignRoles, FlowOK, OpsAt
<1> QED
  BY <1>1, <1>2, <1>3, <1>4, <1>5, <1>6, <1>7, <1>8, <1>9, <1>10 DEF Reads, Locks

\* setRolePermissions refuses effects that no catalog knows at its first statement.
LEMMA EffectsPath ==
    ASSUME TypeOK, NEW p \in Procs, Reads(p) \/ Locks(p) \/ Abort(p), ~Answer(p),
           req[p].op = "setPerms"
    PROVE  pc[p] \notin {"idle", "boundary"} \/ KnownEffects(req[p].perm)
<1>1. CASE ReadBoundary(p)
  BY <1>1 DEF ReadBoundary, Reject, Admitted
<1>2. CASE ~ReadBoundary(p)
  BY <1>2 DEF Reads, Locks, Abort, ReadTarget, ReadCurrent, Search, Reserve, ReadBefore, ReadRoles,
     ReadAssigned, ReadVersion, ListMembers, CasRole, Cascade, CasMember, ClearRoles, AssignRoles,
     Invalidate
<1> QED
  BY <1>1, <1>2

LEMMA QuietChecked ==
    ASSUME CheckedInv, NEW p \in Procs, Reads(p) \/ Locks(p) \/ Abort(p)
    PROVE  CheckedInv'
<1> USE DEF CheckedInv, NamesInv, TypeInv
<1>1. NamesInv'
  BY QuietNames
<1>2. /\ UNCHANGED <<role, perm>> /\ pc[p] # "idle"
      /\ Answer(p) \/ (req' = req /\ \E label : Goto(p, label))
  BY QuietSteps DEF tables
<1>3. \A o \in Procs \ {p} : /\ pc'[o] = pc[o] /\ req'[o] = req[o] /\ target'[o] = target[o]
                             /\ bnd'[o] = bnd[o] /\ seen'[o] = seen[o]
  BY CurKept, ReadKept
<1>4. pc'[p] # "idle" => ~Answer(p) /\ req'[p] = req[p]
  BY <1>2 DEF Answer, Goto, TypeOK, RequestsTyped
<1>5. AllowedOK'
  <2>1. SUFFICES ASSUME Targeted(p)'
                 PROVE  LET row == target'[p]
                        IN  /\ MayChange(bnd'[p], row.org, row.rank, row.prot, {})
                            /\ req[p].op = "update" =>
                                 MayChange(bnd'[p], row.org, req[p].rank, row.prot, {})
                            /\ Live(req[p].role) => /\ role[req[p].role].org = row.org
                                                    /\ role[req[p].role].prot = row.prot
    BY <1>2, <1>3, <1>4 DEF AllowedOK, Targeted, Live
  <2>2. ~Answer(p) /\ req'[p] = req[p] /\ req[p].op \in RoleOps /\ pc'[p] # "target"
    BY <1>4, <2>1 DEF Targeted
  <2>3. bnd' = bnd
    BY <2>2, TargetPath, ReadKept
  <2>4. CASE Targeted(p) /\ ~ReadTarget(p)
    <3>1. target' = target
      BY <2>2, <2>4, CurKept
    <3> QED
      BY <2>3, <2>4, <3>1 DEF AllowedOK
  <2>5. CASE TargetAllowed(req[p], bnd[p]) /\ target'[p] = role[req[p].role]
    BY <2>3, <2>5 DEF TargetAllowed, MayChange
  <2> QED
    BY <2>2, <2>4, <2>5, TargetPath
<1>6. EffectsOK'
  BY <1>3, <1>4, EffectsPath DEF EffectsOK
<1>7. SeenOK'
  <2>1. SUFFICES ASSUME Comparing(p)'
                 PROVE  /\ seen'[p] # req[p].perm
                        /\ Live(req[p].role) /\ role[req[p].role].version = target'[p].version =>
                             seen'[p] = perm[req[p].role]
    BY <1>2, <1>3, <1>4 DEF SeenOK, Comparing, Live
  <2>2. ~Answer(p) /\ req'[p] = req[p] /\ req[p].op = "setPerms"
    BY <1>4, <2>1 DEF Comparing
  <2>3. target' = target
    BY <2>1, <2>2, SeenPath, CurKept DEF Comparing
  <2>4. CASE Comparing(p) /\ ~ReadBefore(p)
    BY <2>2, <2>3, <2>4, ReadKept DEF SeenOK
  <2> QED
    BY <2>1, <2>2, <2>4, SeenPath DEF Comparing
<1> QED
  BY <1>1, <1>5, <1>6, <1>7

LEMMA CommitChecks ==
    ASSUME CheckedInv, NEW p \in Procs, Commits(p)
    PROVE  CheckedInv'
<1> USE DEF CheckedInv
<1>1. NamesInv'
  BY CommitNames
<1>2. /\ pc'[p] = "idle"
      /\ \A o \in Procs \ {p} : /\ pc'[o] = pc[o] /\ req'[o] = req[o] /\ target'[o] = target[o]
                                /\ bnd'[o] = bnd[o] /\ seen'[o] = seen[o]
  BY CommitShape DEF Answer, Goto, NamesInv, TypeInv, TypeOK, RequestsTyped
<1>3. AllowedOK'
  <2>1. SUFFICES ASSUME NEW o \in Procs \ {p}, Targeted(o), role'[req[o].role] # Nil
                 PROVE  /\ role'[req[o].role].org = target[o].org
                        /\ role'[req[o].role].prot = target[o].prot
    BY <1>2 DEF AllowedOK, Targeted, Live
  <2>2. PICK r : r = req[o].role
    OBVIOUS
  <2>3. Live(r) /\ role'[r].org = role[r].org /\ role'[r].prot = role[r].prot
    BY <2>1, <2>2, CommitMoves DEF Targeted
  <2> QED
    BY <2>1, <2>2, <2>3 DEF AllowedOK
<1>4. EffectsOK'
  BY <1>2 DEF EffectsOK
<1>5. SeenOK'
  <2>1. SUFFICES ASSUME NEW o \in Procs \ {p}, Comparing(o)
                 PROVE  /\ seen[o] # req[o].perm
                        /\ /\ role'[req[o].role] # Nil
                           /\ role'[req[o].role].version = target[o].version
                           => seen[o] = perm'[req[o].role]
    BY <1>2 DEF SeenOK, Comparing, Live
  <2>2. SUFFICES ASSUME NEW r, r = req[o].role, role'[r] # Nil,
                        role'[r].version = target[o].version
                 PROVE  seen[o] = perm'[r]
    BY <2>1 DEF SeenOK
  <2>3. Targeted(o) /\ pc[o] # "idle" /\ req[o].op \in RoleOps
    BY <2>1 DEF Comparing, Targeted, RoleOps
  <2>4. /\ Live(r) /\ role[r] \in RoleRows
        /\ \/ role'[r] = role[r] /\ perm'[r] = perm[r]
           \/ role'[r].version = role[r].version + 1
    BY <2>2, <2>3, CommitMoves
  <2>5. target[o] \in RoleRows /\ target[o].version <= role[r].version
    BY <2>2, <2>3, <2>4 DEF NamesInv, TypeInv, TypeOK, FlowOK, RequestsTyped, RowsOK, Remembers
  <2>6. target[o].version \in Nat /\ role[r].version \in Nat
    BY <2>4, <2>5 DEF RoleRows
  <2>7. role'[r] = role[r] /\ perm'[r] = perm[r]
    BY <2>2, <2>4, <2>5, <2>6
  <2> QED
    BY <2>1, <2>2, <2>4, <2>7 DEF SeenOK
<1> QED
  BY <1>1, <1>3, <1>4, <1>5

LEMMA IdleChecked ==
    ASSUME CheckedInv, UNCHANGED <<role, nameRow, perm, audit, pc, req, bnd, target, cur, seen>>,
           TypeInv'
    PROVE  CheckedInv'
<1>1. NamesInv'
  BY IdleNames DEF CheckedInv
<1> QED
  BY <1>1 DEF CheckedInv, AllowedOK, EffectsOK, SeenOK, Targeted, Comparing, Live

LEMMA CheckedStep == CheckedInv /\ [Next]_vars => CheckedInv'
<1> SUFFICES ASSUME CheckedInv, [Next]_vars PROVE CheckedInv'
  OBVIOUS
<1>0. TypeInv'
  BY NextInv DEF CheckedInv, NamesInv
<1>1. ASSUME NEW p \in Procs, Begin(p) PROVE CheckedInv'
  BY <1>1, BeginChecked
<1>2. ASSUME NEW p \in Procs, Step(p) \/ Abort(p) PROVE CheckedInv'
  BY <1>2, StepCases, QuietChecked, CommitChecks
<1>3. ASSUME NEW m \in Clients, LoadAbility(m) PROVE CheckedInv'
  BY <1>0, <1>3, IdleChecked DEF LoadAbility, locals
<1>4. CASE UNCHANGED vars
  BY <1>0, <1>4, IdleChecked DEF vars
<1> QED
  BY <1>1, <1>2, <1>3, <1>4 DEF Next

-----------------------------------------------------------------------------
(* What a commit changes. *)

\* A role operation never changes a protected row, and where getRole read the row
\* that is replaced, the actor may change it.
LEMMA CommitAllowed ==
    ASSUME CheckedInv, NEW p \in Procs, Commits(p), req[p].op \in RoleOps
    PROVE  /\ req[p].role \in RoleIds /\ role[req[p].role] \in RoleRows
           /\ Live(req[p].role) /\ role[req[p].role].version = req[p].exp
           /\ role[req[p].role].prot = FALSE
           /\ ReadAtExpected(target[p], p) =>
                /\ MayChange(bnd[p], role[req[p].role].org, role[req[p].role].rank, FALSE, {})
                /\ req[p].op = "update" =>
                     MayChange(bnd[p], role[req[p].role].org, req[p].rank, FALSE, {})
<1> DEFINE r == req[p].role
<1>1. r \in RoleIds /\ role[r] \in RoleRows /\ Live(r) /\ role[r].version = req[p].exp
  BY CommitHeld DEF CheckedInv, NamesInv
<1>2. Targeted(p)
  BY CommitShape DEF CheckedInv, NamesInv, TypeInv, Targeted
<1>3. /\ MayChange(bnd[p], target[p].org, target[p].rank, target[p].prot, {})
      /\ req[p].op = "update" => MayChange(bnd[p], target[p].org, req[p].rank, target[p].prot, {})
      /\ role[r].prot = target[p].prot
  BY <1>1, <1>2 DEF CheckedInv, AllowedOK
<1>4. role[r].prot = FALSE
  BY <1>1, <1>3 DEF MayChange, RoleRows
<1>5. ReadAtExpected(target[p], p) => target[p] = role[r]
  BY CommitReadsTarget DEF CheckedInv
<1> QED
  BY <1>1, <1>3, <1>4, <1>5

\* The rows that the commits of updateRole and setRolePermissions write.
LEMMA ChangedRow ==
    ASSUME CheckedInv, NEW p \in Procs, CommitUpdate(p) \/ CommitPerms(p),
           NEW r \in RoleIds, r = req[p].role
    PROVE  /\ role'[r] \in RoleRows /\ role' = [role EXCEPT ![r] = role'[r]]
           /\ role'[r].org = role[r].org /\ role'[r].prot = FALSE
           /\ role'[r].version = role[r].version + 1 /\ role[r].version \in Nat
           /\ CommitUpdate(p) => role'[r].rank = req[p].rank /\ role'[r].name = req[p].name
           /\ CommitPerms(p) => role'[r].rank = role[r].rank /\ role'[r].name = role[r].name
<1> USE DEF CheckedInv, NamesInv, TypeInv, TypeOK, TablesTyped
<1>1. Commits(p) /\ req[p].op \in RoleOps /\ req[p] \in Requests
  BY CommitShape DEF Commits, CommitUpdate, CommitPerms, RoleOps
<1>2. role[r] \in RoleRows /\ role[r].prot = FALSE
  BY <1>1, CommitAllowed
<1>3. CASE CommitUpdate(p)
  <2>1. role' = Updated(role, r, req[p].name, req[p].rank)
    BY <1>3 DEF CommitUpdate, Updated
  <2>2. req[p].name \in Names /\ req[p].rank \in Ranks /\ req[p].op # "setPerms"
    BY <1>1, <1>3, RequestFields DEF CommitUpdate
  <2>3. ~CommitPerms(p)
    BY <2>2 DEF CommitPerms
  <2>4. role' = [role EXCEPT ![r] = role'[r]]
    BY <2>1 DEF Updated
  <2>5. /\ role'[r] \in RoleRows /\ role[r].version \in Nat
        /\ role'[r].version = role[r].version + 1
        /\ role'[r].org = role[r].org /\ role'[r].prot = FALSE
        /\ role'[r].rank = req[p].rank /\ role'[r].name = req[p].name
    BY <1>2, <2>1, <2>2, RowUpdated
  <2> QED
    BY <2>3, <2>4, <2>5
<1>4. CASE CommitPerms(p)
  <2>1. role' = [role EXCEPT ![r].version = @ + 1] /\ ~CommitUpdate(p)
    BY <1>2, <1>4 DEF CommitPerms, CommitUpdate
  <2>2. role' = [role EXCEPT ![r] = role'[r]]
    BY <2>1
  <2>3. /\ role'[r] \in RoleRows /\ role[r].version \in Nat
        /\ role'[r].version = role[r].version + 1
        /\ role'[r].org = role[r].org /\ role'[r].prot = FALSE
        /\ role'[r].rank = role[r].rank /\ role'[r].name = role[r].name
    BY <1>2, <2>1 DEF RoleRows
  <2> QED
    BY <2>1, <2>2, <2>3
<1> QED
  BY <1>3, <1>4

\* Only the commit of a role operation changes the row of a live role.
LEMMA WhoChanges ==
    ASSUME TypeInv, AuditInv, [Next]_vars, NEW r \in RoleIds, Live(r), role'[r] # role[r]
    PROVE  \E p \in Procs : Commits(p) /\ Changes(p) /\ req[p].role = r
<1> USE DEF TypeInv
<1>1. PICK p \in Procs : Commits(p)
  <2>1. \A p \in Procs : ~Begin(p)
    BY DEF Begin, tables
  <2>2. \A p \in Procs : ~(Reads(p) \/ Locks(p) \/ Abort(p))
    BY QuietSteps DEF tables
  <2>3. \A m : ~LoadAbility(m)
    BY DEF LoadAbility
  <2> QED
    BY <2>1, <2>2, <2>3, StepCases DEF Next, vars
<1>2. pc[p] = "commit" /\ pc'[p] = "idle"
  BY <1>1, CommitEnds
<1>3. req[p].op \in RoleOps /\ req[p].role = r
  <2>1. req[p].op = "create" => ~Live(req[p].role)
    BY <1>2 DEF FreshOK, Creating
  <2> QED
    BY <1>1, <2>1, CommitShape
<1> QED
  BY <1>1, <1>3, CommitTells

\* The row that a commit writes is one that the actor may change if it may change
\* the one replaced.
LEMMA WritesBelow ==
    ASSUME CheckedInv, NEW p \in Procs, Commits(p), req[p].op \in RoleOps,
           NEW r, r = req[p].role,
           MayChange(bnd[p], role[r].org, role[r].rank, FALSE, {}),
           req[p].op = "update" => MayChange(bnd[p], role[r].org, req[p].rank, FALSE, {})
    PROVE  StaysBelow(p, r)
<1> USE DEF CheckedInv, NamesInv, TypeInv
<1>1. r \in RoleIds /\ role[r].prot = FALSE
  BY CommitAllowed
<1>2. role'[r] # Nil => MayChange(bnd[p], role[r].org, role'[r].rank, role'[r].prot, {})
  <2>1. CASE CommitUpdate(p) \/ CommitPerms(p)
    <3>1. /\ role'[r].prot = FALSE
          /\ CommitUpdate(p) => role'[r].rank = req[p].rank
          /\ CommitPerms(p) => role'[r].rank = role[r].rank
      BY <1>1, <2>1, ChangedRow
    <3>2. CommitUpdate(p) => req[p].op = "update"
      BY DEF CommitUpdate
    <3> QED
      BY <2>1, <3>1, <3>2
  <2>2. CASE CommitDelete(p)
    BY <1>1, <2>2 DEF CommitDelete, TypeOK, TablesTyped
  <2> QED
    BY <2>1, <2>2 DEF Commits, CommitCreate, CommitMember, RoleOps
<1> QED
  BY <1>1, <1>2 DEF StaysBelow

LEMMA StepAllowed ==
    ASSUME CheckedInv, AuditInv, [Next]_vars, NEW r \in RoleIds, Live(r), role'[r] # role[r]
    PROVE  \E p \in Procs :
              /\ Changes(p) /\ req[p].role = r
              /\ ReadAtExpected(target[p], p) => StaysBelow(p, r)
<1>1. PICK p \in Procs : Commits(p) /\ Changes(p) /\ req[p].role = r
  BY WhoChanges DEF AuditInv
<1>2. req[p].op \in RoleOps
  BY <1>1 DEF Changes
<1>3. ReadAtExpected(target[p], p) => StaysBelow(p, r)
  BY <1>1, <1>2, CommitAllowed, WritesBelow
<1> QED
  BY <1>1, <1>3

\* A role changes only by a request that names it, and where getRole read the row
\* at the version that the compare-and-set finds, whatever is in flight, the row
\* replaced and the row written are such as the actor's boundary allows: not
\* protected, of its organization and below its rank.
THEOREM TargetCorrect == Spec => TargetStillAllowed
<1>1. CheckedInv /\ [Next]_vars => CheckedInv'
  BY CheckedStep
<1>2. AuditInv /\ [Next]_vars => AuditInv'
  BY AuditStep
<1>3. ASSUME CheckedInv, AuditInv, [Next]_vars
      PROVE  [\A r \in RoleIds : Live(r) /\ role'[r] # role[r] =>
                 \E p \in Procs :
                    /\ Changes(p) /\ req[p].role = r
                    /\ ReadAtExpected(target[p], p) => StaysBelow(p, r)]_vars
  BY <1>3, StepAllowed
<1> QED
  BY <1>1, <1>2, <1>3, InitChecked, InitAudit, PTL DEF Spec, TargetStillAllowed

LEMMA SerialAllowed ==
    ASSUME CheckedInv, SerialInv, [Next]_vars, NEW r \in RoleIds, Live(r), role'[r] # role[r]
    PROVE  \E p \in Procs : Changes(p) /\ req[p].role = r /\ StaysBelow(p, r)
<1>1. PICK p \in Procs : Commits(p) /\ Changes(p) /\ req[p].role = r
  BY WhoChanges DEF SerialInv, AuditInv
<1>2. req[p].op \in RoleOps /\ pc[p] = "commit"
  BY <1>1 DEF Changes
<1>3. TargetAllowed(req[p], bnd[p])
  BY <1>2 DEF SerialInv, RowOK
<1>4. role[r].prot = FALSE
  BY <1>1, <1>2, CommitAllowed
<1>5. /\ MayChange(bnd[p], role[r].org, role[r].rank, FALSE, {})
      /\ req[p].op = "update" => MayChange(bnd[p], role[r].org, req[p].rank, FALSE, {})
  BY <1>1, <1>3, <1>4 DEF TargetAllowed, MayChange
<1> QED
  BY <1>1, <1>2, <1>5, WritesBelow

\* With one transaction at a time an actor that is not an owner changes
\* lower-ranked roles only, whatever version it sends.
THEOREM LowerRanksCorrect ==
    ASSUME Isolation = "serial"
    PROVE  Spec => LowerRanksOnly
<1>1. CheckedInv /\ [Next]_vars => CheckedInv'
  BY CheckedStep
<1>2. SerialInv /\ [Next]_vars => SerialInv'
  BY SerialStep
<1>3. ASSUME CheckedInv, SerialInv, [Next]_vars
      PROVE  [\A r \in RoleIds : Live(r) /\ role'[r] # role[r] =>
                 \E p \in Procs : Changes(p) /\ req[p].role = r /\ StaysBelow(p, r)]_vars
  BY <1>3, SerialAllowed
<1> QED
  BY <1>1, <1>2, <1>3, InitChecked, InitSerial, PTL DEF Spec, LowerRanksOnly

-----------------------------------------------------------------------------
(* The audit event of a permission change. *)

\* Applying the difference of two tables to the first gives the second.
LEMMA AppliedDiff ==
    ASSUME NEW s \in Tables, NEW t \in Tables
    PROVE  Applied(s, DiffEffects(s, t)) = t
<1> DEFINE d == DiffEffects(s, t)
           new(k) == CHOOSE x \in d.added : x[1] = k
           moved(k) == CHOOSE x \in d.changed : x[1] = k
           value(k) == IF k \in d.removed THEN "NONE"
                       ELSE IF \E x \in d.added : x[1] = k THEN new(k)[2]
                       ELSE IF \E x \in d.changed : x[1] = k /\ x[2] = s[k] THEN moved(k)[3]
                       ELSE s[k]
<1>1. \A k \in StoredKeys : k \in d.removed <=> s[k] # "NONE" /\ t[k] = "NONE"
  BY DEF DiffEffects
<1>2. \A x : x \in d.added <=> \E k \in StoredKeys : s[k] = "NONE" /\ t[k] # "NONE" /\ x = <<k, t[k]>>
  BY DEF DiffEffects
<1>3. \A x : x \in d.changed <=>
        \E k \in StoredKeys : s[k] # "NONE" /\ t[k] # "NONE" /\ s[k] # t[k] /\ x = <<k, s[k], t[k]>>
  BY DEF DiffEffects
<1>4. Applied(s, d) = [k \in StoredKeys |-> value(k)]
  BY DEF Applied
<1> HIDE DEF d
<1>5. ASSUME NEW k \in StoredKeys PROVE value(k) = t[k]
  <2>1. CASE s[k] = "NONE" /\ t[k] # "NONE"
    <3>1. <<k, t[k]>> \in d.added /\ k \notin d.removed
      BY <1>1, <1>2, <2>1
    <3>2. new(k) \in d.added /\ new(k)[1] = k
      BY <3>1
    <3>3. new(k)[2] = t[k]
      BY <1>2, <3>2
    <3> QED
      BY <3>1, <3>3
  <2>2. CASE s[k] # "NONE" /\ t[k] # "NONE" /\ s[k] # t[k]
    <3>1. <<k, s[k], t[k]>> \in d.changed /\ k \notin d.removed
      BY <1>1, <1>3, <2>2
    <3>2. ~\E x \in d.added : x[1] = k
      BY <1>2, <2>2
    <3>3. moved(k) \in d.changed /\ moved(k)[1] = k
      BY <3>1
    <3>4. moved(k)[3] = t[k]
      BY <1>3, <3>3
    <3>5. \E x \in d.changed : x[1] = k /\ x[2] = s[k]
      BY <3>1
    <3> QED
      BY <3>1, <3>2, <3>4, <3>5
  <2>3. CASE s[k] # "NONE" /\ t[k] = "NONE"
    BY <1>1, <2>3
  <2>4. CASE s[k] = t[k]
    <3>1. k \notin d.removed /\ ~(\E x \in d.added : x[1] = k) /\ ~(\E x \in d.changed : x[1] = k)
      BY <1>1, <1>2, <1>3, <2>4
    <3> QED
      BY <2>4, <3>1
  <2> QED
    BY <2>1, <2>2, <2>3, <2>4
<1> HIDE DEF value
<1>6. t = [k \in StoredKeys |-> t[k]]
  BY DEF Tables
<1>7. [k \in StoredKeys |-> value(k)] = [k \in StoredKeys |-> t[k]]
  BY <1>5
<1> QED
  BY <1>4, <1>6, <1>7 DEF d

\* At its commit setRolePermissions replaces the effects that it read, where it
\* read the role at the version that its compare-and-set found.
LEMMA CommitSeen ==
    ASSUME CheckedInv, NEW p \in Procs, CommitPerms(p)
    PROVE  /\ req[p].role \in RoleIds /\ req[p].perm \in Tables
           /\ seen[p] # req[p].perm /\ KnownEffects(req[p].perm)
           /\ ReadAtExpected(target[p], p) => seen[p] = perm[req[p].role]
<1>1. Commits(p) /\ req[p].op = "setPerms" /\ pc[p] = "commit"
  BY DEF Commits, CommitPerms
<1>2. /\ req[p].role \in RoleIds /\ Live(req[p].role)
      /\ role[req[p].role].version = req[p].exp
  BY <1>1, CommitAllowed DEF RoleOps
<1>3. req[p].perm \in Tables
  BY <1>1, CommitShape, RequestFields DEF CheckedInv, NamesInv, TypeInv
<1> QED
  BY <1>1, <1>2, <1>3 DEF CheckedInv, SeenOK, EffectsOK, Comparing, ReadAtExpected

\* AuditTellsChange, of one step.
LEMMA StepTold ==
    ASSUME CheckedInv, [Next]_vars, NEW p \in Procs, Changes(p), req[p].op = "setPerms",
           ReadAtExpected(target[p], p), NEW e \in audit' \ audit
    PROVE  /\ perm'[e.target] # perm[e.target]
           /\ perm'[e.target] = Applied(perm[e.target], e.diff)
<1> USE DEF CheckedInv, NamesInv, TypeInv
<1>1. CommitPerms(p)
  <2>0. audit' # audit /\ pc[p] = "commit" /\ pc'[p] = "idle"
    BY DEF Changes
  <2>1. \A o \in Procs : ~Begin(o)
    BY <2>0 DEF Begin, tables
  <2>2. \A o \in Procs : ~(Reads(o) \/ Locks(o) \/ Abort(o))
    BY <2>0, QuietSteps DEF tables
  <2>3. \A m : ~LoadAbility(m)
    BY <2>0 DEF LoadAbility
  <2>4. PICK o \in Procs : Commits(o)
    BY <2>0, <2>1, <2>2, <2>3, StepCases DEF Next, vars
  <2>5. o = p
    BY <2>0, <2>4, CommitEnds
  <2> QED
    BY <2>4, <2>5, CommitKinds
<1>2. PICK r \in RoleIds : /\ r = req[p].role /\ req[p].perm \in Tables
                           /\ seen[p] = perm[r] /\ seen[p] # req[p].perm
  BY <1>1, CommitSeen
<1>3. e.target = r /\ e.diff = DiffEffects(seen[p], req[p].perm)
  BY <1>1, <1>2 DEF CommitPerms, Logged, Event
<1>4. perm' = [perm EXCEPT ![r] = req[p].perm] /\ perm \in [RoleIds -> Tables]
  BY <1>1, <1>2 DEF CommitPerms, TypeOK, TablesTyped
<1> QED
  BY <1>2, <1>3, <1>4, AppliedDiff

\* The audit event of a permission change carries the difference between the
\* tables before and after the commit, and no change of nothing is recorded,
\* though setRolePermissions read the former table before its compare-and-set:
\* whatever is in flight, where getRole read the version that this one found.
THEOREM ChangeCorrect == Spec => AuditTellsChange
<1>1. CheckedInv /\ [Next]_vars => CheckedInv'
  BY CheckedStep
<1>2. ASSUME CheckedInv, [Next]_vars
      PROVE  [\A p \in Procs :
                 Changes(p) /\ req[p].op = "setPerms" /\ ReadAtExpected(target[p], p) =>
                 \A e \in audit' \ audit :
                    /\ perm'[e.target] # perm[e.target]
                    /\ perm'[e.target] = Applied(perm[e.target], e.diff)]_vars
  BY <1>2, StepTold
<1> QED
  BY <1>1, <1>2, InitChecked, PTL DEF Spec, AuditTellsChange

-----------------------------------------------------------------------------
(* The refinement. *)

RegistryInv == CheckedInv /\ AssignInv /\ AuditInv

LEMMA InitRegistry == Init => RegistryInv /\ Registry!RegInit
<1> SUFFICES ASSUME Init PROVE RegistryInv /\ Registry!RegInit
  OBVIOUS
<1>1. RegistryInv
  BY InitChecked, InitAssign, InitAudit DEF RegistryInv
<1> DEFINE versions == [m \in Members |-> MemberVersion(m)]
<1>2. /\ role \in [RoleIds -> Registry!RegRows \cup {Nil}]
      /\ perm \in [RoleIds -> Registry!Tables]
      /\ assign \in [Members -> SUBSET RoleIds]
      /\ audit = {}
  BY SeedAssumption DEF Init, RoleRows, Registry!RegRows, Tables, Registry!Tables, StoredKeys,
     Registry!StoredKeys, Effects, Registry!Effects
<1>3. versions \in [Members -> Nat]
  BY <1>1, VersionType DEF RegistryInv, AuditInv, TypeInv
<1>4. \A r, s \in RoleIds :
        /\ role[r] # Nil /\ role[s] # Nil
        /\ role[r].org = role[s].org /\ role[r].name = role[s].name
        => r = s
  BY SeedAssumption DEF Init
<1>5. \A m \in Members : assign[m] \subseteq Registry!RegRolesIn(OrgOf[m])
  BY <1>1 DEF RegistryInv, AssignInv, AssignmentsLive, RolesIn, Live, Registry!RegRolesIn,
     Registry!Exists
<1>6. \A r \in RoleIds : role[r] = Nil => perm[r] = Registry!NoEffects
  BY SeedAssumption DEF Init, NoEffects, Registry!NoEffects, StoredKeys, Registry!StoredKeys
<1>7. Registry!WellFormed
  BY <1>4, <1>5, <1>6 DEF Registry!WellFormed, Registry!Exists
<1> QED
  BY <1>1, <1>2, <1>3, <1>7 DEF Registry!RegInit

\* A step that leaves the committed tables alone leaves the registry alone.
LEMMA TablesKept ==
    ASSUME UNCHANGED <<role, perm, assign, mver, audit>>
    PROVE  UNCHANGED Registry!regVars
<1> DEFINE versions == [m \in Members |-> MemberVersion(m)]
<1>1. versions' = versions
  BY DEF MemberVersion
<1> QED
  BY <1>1 DEF Registry!regVars

\* The registry's names are free where the reservations say so.
LEMMA FreeName ==
    ASSUME NamesReserved, NEW org, NEW name, NEW r \in RoleIds,
           <<org, name>> \in Keyed, nameRow[<<org, name>>] \in {Nil, r}
    PROVE  Registry!NameFree(org, name, r)
<1> SUFFICES ASSUME NEW s \in RoleIds, s # r, Live(s), role[s].org = org, role[s].name = name
             PROVE  FALSE
  BY DEF Registry!NameFree, Registry!RegRolesIn, Registry!Exists, Live
<1>1. nameRow[<<org, name>>] = s
  BY DEF NamesReserved, Id
<1> QED
  BY <1>1, NilAssumption

LEMMA CreateRefines ==
    ASSUME RegistryInv, NamesReserved, NEW p \in Procs, CommitCreate(p)
    PROVE  Registry!RegNext
<1> USE DEF RegistryInv, CheckedInv, NamesInv, TypeInv
<1> DEFINE versions == [m \in Members |-> MemberVersion(m)]
<1>1. /\ Commits(p) /\ Creating(p) /\ pc[p] = "commit"
      /\ req[p] \in Requests /\ req[p].op = "create"
  BY CommitShape DEF Commits, CommitCreate, Creating
<1>2. PICK r \in RoleIds, org \in Orgs, name \in Names, rank \in Ranks :
        r = req[p].role /\ org = req[p].actor.org /\ name = req[p].name /\ rank = req[p].rank
  BY <1>1, RequestFields, BoundAssumption
<1>3. ~Live(r) /\ ~Retired(r)
  BY <1>1, <1>2 DEF FreshOK
<1>4. /\ role' = [role EXCEPT ![r] =
             [org |-> org, name |-> name, rank |-> rank, prot |-> FALSE, version |-> 0]]
      /\ audit' = audit \cup {Event("IAM_ROLE_CREATED", r, 0, 0, Nil)}
      /\ UNCHANGED <<perm, assign, mver>>
  BY <1>2 DEF CommitCreate, Logged
<1>5. Registry!NameFree(org, name, r)
  <2>1. <<org, name>> \in Keyed /\ NewKey(p) = <<org, name>>
    BY <1>1, <1>2 DEF Keyed, NewKey
  <2>2. nameRow[<<org, name>>] = Nil
    BY <1>1, <2>1 DEF HoldsName, NamesHeld
  <2> QED
    BY <2>1, <2>2, FreeName
<1>6. versions' = versions
  BY <1>4 DEF MemberVersion
<1>7. Registry!CreateRole(r, org, name, rank)
  BY <1>3, <1>4, <1>5, <1>6 DEF Registry!CreateRole, Registry!Exists, Registry!Gone, Registry!Told,
     Live, Retired, Event
<1>8. role' # role
  <2>1. role'[r] \in RoleRows
    BY <1>2, <1>4 DEF TypeOK, TablesTyped, RoleRows
  <2> QED
    BY <1>3, <2>1, NilAssumption DEF Live
<1> QED
  BY <1>7, <1>8 DEF Registry!RegNext, Registry!Change

LEMMA UpdateRefines ==
    ASSUME RegistryInv, NamesReserved, NEW p \in Procs, CommitUpdate(p),
           ReadAtExpected(cur[p], p)
    PROVE  Registry!RegNext
<1> USE DEF RegistryInv, CheckedInv, NamesInv, TypeInv
<1> DEFINE versions == [m \in Members |-> MemberVersion(m)]
<1>1. /\ Commits(p) /\ pc[p] = "commit"
      /\ req[p] \in Requests /\ req[p].op = "update" /\ req[p].op \in RoleOps
  BY CommitShape DEF Commits, CommitUpdate, RoleOps
<1>2. PICK r \in RoleIds, name \in Names, rank \in Ranks :
        r = req[p].role /\ name = req[p].name /\ rank = req[p].rank
  BY <1>1, RequestFields
<1>3. /\ role[r] \in RoleRows /\ role[r] # Nil /\ role[r].prot = FALSE
      /\ role[r].version = req[p].exp
  BY <1>1, <1>2, CommitAllowed DEF Live
<1>4. PICK v \in Nat : v = role[r].version
  BY <1>3 DEF RoleRows
<1>5. /\ role' = [role EXCEPT ![r].name = name, ![r].rank = rank, ![r].version = @ + 1]
      /\ audit' = audit \cup {Event("IAM_ROLE_UPDATED", r, v, v + 1, Nil)}
      /\ UNCHANGED <<perm, assign, mver>>
  BY <1>2, <1>3, <1>4 DEF CommitUpdate, Logged
<1>6. Registry!NameFree(role[r].org, name, r)
  <2>1. PICK key \in Keyed : key = <<role[r].org, name>>
    BY <1>3 DEF Keyed, RoleRows
  <2>2. cur[p] = role[r] /\ cur[p] # Nil
    BY <1>2, CommitReadsCurrent
  <2>3. CASE Renames(p)
    <3>1. HoldsName(p, key)
      BY <1>1, <1>2, <2>1, <2>2, <2>3 DEF HoldsName, NewKey
    <3>2. nameRow[key] = Nil
      BY <3>1 DEF NamesHeld
    <3> QED
      BY <2>1, <3>2, FreeName
  <2>4. CASE ~Renames(p)
    <3>1. name = role[r].name
      BY <1>2, <2>2, <2>4 DEF Renames
    <3>2. nameRow[key] = r
      BY <1>3, <2>1, <3>1 DEF NamesReserved, Live, Id
    <3> QED
      BY <2>1, <3>2, FreeName
  <2> QED
    BY <2>3, <2>4
<1>7. versions' = versions
  BY <1>5 DEF MemberVersion
<1>8. role' = [role EXCEPT ![r].name = name, ![r].rank = rank, ![r].version = v + 1]
  BY <1>4, <1>5
<1>9. Registry!UpdateRole(r, name, rank)
  BY <1>3, <1>4, <1>5, <1>6, <1>7, <1>8 DEF Registry!UpdateRole, Registry!Exists, Registry!Told, Event
<1>10. role' # role
  <2>1. role'[r].version = v + 1
    BY <1>2, <1>4, ChangedRow
  <2> QED
    BY <1>4, <2>1
<1> QED
  BY <1>9, <1>10 DEF Registry!RegNext, Registry!Change

LEMMA PermsRefines ==
    ASSUME RegistryInv, NEW p \in Procs, CommitPerms(p), ReadAtExpected(target[p], p)
    PROVE  Registry!RegNext
<1> USE DEF RegistryInv, CheckedInv, NamesInv, TypeInv
<1> DEFINE versions == [m \in Members |-> MemberVersion(m)]
<1>1. Commits(p) /\ req[p].op = "setPerms" /\ req[p].op \in RoleOps
  BY DEF Commits, CommitPerms, RoleOps
<1>2. PICK r \in RoleIds, t \in Tables :
        /\ r = req[p].role /\ t = req[p].perm
        /\ seen[p] = perm[r] /\ perm[r] # t /\ KnownEffects(t)
  BY CommitSeen
<1>3. /\ role[r] \in RoleRows /\ role[r] # Nil /\ role[r].prot = FALSE
      /\ role[r].version = req[p].exp
  BY <1>1, <1>2, CommitAllowed DEF Live
<1>4. PICK v \in Nat : v = role[r].version
  BY <1>3 DEF RoleRows
<1>5. /\ role' = [role EXCEPT ![r].version = @ + 1]
      /\ perm' = [perm EXCEPT ![r] = t]
      /\ audit' = audit \cup {Event("IAM_ROLE_PERMISSIONS_CHANGED", r, v, v + 1,
                                    DiffEffects(perm[r], t))}
      /\ UNCHANGED <<assign, mver>>
  BY <1>2, <1>3, <1>4 DEF CommitPerms, Logged
<1>6. versions' = versions
  BY <1>5 DEF MemberVersion
<1>7. role' = [role EXCEPT ![r].version = v + 1]
  BY <1>4, <1>5
<1>8. /\ DiffEffects(perm[r], t) = Registry!DiffEffects(perm[r], t)
      /\ KnownEffects(t) <=> Registry!KnownEffects(t)
      /\ Tables = Registry!Tables
  BY DEF DiffEffects, Registry!DiffEffects, KnownEffects, Registry!KnownEffects,
     Tables, Registry!Tables, StoredKeys, Registry!StoredKeys, Effects, Registry!Effects
<1>9. Registry!SetRolePermissions(r, t)
  BY <1>2, <1>3, <1>4, <1>5, <1>6, <1>7, <1>8 DEF Registry!SetRolePermissions, Registry!Exists,
     Registry!Told, Event
<1>10. role' # role
  <2>1. role'[r].version = v + 1
    BY <1>2, <1>4, ChangedRow
  <2> QED
    BY <1>4, <2>1
<1> QED
  BY <1>2, <1>8, <1>9, <1>10 DEF Registry!RegNext, Registry!Change

LEMMA DeleteRefines ==
    ASSUME RegistryInv, NEW p \in Procs, CommitDelete(p)
    PROVE  Registry!RegNext
<1> USE DEF RegistryInv, CheckedInv, NamesInv, TypeInv
<1> DEFINE versions == [m \in Members |-> MemberVersion(m)]
<1>1. Commits(p) /\ req[p].op = "delete" /\ req[p].op \in RoleOps
  BY DEF Commits, CommitDelete, RoleOps
<1>2. PICK r \in RoleIds : r = req[p].role
  BY <1>1, CommitAllowed
<1>3. /\ role[r] \in RoleRows /\ role[r] # Nil /\ role[r].prot = FALSE
      /\ role[r].version = req[p].exp
  BY <1>1, <1>2, CommitAllowed DEF Live
<1>4. /\ role' = [role EXCEPT ![r] = Nil]
      /\ perm' = [perm EXCEPT ![r] = NoEffects]
      /\ assign' = [m \in Members |-> assign[m] \ {r}]
      /\ audit' = audit \cup {Event("IAM_ROLE_DELETED", r, role[r].version, role[r].version, Nil)}
      /\ mver' = mver
  BY <1>2, <1>3 DEF CommitDelete, Logged
<1>5. versions' = versions
  BY <1>4 DEF MemberVersion
<1>6. NoEffects = Registry!NoEffects
  BY DEF NoEffects, Registry!NoEffects, StoredKeys, Registry!StoredKeys
<1>7. Registry!DeleteRole(r)
  BY <1>3, <1>4, <1>5, <1>6 DEF Registry!DeleteRole, Registry!Exists, Registry!Told,
     Registry!Unassigned, Event
<1>8. role' # role
  <2>1. role'[r] = Nil
    BY <1>4 DEF TypeOK, TablesTyped
  <2> QED
    BY <1>3, <2>1
<1> QED
  BY <1>7, <1>8 DEF Registry!RegNext, Registry!Change

LEMMA MemberRefines ==
    ASSUME RegistryInv, NEW p \in Procs, CommitMember(p)
    PROVE  Registry!RegNext
<1> USE DEF RegistryInv, CheckedInv, NamesInv, TypeInv
<1> DEFINE versions == [m \in Members |-> MemberVersion(m)]
<1>1. /\ Commits(p) /\ MemberHeld(p) /\ pc[p] = "commit"
      /\ req[p] \in Requests /\ req[p].op = "setMember"
  BY CommitShape DEF Commits, CommitMember, MemberHeld, Wrote
<1>2. PICK m \in Members, rs \in SUBSET RoleIds : m = req[p].member /\ rs = req[p].roles
  BY <1>1, RequestFields
<1>3. PICK v \in Nat : v = MemberVersion(m) /\ v = req[p].exp
  BY <1>1, <1>2, VersionType DEF AuditInv, MemberLocks
<1>4. rs \subseteq Registry!RegRolesIn(OrgOf[m])
  <2>1. \A r \in rs : /\ Retired(r) \/ r \in RolesIn(req[p].actor.org)
                      /\ OrgOf[m] = req[p].actor.org /\ Live(r)
    BY <1>1, <1>2 DEF AssignInv, AssignOK, Checked, Referenced
  <2>2. \A r \in rs : ~Retired(r)
    BY <1>2, <2>1 DEF FreshOK
  <2> QED
    BY <2>1, <2>2 DEF RolesIn, Live, Registry!RegRolesIn, Registry!Exists
<1>5. /\ assign' = [assign EXCEPT ![m] = rs]
      /\ mver' = [mver EXCEPT ![m] = v + 1]
      /\ audit' = audit \cup {Event("IAM_MEMBER_ROLES_CHANGED", m, v, v + 1, Nil)}
      /\ UNCHANGED <<role, perm>>
  BY <1>2, <1>3 DEF CommitMember, Logged
<1>6. versions' = [versions EXCEPT ![m] = v + 1]
  <2>1. /\ MemberVersion(m)' = v + 1
        /\ \A n \in Members \ {m} : MemberVersion(n)' = MemberVersion(n)
    BY <1>5, NilAssumption DEF MemberVersion, TypeOK, TablesTyped
  <2> QED
    BY <2>1
<1>7. versions[m] = v
  BY <1>3
<1>8. Registry!SetMemberRoles(m, rs)
  BY <1>4, <1>5, <1>6, <1>7 DEF Registry!SetMemberRoles, Registry!Told, Event
<1>9. versions' # versions
  <2>1. versions'[m] = v + 1
    BY <1>6
  <2> QED
    BY <1>7, <2>1
<1> QED
  BY <1>8, <1>9 DEF Registry!RegNext, Registry!Change

\* A commit is one change of the registry where the reservations are in order,
\* unless it changes the role by what it read at another version.
LEMMA CommitRefines ==
    ASSUME RegistryInv, NamesReserved, NEW p \in Procs, Commits(p)
    PROVE  Registry!RegNext \/ (Changes(p) /\ ReadElsewhere(p))
<1>1. CASE CommitUpdate(p) /\ ~ReadAtExpected(cur[p], p)
  BY <1>1, CommitTells DEF CommitUpdate, RegistryInv, ReadElsewhere, RoleOps
<1>2. CASE CommitPerms(p) /\ ~ReadAtExpected(target[p], p)
  BY <1>2, CommitTells DEF CommitPerms, RegistryInv, ReadElsewhere, RoleOps
<1> QED
  BY <1>1, <1>2, CreateRefines, UpdateRefines, PermsRefines, DeleteRefines, MemberRefines DEF Commits

LEMMA StepRefines ==
    ASSUME RegistryInv, [Next]_vars
    PROVE  \/ UNCHANGED Registry!regVars
           \/ Registry!RegNext
           \/ ~NamesReserved
           \/ \E p \in Procs : Changes(p) /\ ReadElsewhere(p)
<1>1. ASSUME NEW p \in Procs, Begin(p) PROVE UNCHANGED Registry!regVars
  BY <1>1, TablesKept DEF Begin, tables
<1>2. ASSUME NEW p \in Procs, Reads(p) \/ Locks(p) \/ Abort(p)
      PROVE  UNCHANGED Registry!regVars
  <2>1. TypeOK
    BY DEF RegistryInv, AssignInv, TypeInv
  <2> QED
    BY <1>2, <2>1, QuietSteps, TablesKept DEF tables
<1>3. ASSUME NEW p \in Procs, Commits(p)
      PROVE  Registry!RegNext \/ ~NamesReserved \/ (Changes(p) /\ ReadElsewhere(p))
  BY <1>3, CommitRefines
<1>4. ASSUME NEW m \in Clients, LoadAbility(m) PROVE UNCHANGED Registry!regVars
  BY <1>4, TablesKept DEF LoadAbility
<1>5. CASE UNCHANGED vars
  BY <1>5, TablesKept DEF vars
<1> QED
  BY <1>1, <1>2, <1>3, <1>4, <1>5, StepCases DEF Next

LEMMA RegistryStep == RegistryInv /\ [Next]_vars => RegistryInv'
BY CheckedStep, AssignStep, AuditStep DEF RegistryInv

\* Each commit is one change of the registry, at the version its client expected,
\* with names unique, assigned roles live and the audit event true at that moment,
\* and nothing else changes a committed row, for any number of requests and at
\* either isolation level: wherever the reservations are in order, unless the
\* transaction changes the role by what it read of it at another version.
THEOREM RegistryImplemented == Spec => CommitsAreChanges
<1>1. RegistryInv /\ [Next]_vars => RegistryInv'
  BY RegistryStep
<1>2. ASSUME RegistryInv, [Next]_vars
      PROVE  [\/ Registry!RegNext
              \/ ~NamesReserved
              \/ \E p \in Procs : Changes(p) /\ ReadElsewhere(p)]_(Registry!regVars)
  BY <1>2, StepRefines
<1> QED
  BY <1>1, <1>2, InitRegistry, PTL DEF Spec, CommitsAreChanges

-----------------------------------------------------------------------------
(* One transaction at a time. *)

\* What a request has read of a role is what the table holds.
Current ==
    \A p \in Procs :
        /\ Targeted(p) => target[p] = role[req[p].role]
        /\ Updating(p) => cur[p] = role[req[p].role]

OneInv == RegistryInv /\ Alone /\ Current /\ NamesReserved

LEMMA QuietCurrent ==
    ASSUME NamesInv, Alone, Current, NEW p \in Procs, Reads(p) \/ Locks(p) \/ Abort(p)
    PROVE  Alone' /\ Current'
<1> USE DEF NamesInv, TypeInv
<1>1. /\ UNCHANGED tables /\ pc[p] # "idle"
      /\ Answer(p) \/ (req' = req /\ \E label : Goto(p, label))
  BY QuietSteps
<1>2. \A o \in Procs \ {p} : pc'[o] = "idle"
  BY <1>1 DEF Alone, Answer, Goto, TypeOK, RequestsTyped
<1>3. pc'[p] # "idle" => ~Answer(p) /\ req'[p] = req[p]
  BY <1>1 DEF Answer, Goto, TypeOK, RequestsTyped
<1>4. role' = role
  BY <1>1 DEF tables
<1>5. ASSUME Targeted(p)' PROVE target'[p] = role[req[p].role]
  <2>1. ~Answer(p) /\ req'[p] = req[p] /\ req[p].op \in RoleOps /\ pc'[p] # "target"
    BY <1>3, <1>5 DEF Targeted
  <2> QED
    BY <2>1, TargetPath, CurKept DEF Current
<1>6. ASSUME Updating(p)' PROVE cur'[p] = role[req[p].role]
  <2>1. /\ ~Answer(p) /\ req'[p] = req[p] /\ req[p].op = "update"
        /\ pc'[p] \in {"search", "reserve", "cas", "commit"}
    BY <1>3, <1>6 DEF Updating
  <2>2. CASE ReadCurrent(p)
    BY <2>1, <2>2 DEF ReadCurrent, Reject, TypeOK, RequestsTyped
  <2>3. CASE ~ReadCurrent(p)
    <3>1. \/ pc[p] = "search" /\ pc'[p] = "reserve"
          \/ pc[p] \in {"reserve", "cas"} /\ pc'[p] \in {"cas", "commit"}
      BY <2>1, <2>3, UpdatePath
    <3>2. cur' = cur /\ Updating(p)
      BY <2>1, <2>3, <3>1, CurKept DEF Updating
    <3> QED
      BY <3>2 DEF Current
  <2> QED
    BY <2>2, <2>3
<1>7. Current'
  BY <1>2, <1>3, <1>4, <1>5, <1>6 DEF Current, Targeted, Updating
<1> QED
  BY <1>2, <1>7 DEF Alone

LEMMA CurrentStep ==
    ASSUME Isolation = "serial", NamesInv, Alone, Current, [Next]_vars
    PROVE  Alone' /\ Current'
<1> USE DEF NamesInv, TypeInv
<1>1. ASSUME NEW p \in Procs, Begin(p) PROVE Alone' /\ Current'
  <2>1. \A o \in Procs : o # p => pc'[o] = "idle"
    BY <1>1 DEF Begin, TypeOK, RequestsTyped
  <2>2. pc'[p] = "boundary"
    BY <1>1 DEF Begin, TypeOK, RequestsTyped
  <2> QED
    BY <2>1, <2>2 DEF Alone, Current, Targeted, Updating
<1>2. ASSUME NEW p \in Procs, Commits(p) PROVE Alone' /\ Current'
  <2>1. \A o \in Procs : pc'[o] = "idle"
    BY <1>2, CommitEnds DEF Alone
  <2> QED
    BY <2>1 DEF Alone, Current, Targeted, Updating
<1>3. ASSUME NEW p \in Procs, Reads(p) \/ Locks(p) \/ Abort(p) PROVE Alone' /\ Current'
  BY <1>3, QuietCurrent
<1>4. ASSUME NEW m \in Clients, LoadAbility(m) PROVE Alone' /\ Current'
  BY <1>4 DEF LoadAbility, locals, Alone, Current, Targeted, Updating
<1>5. CASE UNCHANGED vars
  BY <1>5 DEF vars, Alone, Current, Targeted, Updating
<1> QED
  BY <1>1, <1>2, <1>3, <1>4, <1>5, StepCases DEF Next

\* What a commit changes a role by was then read at the version it changes.
LEMMA ReadsHere ==
    ASSUME NamesInv, Current, NEW p \in Procs, Changes(p)
    PROVE  /\ ~ReadElsewhere(p)
           /\ req[p].op = "update" => ReadAtExpected(cur[p], p)
<1>1. pc[p] = "commit" /\ req[p].op \in RoleOps
  BY DEF Changes
<1>2. RowHeld(p)
  BY <1>1 DEF RowHeld, Wrote
<1>3. role[req[p].role].version = req[p].exp
  BY <1>2 DEF NamesInv, TypeInv, LocksOK
<1>4. Targeted(p) /\ (req[p].op = "update" => Updating(p))
  BY <1>1 DEF Targeted, Updating
<1> QED
  BY <1>3, <1>4 DEF Current, ReadElsewhere, ReadAtExpected

LEMMA OneStep ==
    ASSUME Isolation = "serial", OneInv, [Next]_vars
    PROVE  OneInv' /\ [Registry!RegNext]_(Registry!regVars)
<1> USE DEF OneInv
<1>0. NamesInv /\ AuditInv
  BY DEF RegistryInv, CheckedInv
<1>1. RegistryInv' /\ Alone' /\ Current'
  BY <1>0, RegistryStep, CurrentStep
<1>2. \A p \in Procs : Changes(p) =>
        ~ReadElsewhere(p) /\ (req[p].op = "update" => ReadAtExpected(cur[p], p))
  BY <1>0, ReadsHere
<1>3. NamesReserved'
  BY <1>0, <1>2, NamesKeptStep
<1>4. [Registry!RegNext]_(Registry!regVars)
  BY <1>2, StepRefines
<1> QED
  BY <1>1, <1>3, <1>4

\* With one transaction at a time the service implements the registry: names stay
\* unique, each commit is one change of it, and nothing else changes a row.
THEOREM SerialImplements ==
    ASSUME Isolation = "serial"
    PROVE  Spec => ImplementsRegistry
<1>1. Init => OneInv
  <2>1. Init => Alone /\ Current
    BY DEF Init, Alone, Current, Targeted, Updating
  <2> QED
    BY <2>1, InitRegistry, InitNames DEF OneInv
<1>2. OneInv /\ [Next]_vars => OneInv' /\ [Registry!RegNext]_(Registry!regVars)
  BY OneStep
<1> QED
  BY <1>1, <1>2, InitRegistry, PTL DEF Spec, ImplementsRegistry, Registry!RegSpec
=============================================================================
