-------------------------- MODULE IamService_proofs --------------------------
(* Invariants of IamService for every number of requests, members, roles and   *)
(* names and either isolation level.  First the type invariant, which carries  *)
(* the agreement of control and data (FlowOK).                                 *)
EXTENDS IamService, TLAPS, WellFoundedInduction, FiniteSetTheorems

-----------------------------------------------------------------------------
(* Operators. *)

\* The least rank of some roles is one of their ranks, and no greater than any.
LEMMA MinIn ==
    ASSUME NEW S, S \subseteq Nat, S # {}
    PROVE  Min(S) \in S /\ \A n \in S : Min(S) <= n
<1> DEFINE R == OpToRel(<, Nat)
<1>1. IsWellFoundedOn(R, Nat)
  BY NatLessThanWellFounded
<1>2. \A x, y \in Nat : <<y, x>> \in R <=> y < x
  BY DEF OpToRel
<1> HIDE DEF R
<1>3. PICK x \in S : \A y \in S : ~(<<y, x>> \in R)
  BY <1>1, WFMin
<1>4. ASSUME NEW y \in S PROVE x =< y
  <2>1. x \in Nat /\ y \in Nat
    OBVIOUS
  <2>2. ~(y < x)
    BY <1>2, <1>3, <2>1
  <2> QED
    BY <2>1, <2>2
<1> QED
  BY <1>4 DEF Min

\* The decisions of a client are effects of the catalog's keys.
LEMMA DecisionsType == \A ts : Decisions(ts) \in [Keys -> Effects]
BY DEF Decisions, Decide, Resolve, Effects

\* A request has the fields of its operation.
LEMMA RequestFields ==
    ASSUME NEW q \in Requests
    PROVE  /\ q.op \in RoleOps \cup {"create", "setMember", "readMember"}
           /\ q.actor \in Actors
           /\ q.op \in RoleOps \cup {"create"} => q.role \in RoleIds
           /\ q.op \in {"create", "update"} => q.name \in Names /\ q.rank \in Ranks
           /\ q.op = "setPerms" => q.perm \in Tables
           /\ q.op \in RoleOps \cup {"setMember"} => q.exp \in Nat
           /\ q.op = "setMember" => q.roles \in SUBSET RoleIds
           /\ q.op \in {"setMember", "readMember"} => q.member \in Members
<1>1. \A e \in Versions : e \in Nat
  BY BoundAssumption DEF Versions
<1> QED
  BY <1>1 DEF Requests, CreateReqs, UpdateReqs, DeleteReqs, PermReqs, MemberReqs, ReadReqs, RoleOps

\* The rows after the update of a role's columns.
Updated(rows, r, name, rank) ==
    [rows EXCEPT ![r].name = name, ![r].rank = rank, ![r].version = @ + 1]

LEMMA RowUpdated ==
    ASSUME NEW rows \in [RoleIds -> RoleRows \cup {Nil}], NEW r \in RoleIds, rows[r] \in RoleRows,
           NEW name \in Names, NEW rank \in Ranks
    PROVE  LET new == Updated(rows, r, name, rank)
           IN  /\ new \in [RoleIds -> RoleRows \cup {Nil}]
               /\ \A s \in RoleIds \ {r} : new[s] = rows[s]
               /\ new[r] \in RoleRows /\ new[r].org = rows[r].org /\ new[r].prot = rows[r].prot
               /\ new[r].name = name /\ new[r].rank = rank
               /\ rows[r].version \in Nat /\ new[r].version = rows[r].version + 1
<1> DEFINE new == Updated(rows, r, name, rank)
           named == [rows[r] EXCEPT !.name = name]
           ranked == [named EXCEPT !.rank = rank]
           row == [ranked EXCEPT !.version = @ + 1]
<1>1. /\ named \in RoleRows /\ named.name = name
      /\ named.org = rows[r].org /\ named.prot = rows[r].prot /\ named.version = rows[r].version
  BY DEF RoleRows
<1>2. new = [rows EXCEPT ![r] = row]
  BY DEF Updated
<1> HIDE DEF named
<1>3. /\ ranked \in RoleRows /\ ranked.name = named.name /\ ranked.rank = rank
      /\ ranked.org = named.org /\ ranked.prot = named.prot /\ ranked.version = named.version
  BY <1>1 DEF RoleRows
<1> HIDE DEF ranked
<1>4. /\ row \in RoleRows /\ row.name = ranked.name /\ row.rank = ranked.rank
      /\ row.org = ranked.org /\ row.prot = ranked.prot
      /\ ranked.version \in Nat /\ row.version = ranked.version + 1
  BY <1>3 DEF RoleRows
<1> HIDE DEF row, new
<1>5. new[r] = row /\ \A s \in RoleIds \ {r} : new[s] = rows[s]
  BY <1>2
<1>6. new \in [RoleIds -> RoleRows \cup {Nil}]
  BY <1>2, <1>4
<1> QED
  BY <1>1, <1>2, <1>3, <1>4, <1>5, <1>6 DEF new

\* The order in which some members' rows are read.
LEMMA OrderType ==
    ASSUME NEW ms \in SUBSET Members, NEW order \in SetToSeqs(ms)
    PROVE  order \in Seq(Members)
<1>1. Cardinality(ms) \in Nat
  BY BoundAssumption, FS_Subset, FS_CardinalityType
<1>2. order \in [1 .. Cardinality(ms) -> ms]
  BY DEF SetToSeqs
<1> QED
  BY <1>1, <1>2

LEMMA RequestNotNil == Nil \notin Requests
BY NilAssumption

\* The boundary computed for an actor is one.
LEMMA BoundaryType ==
    ASSUME TablesTyped, NEW a \in Actors
    PROVE  Boundary(a) \in Boundaries
<1> DEFINE rs == MemberRoles(a.org, a.member)
           ranks == {role[r].rank : r \in rs}
<1>1. a.org \in Orgs /\ a.owner \in BOOLEAN
  BY BoundAssumption
<1>2. \A r \in rs : role[r] \in RoleRows
  BY DEF TablesTyped, MemberRoles, RolesIn, Live
<1>3. ranks \subseteq Ranks
  BY <1>2 DEF RoleRows
<1>4. rs # {} => Min(ranks) \in Ranks
  <2>1. rs # {} => ranks # {}
    OBVIOUS
  <2> HIDE DEF ranks
  <2> QED
    BY <1>3, <2>1, MinIn, BoundAssumption
<1>5. Held({perm[r] : r \in rs}) \in SUBSET Keys
  BY DEF Held
<1> QED
  BY <1>1, <1>4, <1>5 DEF Boundary, Boundaries

-----------------------------------------------------------------------------
(* The type invariant. *)

\* A transaction that ends leaves the other requests as they were.
LEMMA AnswerTyped ==
    ASSUME NEW p \in Procs, RequestsTyped, FlowOK, Answer(p)
    PROVE  RequestsTyped' /\ FlowOK'
<1>1. RequestsTyped'
  BY DEF RequestsTyped, Answer, Goto, Labels
<1>2. /\ pc'[p] = "idle" /\ queue'[p] = <<>>
      /\ \A o \in Procs \ {p} : /\ pc'[o] = pc[o] /\ req'[o] = req[o] /\ cur'[o] = cur[o]
                                /\ target'[o] = target[o] /\ queue'[o] = queue[o] /\ ids'[o] = ids[o]
  BY DEF RequestsTyped, Answer, Goto
<1>3. FlowOK'
  BY <1>2 DEF FlowOK, Updating, Targeted, Listing, OpsAt
<1> QED
  BY <1>1, <1>3

\* A request that goes on to a statement of its operation, with new locals.
LEMMA GotoTyped ==
    ASSUME NEW p \in Procs, NEW label \in Labels, RequestsTyped, FlowOK,
           Goto(p, label), req' = req, label # "idle", req[p] # Nil,
           req[p].op \in OpsAt(label),
           RequestsTyped',
           \A o \in Procs \ {p} :
                /\ cur'[o] = cur[o] /\ target'[o] = target[o]
                /\ queue'[o] = queue[o] /\ ids'[o] = ids[o],
           queue'[p] # <<>> <=> label = "invalidate",
           label \notin {"boundary", "target"} /\ req[p].op \in RoleOps => target'[p] # Nil,
           label \in {"search", "reserve", "cas", "commit"} /\ req[p].op = "update" => cur'[p] # Nil,
           label \in {"cas", "cascade"} /\ req[p].op = "delete" => ids'[p] \subseteq Members
    PROVE  FlowOK'
<1>1. pc'[p] = label /\ \A o \in Procs \ {p} : pc'[o] = pc[o]
  BY DEF Goto, RequestsTyped
<1> SUFFICES ASSUME NEW o \in Procs
             PROVE  /\ queue'[o] # <<>> <=> pc'[o] = "invalidate"
                    /\ pc'[o] # "idle" =>
                         /\ req'[o] # Nil
                         /\ req'[o].op \in OpsAt(pc'[o])
                         /\ Targeted(o)' => target'[o] # Nil
                         /\ Updating(o)' => cur'[o] # Nil
                         /\ Listing(o)' => ids'[o] \subseteq Members
  BY DEF FlowOK, OpsAt
<1>2. CASE o = p
  BY <1>1, <1>2 DEF Updating, Targeted, Listing
<1>3. CASE o # p
  BY <1>1, <1>3 DEF FlowOK, Updating, Targeted, Listing
<1> QED
  BY <1>2, <1>3

\* The same, when it has no sessions to delete and keeps the rows it read.
LEMMA GotoPlain ==
    ASSUME NEW p \in Procs, NEW label \in Labels, RequestsTyped, FlowOK,
           Goto(p, label), req' = req, label \notin {"idle", "invalidate"},
           pc[p] \notin {"idle", "invalidate"},
           req[p].op \in OpsAt(label),
           RequestsTyped', UNCHANGED <<target, cur, queue>>,
           \A o \in Procs \ {p} : ids'[o] = ids[o],
           label \in {"cas", "cascade"} /\ req[p].op = "delete" => ids'[p] \subseteq Members,
           pc[p] \in {"boundary", "target"} /\ req[p].op \in RoleOps => label \in {"boundary", "target"},
           label \in {"search", "reserve", "cas", "commit"} /\ req[p].op = "update" => cur[p] # Nil
    PROVE  FlowOK'
<1>1. req[p] # Nil /\ queue[p] = <<>>
  BY DEF FlowOK
<1>2. label \notin {"boundary", "target"} /\ req[p].op \in RoleOps => target[p] # Nil
  BY DEF FlowOK, Targeted
<1> QED
  BY <1>1, <1>2, GotoTyped

LEMMA InitTyped == Init => TypeOK
<1> SUFFICES ASSUME Init PROVE TypeOK
  OBVIOUS
<1>1. SeedName \in [Keyed -> RoleIds \cup {Nil}]
  <2> SUFFICES ASSUME NEW k \in Keyed PROVE SeedName[k] \in RoleIds \cup {Nil}
    BY DEF SeedName
  <2> QED
    BY DEF SeedName
<1>2. TablesTyped
  BY <1>1, SeedAssumption DEF Init, TablesTyped
<1>3. RequestsTyped
  BY DEF Init, RequestsTyped, Labels
<1>4. FlowOK
  BY DEF Init, FlowOK
<1> QED
  BY <1>2, <1>3, <1>4 DEF TypeOK

LEMMA BeginTyped ==
    ASSUME TypeOK, NEW p \in Procs, Begin(p)
    PROVE  TypeOK'
<1> USE DEF TypeOK
<1>1. TablesTyped'
  BY DEF Begin, tables, TablesTyped
<1>2. PICK q \in Requests : req' = [req EXCEPT ![p] = q]
  BY AskedAssumption DEF Begin
<1>3. /\ pc[p] = "idle" /\ pc' = [pc EXCEPT ![p] = "boundary"]
      /\ UNCHANGED <<bnd, target, cur, seen, ids, queue>>
  BY DEF Begin, locals
<1>4. RequestsTyped'
  BY <1>2, <1>3 DEF RequestsTyped, Labels
<1>5. q # Nil /\ q.op \in OpsAt("boundary")
  BY RequestFields, RequestNotNil DEF OpsAt
<1>6. FlowOK'
  <2>1. /\ pc'[p] = "boundary" /\ req'[p] = q
        /\ \A o \in Procs \ {p} : pc'[o] = pc[o] /\ req'[o] = req[o]
    BY <1>2, <1>3 DEF RequestsTyped
  <2> SUFFICES ASSUME NEW o \in Procs
               PROVE  /\ queue'[o] # <<>> <=> pc'[o] = "invalidate"
                      /\ pc'[o] # "idle" =>
                           /\ req'[o] # Nil
                           /\ req'[o].op \in OpsAt(pc'[o])
                           /\ Targeted(o)' => target'[o] # Nil
                           /\ Updating(o)' => cur'[o] # Nil
                           /\ Listing(o)' => ids'[o] \subseteq Members
    BY DEF FlowOK, OpsAt
  <2>2. CASE o = p
    BY <1>3, <1>5, <2>1, <2>2 DEF FlowOK, Updating, Targeted, Listing
  <2>3. CASE o # p
    BY <1>3, <2>1, <2>3 DEF FlowOK, Updating, Targeted, Listing
  <2> QED
    BY <2>2, <2>3
<1> QED
  BY <1>1, <1>4, <1>6

\* A check that fails, and a transaction that the database rolls back.
LEMMA RejectTyped ==
    ASSUME TypeOK, NEW p \in Procs, Answer(p), UNCHANGED tables
    PROVE  TypeOK'
BY AnswerTyped DEF TypeOK, tables, TablesTyped

\* A transaction that goes on to the sessions of some members.
LEMMA SignOutTyped ==
    ASSUME TypeOK, NEW p \in Procs, pc[p] \notin {"idle", "boundary", "target", "invalidate"},
           req[p].op \in OpsAt("invalidate"), NEW ms \in SUBSET Members, SignOut(p, ms),
           UNCHANGED <<req, bnd, target, cur, seen>>,
           ids' \in [Procs -> SUBSET (Members \cup RoleIds)],
           \A o \in Procs \ {p} : ids'[o] = ids[o]
    PROVE  RequestsTyped' /\ FlowOK'
<1> USE DEF TypeOK
<1>1. PICK order \in SetToSeqs(ms) :
         /\ queue' = [queue EXCEPT ![p] = order]
         /\ Goto(p, IF order = <<>> THEN "commit" ELSE "invalidate")
  BY DEF SignOut
<1>2. order \in Seq(Members)
  BY OrderType
<1>3. PICK label \in {"commit", "invalidate"} :
         Goto(p, label) /\ (order # <<>> <=> label = "invalidate")
  BY <1>1
<1>4. /\ req[p] # Nil /\ req[p].op # "update" /\ req[p].op \in OpsAt(label)
      /\ req[p].op \in RoleOps => target[p] # Nil
  BY <1>3 DEF FlowOK, OpsAt, RoleOps, Targeted
<1>5. RequestsTyped'
  BY <1>1, <1>2, <1>3 DEF RequestsTyped, Goto, Labels
<1>6. queue'[p] = order /\ \A o \in Procs \ {p} : queue'[o] = queue[o]
  BY <1>1 DEF RequestsTyped
<1>7. label \in Labels /\ label # "idle"
  BY DEF Labels
<1>8. FlowOK'
  BY <1>3, <1>4, <1>5, <1>6, <1>7, GotoTyped
<1> QED
  BY <1>5, <1>8

\* The statements before the writes.
LEMMA ReadsTyped ==
    ASSUME TypeOK, NEW p \in Procs,
           \/ ReadBoundary(p) \/ ReadTarget(p) \/ ReadCurrent(p) \/ Search(p) \/ Reserve(p)
           \/ ReadBefore(p) \/ ReadRoles(p) \/ ReadAssigned(p) \/ ReadVersion(p)
           \/ ListMembers(p)
    PROVE  TypeOK'
<1> USE DEF TypeOK
<1>0. TablesTyped'
  BY DEF ReadBoundary, ReadTarget, ReadCurrent, Search, Reserve, ReadBefore, ReadRoles, ReadAssigned,
         ReadVersion, ListMembers, Reject, tables, TablesTyped
<1>1. CASE UNCHANGED tables /\ Answer(p)
  BY <1>1, RejectTyped
<1>2. CASE ReadBoundary(p) /\ ~Answer(p)
  <2>1. /\ pc[p] = "boundary" /\ Goto(p, First(req[p].op))
        /\ bnd' = [bnd EXCEPT ![p] = Boundary(req[p].actor)]
        /\ UNCHANGED <<req, target, cur, seen, ids, queue>>
    BY <1>2 DEF ReadBoundary, Reject
  <2>2. req[p] # Nil /\ req[p] \in Requests
    BY <2>1 DEF FlowOK, RequestsTyped
  <2>3. Boundary(req[p].actor) \in Boundaries
    BY <2>2, RequestFields, BoundaryType
  <2>4. PICK label \in {"search", "roles", "assigned", "target"} :
           /\ label = First(req[p].op) /\ req[p].op \in OpsAt(label)
           /\ label = "search" => req[p].op = "create"
           /\ req[p].op \in RoleOps => label = "target"
    BY <2>2, RequestFields DEF First, OpsAt, RoleOps
  <2>5. RequestsTyped'
    BY <2>1, <2>3, <2>4 DEF RequestsTyped, Goto, Labels
  <2> QED
    BY <1>0, <2>1, <2>2, <2>4, <2>5, GotoPlain DEF Labels
<1>3. CASE ReadTarget(p) /\ ~Answer(p)
  <2> DEFINE label == CASE req[p].op = "update" -> "current"
                        [] req[p].op = "delete" -> "list"
                        [] OTHER                -> "before"
  <2>1. /\ pc[p] = "target" /\ Goto(p, label) /\ UNCHANGED <<req, bnd, cur, seen, ids, queue>>
        /\ req[p].role \in RolesIn(req[p].actor.org)
        /\ target' = [target EXCEPT ![p] = role[req[p].role]]
    BY <1>3 DEF ReadTarget, Reject, TargetAllowed
  <2>2. req[p] # Nil /\ req[p].op \in RoleOps /\ queue[p] = <<>>
    BY <2>1 DEF FlowOK, OpsAt
  <2>3. label \in {"current", "list", "before"} /\ req[p].op \in OpsAt(label)
    BY <2>2 DEF OpsAt, RoleOps
  <2>4. role[req[p].role] \in RoleRows /\ role[req[p].role] # Nil
    BY <2>1, NilAssumption DEF RolesIn, Live, TablesTyped
  <2> HIDE DEF label
  <2>5. RequestsTyped'
    <3>1. target' \in [Procs -> RoleRows \cup {Nil}]
      BY <2>1, <2>4 DEF RequestsTyped
    <3> QED
      BY <2>1, <2>3, <3>1 DEF RequestsTyped, Goto, Labels
  <2>6. target'[p] # Nil /\ \A o \in Procs \ {p} : target'[o] = target[o]
    BY <2>1, <2>4 DEF RequestsTyped
  <2> QED
    BY <1>0, <2>1, <2>2, <2>3, <2>5, <2>6, GotoTyped DEF Labels
<1>4. CASE ReadCurrent(p) /\ ~Answer(p)
  <2>1. /\ pc[p] = "current" /\ Live(req[p].role)
        /\ Goto(p, IF role[req[p].role].name # req[p].name THEN "search" ELSE "cas")
        /\ cur' = [cur EXCEPT ![p] = role[req[p].role]]
        /\ UNCHANGED <<req, bnd, target, seen, ids, queue>>
    BY <1>4 DEF ReadCurrent, Reject
  <2>2. /\ req[p] # Nil /\ req[p].op = "update" /\ req[p] \in Requests
        /\ queue[p] = <<>> /\ target[p] # Nil
    BY <2>1 DEF FlowOK, OpsAt, RequestsTyped, Targeted, RoleOps
  <2>3. role[req[p].role] \in RoleRows /\ role[req[p].role] # Nil
    BY <2>1, <2>2, RequestFields, NilAssumption DEF Live, TablesTyped, RoleOps
  <2>4. RequestsTyped'
    <3>1. cur' \in [Procs -> RoleRows \cup {Nil}]
      BY <2>1, <2>3 DEF RequestsTyped
    <3>2. PICK label \in Labels : pc' = [pc EXCEPT ![p] = label]
      BY <2>1 DEF Goto, Labels
    <3> QED
      BY <2>1, <3>1, <3>2 DEF RequestsTyped
  <2>5. PICK label \in {"search", "cas"} : Goto(p, label)
    BY <2>1
  <2>6. cur'[p] # Nil /\ (\A o \in Procs \ {p} : cur'[o] = cur[o])
    BY <2>1, <2>3 DEF RequestsTyped
  <2> QED
    <3>1. label \in Labels /\ req[p].op \in OpsAt(label) /\ label \notin {"idle", "invalidate"}
      BY <2>2, <2>5 DEF Labels, OpsAt, RoleOps
    <3> QED
      BY <1>0, <2>1, <2>2, <2>4, <2>5, <2>6, <3>1, GotoTyped
<1>5. CASE Reserve(p) /\ ~Answer(p)
  <2>1. /\ pc[p] = "reserve" /\ Goto(p, IF req[p].op = "create" THEN "commit" ELSE "cas")
        /\ UNCHANGED <<req, bnd, target, cur, seen, ids, queue>>
    BY <1>5 DEF Reserve, Reject, locals
  <2>2. /\ req[p].op \in {"create", "update"}
        /\ req[p].op = "update" => cur[p] # Nil
    BY <2>1 DEF FlowOK, OpsAt, Updating
  <2>3. RequestsTyped'
    BY <2>1 DEF RequestsTyped, Goto, Labels
  <2>4. PICK label \in {"commit", "cas"} :
           Goto(p, label) /\ req[p].op \in OpsAt(label)
    BY <2>1, <2>2 DEF OpsAt, RoleOps
  <2> QED
    BY <1>0, <2>1, <2>2, <2>3, <2>4, GotoPlain DEF Labels
<1>12. CASE Search(p) /\ ~Answer(p)
  <2>1. pc[p] = "search" /\ Goto(p, "reserve") /\ UNCHANGED <<req, bnd, target, cur, seen, ids, queue>>
    BY <1>12 DEF Search, Reject, locals
  <2>2. /\ req[p].op \in {"create", "update"}
        /\ req[p].op = "update" => cur[p] # Nil
    BY <2>1 DEF FlowOK, OpsAt, Updating
  <2>3. RequestsTyped'
    BY <2>1 DEF RequestsTyped, Goto, Labels
  <2> QED
    BY <1>0, <2>1, <2>2, <2>3, GotoPlain DEF Labels, OpsAt
<1>6. CASE ReadBefore(p) /\ ~Answer(p)
  <2>1. /\ pc[p] = "before" /\ Goto(p, "cas")
        /\ seen' = [seen EXCEPT ![p] = perm[req[p].role]]
        /\ UNCHANGED <<req, bnd, target, cur, ids, queue>>
    BY <1>6 DEF ReadBefore, Reject
  <2>2. req[p].op = "setPerms" /\ req[p] \in Requests
    BY <2>1 DEF FlowOK, OpsAt, RequestsTyped
  <2>3. perm[req[p].role] \in Tables
    BY <2>2, RequestFields DEF TablesTyped, RoleOps
  <2>4. RequestsTyped'
    BY <2>1, <2>3 DEF RequestsTyped, Goto, Labels
  <2> QED
    BY <1>0, <2>1, <2>2, <2>4, GotoPlain DEF Labels, OpsAt, RoleOps
<1>7. CASE ReadRoles(p) /\ ~Answer(p)
  <2>1. pc[p] = "roles" /\ Goto(p, "assigned") /\ UNCHANGED <<req, bnd, target, cur, seen, ids, queue>>
    BY <1>7 DEF ReadRoles, Reject, locals
  <2>2. req[p].op = "setMember"
    BY <2>1 DEF FlowOK, OpsAt
  <2>3. RequestsTyped'
    BY <2>1 DEF RequestsTyped, Goto, Labels
  <2> QED
    BY <1>0, <2>1, <2>2, <2>3, GotoPlain DEF Labels, OpsAt
<1>8. CASE ReadAssigned(p) /\ ~Answer(p)
  <2>1. /\ pc[p] = "assigned"
        /\ Goto(p, IF req[p].op = "setMember" THEN "cas" ELSE "version")
        /\ ids' = [ids EXCEPT ![p] = MemberRoles(req[p].actor.org, req[p].member)]
        /\ UNCHANGED <<req, bnd, target, cur, seen, queue>>
    BY <1>8 DEF ReadAssigned, Reject
  <2>2. req[p].op \in {"setMember", "readMember"} /\ req[p] \in Requests
    BY <2>1 DEF FlowOK, OpsAt, RequestsTyped
  <2>3. MemberRoles(req[p].actor.org, req[p].member) \subseteq RoleIds
    BY DEF MemberRoles, RolesIn
  <2>4. RequestsTyped'
    BY <2>1, <2>3 DEF RequestsTyped, Goto, Labels
  <2>5. PICK label \in {"cas", "version"} : Goto(p, label) /\ req[p].op \in OpsAt(label)
    BY <2>1, <2>2 DEF OpsAt, RoleOps
  <2> QED
    BY <1>0, <2>1, <2>2, <2>4, <2>5, GotoPlain DEF Labels
<1>9. CASE ListMembers(p)
  <2> DEFINE ms == {m \in Members : req[p].role \in assign[m]}
  <2>1. /\ pc[p] = "list" /\ ids' = [ids EXCEPT ![p] = ms]
        /\ UNCHANGED <<req, bnd, target, cur, seen>>
    BY <1>9 DEF ListMembers
  <2>2. ms \in SUBSET Members
    OBVIOUS
  <2>3. /\ ids' \in [Procs -> SUBSET (Members \cup RoleIds)] /\ ids'[p] = ms
        /\ \A o \in Procs \ {p} : ids'[o] = ids[o]
    BY <2>1, <2>2 DEF RequestsTyped
  <2>4. CASE req[p].op = "delete" /\ Goto(p, "cas") /\ UNCHANGED queue
    <3>1. RequestsTyped'
      BY <2>1, <2>3, <2>4 DEF RequestsTyped, Goto, Labels
    <3> HIDE DEF ms
    <3> QED
      BY <1>0, <2>1, <2>2, <2>3, <2>4, <3>1, GotoPlain DEF Labels, OpsAt, RoleOps
  <2>5. CASE req[p].op = "setPerms" /\ SignOut(p, ms)
    <3> HIDE DEF ms
    <3>1. req[p].op \in OpsAt("invalidate")
      BY <2>5 DEF OpsAt
    <3> QED
      BY <1>0, <2>1, <2>2, <2>3, <2>5, <3>1, SignOutTyped
  <2> QED
    BY <1>9, <2>4, <2>5 DEF ListMembers
<1>10. CASE ReadVersion(p)
  BY <1>1, <1>10 DEF ReadVersion
<1>11. UNCHANGED tables
  BY DEF ReadBoundary, ReadTarget, ReadCurrent, Search, Reserve, ReadBefore, ReadRoles, ReadAssigned,
         ReadVersion, ListMembers, Reject, tables
<1> QED
  BY <1>1, <1>2, <1>3, <1>4, <1>5, <1>6, <1>7, <1>8, <1>9, <1>10, <1>11, <1>12

\* A session deletion takes a member off the queue.
LEMMA InvalidateTyped ==
    ASSUME TypeOK, NEW p \in Procs, Invalidate(p)
    PROVE  TypeOK'
<1> USE DEF TypeOK
<1> DEFINE rest == Tail(queue[p])
           gone == IF session[Head(queue[p])] = Nil THEN ids[p] \ {Head(queue[p])} ELSE ids[p]
<1>1. /\ pc[p] = "invalidate" /\ Goto(p, IF rest = <<>> THEN "commit" ELSE "invalidate")
      /\ ids' = [ids EXCEPT ![p] = gone] /\ queue' = [queue EXCEPT ![p] = rest]
      /\ UNCHANGED <<tables, req, bnd, target, cur, seen>>
  BY DEF Invalidate, RequestsTyped
<1>2. /\ req[p] # Nil /\ req[p].op \in OpsAt("commit") \cap OpsAt("invalidate")
      /\ req[p].op # "update" /\ (req[p].op \in RoleOps => target[p] # Nil)
      /\ queue[p] # <<>> /\ queue[p] \in Seq(Members)
  BY <1>1 DEF FlowOK, OpsAt, RoleOps, Targeted, RequestsTyped
<1>3. rest \in Seq(Members) /\ gone \subseteq Members \cup RoleIds
  BY <1>2 DEF RequestsTyped
<1> HIDE DEF rest, gone
<1>4. PICK label \in {"commit", "invalidate"} :
         Goto(p, label) /\ (rest # <<>> <=> label = "invalidate")
  BY <1>1
<1>5. RequestsTyped'
  BY <1>1, <1>3, <1>4 DEF RequestsTyped, Goto, Labels
<1>6. queue'[p] = rest /\ \A o \in Procs \ {p} : queue'[o] = queue[o] /\ ids'[o] = ids[o]
  BY <1>1 DEF RequestsTyped
<1>7. label \in Labels /\ label # "idle" /\ req[p].op \in OpsAt(label)
  BY <1>2 DEF Labels
<1>8. FlowOK'
  BY <1>1, <1>2, <1>4, <1>5, <1>6, <1>7, GotoTyped
<1>9. TablesTyped'
  BY <1>1 DEF tables, TablesTyped
<1> QED
  BY <1>5, <1>8, <1>9

\* The compare-and-sets and the deletion of sessions.
LEMMA LocksTyped ==
    ASSUME TypeOK, NEW p \in Procs,
           \/ CasRole(p) \/ Cascade(p) \/ CasMember(p) \/ ClearRoles(p)
           \/ AssignRoles(p) \/ Invalidate(p)
    PROVE  TypeOK'
<1> USE DEF TypeOK
<1>0. UNCHANGED tables /\ TablesTyped'
  BY DEF CasRole, Cascade, CasMember, ClearRoles, AssignRoles, Invalidate, Reject, tables,
         TablesTyped
<1>1. CASE Answer(p)
  BY <1>0, <1>1, RejectTyped
<1>2. CASE CasRole(p) /\ ~Answer(p)
  <2>1. /\ pc[p] = "cas" /\ req[p].op \in RoleOps
        /\ Goto(p, CASE req[p].op = "update"   -> "commit"
                      [] req[p].op = "setPerms" -> "list"
                      [] OTHER                  -> "cascade")
        /\ UNCHANGED <<req, bnd, target, cur, seen, ids, queue>>
    BY <1>2 DEF CasRole, Reject, locals
  <2>2. /\ req[p].op = "update" => cur[p] # Nil
        /\ req[p].op = "delete" => ids[p] \subseteq Members
    BY <2>1 DEF FlowOK, Updating, Listing
  <2>3. PICK label \in {"commit", "list", "cascade"} :
           /\ Goto(p, label) /\ req[p].op \in OpsAt(label)
    BY <2>1 DEF OpsAt, RoleOps
  <2>4. RequestsTyped'
    BY <2>1, <2>3 DEF RequestsTyped, Goto, Labels
  <2> QED
    BY <1>0, <2>1, <2>2, <2>3, <2>4, GotoPlain DEF Labels
<1>3. CASE ~Answer(p) /\ (CasMember(p) \/ ClearRoles(p))
  <2>1. UNCHANGED <<req, bnd, target, cur, seen, ids, queue>>
    BY <1>3 DEF CasMember, ClearRoles, Reject, locals
  <2>2. PICK label \in {"clear", "assign"} :
           /\ pc[p] \in {"cas", "clear"} /\ Goto(p, label) /\ req[p].op = "setMember"
    BY <1>3 DEF CasMember, ClearRoles, Reject, FlowOK, OpsAt
  <2>3. RequestsTyped'
    BY <2>1, <2>2 DEF RequestsTyped, Goto, Labels
  <2>4. req[p].op \in OpsAt(label) /\ label \in Labels /\ req[p].op \notin RoleOps
    BY <2>2 DEF OpsAt, Labels, RoleOps
  <2> QED
    BY <1>0, <2>1, <2>2, <2>3, <2>4, GotoPlain
<1>4. CASE AssignRoles(p) /\ ~Answer(p)
  <2>1. /\ pc[p] = "assign" /\ SignOut(p, {req[p].member})
        /\ ids' = [ids EXCEPT ![p] = {req[p].member}]
        /\ UNCHANGED <<req, bnd, target, cur, seen>>
    BY <1>4 DEF AssignRoles, Reject
  <2>2. req[p] \in Requests /\ req[p].op = "setMember"
    BY <2>1 DEF FlowOK, RequestsTyped, OpsAt
  <2>3. {req[p].member} \in SUBSET Members
    BY <2>2, RequestFields
  <2>4. /\ ids' \in [Procs -> SUBSET (Members \cup RoleIds)]
        /\ \A o \in Procs \ {p} : ids'[o] = ids[o]
    BY <2>1, <2>3 DEF RequestsTyped
  <2>5. req[p].op \in OpsAt("invalidate")
    BY <2>2 DEF OpsAt
  <2> QED
    BY <1>0, <2>1, <2>3, <2>4, <2>5, SignOutTyped
<1>5. CASE Invalidate(p)
  BY <1>5, InvalidateTyped
<1>6. CASE Cascade(p)
  <2>1. /\ pc[p] = "cascade" /\ SignOut(p, ids[p]) /\ UNCHANGED <<req, bnd, target, cur, seen, ids>>
    BY <1>6 DEF Cascade
  <2>2. req[p].op \in OpsAt("invalidate")
    BY <2>1 DEF FlowOK, OpsAt
  <2>3. ids[p] \in SUBSET Members
    BY <2>1 DEF FlowOK, OpsAt, Listing
  <2> QED
    BY <1>0, <2>1, <2>2, <2>3, SignOutTyped DEF RequestsTyped
<1> QED
  BY <1>1, <1>2, <1>3, <1>4, <1>5, <1>6

\* The commits: the request ends, so only the tables are left to type.
LEMMA CommitsTyped ==
    ASSUME TypeOK, LocksOK, NEW p \in Procs,
           \/ CommitCreate(p) \/ CommitUpdate(p) \/ CommitDelete(p)
           \/ CommitPerms(p) \/ CommitMember(p)
    PROVE  TypeOK'
<1> USE DEF TypeOK
<1>0. Answer(p) /\ pc[p] = "commit"
  BY DEF CommitCreate, CommitUpdate, CommitDelete, CommitPerms, CommitMember
<1>1. RequestsTyped' /\ FlowOK'
  BY <1>0, AnswerTyped
<1>2. req[p] # Nil /\ req[p] \in Requests /\ (req[p].op = "update" => cur[p] \in RoleRows)
  BY <1>0 DEF FlowOK, RequestsTyped, Updating
<1>3. \A ms : SignedOut(ms) => session' \in [Members -> [Keys -> Effects] \cup {Nil}]
  BY DEF SignedOut, TablesTyped
<1>4. CASE CommitCreate(p)
  <2> DEFINE row == [org |-> req[p].actor.org, name |-> req[p].name, rank |-> req[p].rank,
                     prot |-> FALSE, version |-> 0]
  <2>1. req[p].op = "create" /\ role' = [role EXCEPT ![req[p].role] = row]
    BY <1>4 DEF CommitCreate
  <2>2. req[p].actor.org \in Orgs
    BY <1>2, RequestFields, BoundAssumption
  <2>3. row \in RoleRows /\ NewKey(p) \in Keyed /\ req[p].role \in RoleIds
    BY <1>2, <2>1, <2>2, RequestFields DEF RoleRows, NewKey, Keyed
  <2>4. nameRow' = [nameRow EXCEPT ![NewKey(p)] = req[p].role]
        /\ UNCHANGED <<perm, assign, mver, session>>
    BY <1>4 DEF CommitCreate
  <2> HIDE DEF row
  <2>5. TablesTyped'
    BY <2>1, <2>3, <2>4 DEF TablesTyped
  <2> QED
    BY <1>1, <2>5
<1>5. CASE CommitUpdate(p)
  <2> DEFINE r == req[p].role
             old == OldKey(p)
  <2>1. /\ req[p].op = "update"
        /\ role' = [role EXCEPT ![r].name = req[p].name, ![r].rank = req[p].rank,
                                ![r].version = @ + 1]
        /\ nameRow' = IF Renames(p) THEN [nameRow EXCEPT ![NewKey(p)] = r, ![old] = Nil] ELSE nameRow
        /\ UNCHANGED <<perm, assign, mver, session>>
    BY <1>5 DEF CommitUpdate
  <2>2. /\ r \in RoleIds /\ req[p].name \in Names /\ req[p].rank \in Ranks
        /\ NewKey(p) \in Keyed /\ old \in Keyed
    BY <1>2, <2>1, RequestFields DEF RoleOps, NewKey, OldKey, Keyed, RoleRows
  <2>3. nameRow' \in [Keyed -> RoleIds \cup {Nil}]
    <3> HIDE DEF old, r
    <3> QED
      BY <2>1, <2>2 DEF TablesTyped
  <2>4. role' \in [RoleIds -> RoleRows \cup {Nil}]
    <3>1. Live(r)
      BY <1>0, <2>1 DEF LocksOK, RowHeld, Wrote, RoleOps
    <3>2. role[r] \in RoleRows
      BY <2>2, <3>1 DEF Live, TablesTyped
    <3>3. role' = Updated(role, r, req[p].name, req[p].rank)
      BY <2>1 DEF Updated
    <3> QED
      BY <2>2, <3>2, <3>3, RowUpdated DEF TablesTyped
  <2>5. TablesTyped'
    BY <2>1, <2>3, <2>4 DEF TablesTyped
  <2> QED
    BY <1>1, <2>5
<1>6. CASE CommitDelete(p)
  <2> DEFINE r == req[p].role
  <2>1. /\ req[p].op = "delete" /\ SignedOut(ids[p])
        /\ role' = [role EXCEPT ![r] = Nil]
        /\ nameRow' = [k \in Keyed |-> IF nameRow[k] = r THEN Nil ELSE nameRow[k]]
        /\ perm' = [perm EXCEPT ![r] = NoEffects]
        /\ assign' = [m \in Members |-> assign[m] \ {r}]
        /\ mver' = mver
    BY <1>6 DEF CommitDelete
  <2>2. NoEffects \in Tables
    BY DEF NoEffects, Tables, Effects
  <2>3. TablesTyped'
    BY <1>3, <2>1, <2>2 DEF TablesTyped
  <2> QED
    BY <1>1, <2>3
<1>7. CASE CommitPerms(p)
  <2> DEFINE r == req[p].role
  <2>1. /\ req[p].op = "setPerms" /\ SignedOut(ids[p])
        /\ role' = [role EXCEPT ![r].version = @ + 1]
        /\ perm' = [perm EXCEPT ![r] = req[p].perm]
        /\ UNCHANGED <<nameRow, assign, mver>>
    BY <1>7 DEF CommitPerms
  <2>2. r \in RoleIds /\ req[p].perm \in Tables
    BY <1>2, <2>1, RequestFields DEF RoleOps
  <2>3. Live(r)
    BY <1>0, <2>1 DEF LocksOK, RowHeld, Wrote, RoleOps
  <2>4. role[r] \in RoleRows
    BY <2>2, <2>3 DEF Live, TablesTyped
  <2>5. role'[r] \in RoleRows /\ \A s \in RoleIds \ {r} : role'[s] = role[s]
    BY <2>1, <2>2, <2>4 DEF RoleRows, TablesTyped
  <2>6. role' \in [RoleIds -> RoleRows \cup {Nil}]
    BY <2>1, <2>2, <2>5 DEF TablesTyped
  <2>7. TablesTyped'
    BY <1>3, <2>1, <2>2, <2>6 DEF TablesTyped
  <2> QED
    BY <1>1, <2>7
<1>8. CASE CommitMember(p)
  <2> DEFINE v == MemberVersion(req[p].member) + 1
  <2>1. /\ req[p].op = "setMember" /\ SignedOut(ids[p])
        /\ assign' = [assign EXCEPT ![req[p].member] = req[p].roles]
        /\ mver' = [mver EXCEPT ![req[p].member] = v]
        /\ UNCHANGED <<role, nameRow, perm>>
    BY <1>8 DEF CommitMember
  <2>2. req[p].member \in Members /\ req[p].roles \in SUBSET RoleIds
    BY <1>2, <2>1, RequestFields
  <2>3. v \in Nat
    BY <2>2 DEF TablesTyped, MemberVersion
  <2> HIDE DEF v
  <2>4. TablesTyped'
    BY <1>3, <2>1, <2>2, <2>3 DEF TablesTyped
  <2> QED
    BY <1>1, <2>4
<1> QED
  BY <1>4, <1>5, <1>6, <1>7, <1>8

\* A member's client signs in.
LEMMA LoadTyped ==
    ASSUME TypeOK, NEW m \in Members, LoadAbility(m)
    PROVE  TypeOK'
<1>1. View(m) \in [Keys -> Effects]
  BY DecisionsType DEF View
<1>2. UNCHANGED <<role, nameRow, perm, assign, mver, pc, req, bnd, target, cur, seen, ids, queue>>
  BY DEF LoadAbility, locals
<1>3. session' = [session EXCEPT ![m] = View(m)]
  BY DEF LoadAbility
<1>4. TablesTyped'
  BY <1>1, <1>2, <1>3 DEF TypeOK, TablesTyped
<1>5. RequestsTyped' /\ FlowOK'
  BY <1>2 DEF TypeOK, RequestsTyped, FlowOK, Updating, Targeted, Listing
<1> QED
  BY <1>4, <1>5 DEF TypeOK

-----------------------------------------------------------------------------
(* The locks.  Between its compare-and-set and its end a role operation alone  *)
(* holds its row; this is also what keeps the row it rewrites in the table.    *)

\* A request that ends holds nothing; the rows of the others are untouched.
LEMMA EndKeepsLocks ==
    ASSUME TypeOK, LocksOK, NEW p \in Procs, Answer(p),
           \A o \in Procs \ {p} : RowHeld(o) => role'[req[o].role] = role[req[o].role]
    PROVE  LocksOK'
<1>1. pc'[p] = "idle" /\ (\A o \in Procs \ {p} : pc'[o] = pc[o] /\ req'[o] = req[o])
  BY DEF Answer, Goto, TypeOK, RequestsTyped
<1>2. ~RowHeld(p)' /\ \A o \in Procs \ {p} : RowHeld(o)' <=> RowHeld(o)
  BY <1>1 DEF RowHeld, Wrote
<1> QED
  BY <1>1, <1>2 DEF LocksOK, Live

\* A request that goes on holds the row it held, if any.
LEMMA GotoKeepsLocks ==
    ASSUME TypeOK, LocksOK, NEW p \in Procs, NEW label, Goto(p, label), req' = req, role' = role,
           RowHeld(p)' => RowHeld(p)
    PROVE  LocksOK'
<1>1. \A o \in Procs \ {p} : pc'[o] = pc[o]
  BY DEF Goto, TypeOK, RequestsTyped
<1>2. \A o \in Procs : RowHeld(o)' => RowHeld(o)
  BY <1>1 DEF RowHeld, Wrote
<1> QED
  BY <1>2 DEF LocksOK, Live

LEMMA CasLocks ==
    ASSUME TypeOK, LocksOK, NEW p \in Procs, CasRole(p)
    PROVE  LocksOK'
<1>1. CASE Answer(p)
  BY <1>1, EndKeepsLocks DEF CasRole, Reject, tables
<1>2. CASE ~Answer(p)
  <2>1. /\ Live(req[p].role) /\ role[req[p].role].version = req[p].exp
        /\ UNCHANGED <<role, req>>
        /\ req[p].op \in RoleOps /\ pc[p] = "cas" /\ Unlocked(p)
    BY <1>2 DEF CasRole, RoleFits, Reject, tables
  <2>2. \A o \in Procs \ {p} : pc'[o] = pc[o]
    BY <1>2 DEF CasRole, Reject, Goto, TypeOK, RequestsTyped
  <2>3. \A o \in Procs \ {p} : RowHeld(o)' <=> RowHeld(o)
    BY <2>1, <2>2 DEF RowHeld, Wrote
  <2>4. \A o \in Procs \ {p} : RowHeld(o) => req[o].role # req[p].role
    <3>1. \A o \in Others(p) : ~HoldsRole(o, req[p].role)
      BY <2>1 DEF Unlocked, Waits
    <3> QED
      BY <3>1 DEF Others, HoldsRole, RowHeld
  <2> QED
    BY <2>1, <2>3, <2>4 DEF LocksOK, Live
<1> QED
  BY <1>1, <1>2
-----------------------------------------------------------------------------
(* The shapes of the steps. *)

Reads(p) ==
    \/ ReadBoundary(p) \/ ReadTarget(p) \/ ReadCurrent(p) \/ Search(p) \/ Reserve(p)
    \/ ReadBefore(p) \/ ReadRoles(p) \/ ReadAssigned(p) \/ ReadVersion(p)
    \/ ListMembers(p)
Locks(p) ==
    \/ CasRole(p) \/ Cascade(p) \/ CasMember(p) \/ ClearRoles(p)
    \/ AssignRoles(p) \/ Invalidate(p)
Commits(p) ==
    \/ CommitCreate(p) \/ CommitUpdate(p) \/ CommitDelete(p)
    \/ CommitPerms(p) \/ CommitMember(p)

LEMMA StepCases == \A p : Step(p) <=> Reads(p) \/ Locks(p) \/ Commits(p)
BY DEF Step, Reads, Locks, Commits

\* A transaction goes on to the first session it has to delete or to its commit.
LEMMA SignOutGoes ==
    ASSUME NEW p \in Procs, NEW ms, SignOut(p, ms)
    PROVE  \E label \in {"invalidate", "commit"} : Goto(p, label)
BY DEF SignOut

\* No statement before the commit changes a table; the request ends or goes on.
LEMMA QuietSteps ==
    ASSUME TypeOK, NEW p \in Procs, Reads(p) \/ Locks(p) \/ Abort(p)
    PROVE  /\ UNCHANGED tables
           /\ pc[p] # "idle"
           /\ Answer(p) \/ (req' = req /\ \E label : Goto(p, label))
<1>1. CASE ReadBoundary(p) \/ ReadTarget(p) \/ ReadCurrent(p) \/ Search(p) \/ Reserve(p)
  BY <1>1 DEF ReadBoundary, ReadTarget, ReadCurrent, Search, Reserve, Reject, tables
<1>2. CASE ReadBefore(p) \/ ReadRoles(p) \/ ReadAssigned(p) \/ ReadVersion(p)
  BY <1>2 DEF ReadBefore, ReadRoles, ReadAssigned, ReadVersion, Reject, tables
<1>3. \A ms : SignOut(p, ms) => \E label : Goto(p, label)
  BY SignOutGoes
<1>4. CASE ListMembers(p) \/ Cascade(p)
  <2>1. UNCHANGED tables /\ pc[p] # "idle" /\ req' = req
    BY <1>4 DEF ListMembers, Cascade, tables
  <2>2. \E label : Goto(p, label)
    BY <1>3, <1>4 DEF ListMembers, Cascade
  <2> QED
    BY <2>1, <2>2
<1>5. CASE AssignRoles(p)
  <2>1. UNCHANGED tables /\ pc[p] # "idle"
    BY <1>5 DEF AssignRoles, Reject, tables
  <2>2. Answer(p) \/ (req' = req /\ SignOut(p, {req[p].member}))
    BY <1>5 DEF AssignRoles, Reject
  <2> QED
    BY <1>3, <2>1, <2>2
<1>6. CASE CasRole(p) \/ CasMember(p) \/ ClearRoles(p)
  BY <1>6 DEF CasRole, CasMember, ClearRoles, Reject, tables
<1>7. CASE Invalidate(p)
  BY <1>7 DEF Invalidate, tables
<1>8. CASE Abort(p)
  BY <1>8 DEF Abort, tables
<1> QED
  BY <1>1, <1>2, <1>4, <1>5, <1>6, <1>7, <1>8 DEF Reads, Locks

\* A commit ends its request, adds one event and leaves the roles of others.
LEMMA CommitShape ==
    ASSUME TypeOK, NEW p \in Procs, Commits(p)
    PROVE  /\ Answer(p) /\ pc[p] = "commit"
           /\ req[p] \in Requests /\ req[p].op \in RoleOps \cup {"create", "setMember"}
           /\ \A r \in RoleIds :
                req[p].op = "setMember" \/ r # req[p].role => role'[r] = role[r]
           /\ req[p].op # "delete" => \A r \in RoleIds : Retired(r)' <=> Retired(r)
           /\ req[p].op = "delete" => \A r \in RoleIds :
                Retired(r)' <=> Retired(r) \/ r = req[p].role
<1>0. Answer(p) /\ pc[p] = "commit"
  BY DEF Commits, CommitCreate, CommitUpdate, CommitDelete, CommitPerms, CommitMember
<1>1. req[p] \in Requests /\ req[p].op \in RoleOps \cup {"create", "setMember"}
  BY <1>0 DEF TypeOK, FlowOK, RequestsTyped, OpsAt
<1>2. CASE CommitCreate(p)
  <2>1. audit' = audit \cup {Event("IAM_ROLE_CREATED", req[p].role, 0, 0, Nil)}
    BY <1>2 DEF CommitCreate, Logged
  <2>2. \A r : Retired(r)' <=> Retired(r)
    BY <2>1 DEF Retired, Event
  <2> QED
    BY <1>0, <1>1, <1>2, <2>2 DEF CommitCreate, TypeOK, TablesTyped
<1>3. CASE CommitUpdate(p)
  <2>1. PICK e : e.type = "IAM_ROLE_UPDATED" /\ audit' = audit \cup {e}
    BY <1>3 DEF CommitUpdate, Logged, Event
  <2>2. \A r : Retired(r)' <=> Retired(r)
    BY <2>1 DEF Retired
  <2> QED
    BY <1>0, <1>1, <1>3, <2>2 DEF CommitUpdate, TypeOK, TablesTyped
<1>4. CASE CommitDelete(p)
  <2>1. PICK e : /\ e.type = "IAM_ROLE_DELETED" /\ e.target = req[p].role
                 /\ audit' = audit \cup {e}
    BY <1>4 DEF CommitDelete, Logged, Event
  <2>2. \A r : Retired(r)' <=> Retired(r) \/ r = req[p].role
    BY <2>1 DEF Retired
  <2>3. req[p].op = "delete" /\ role' = [role EXCEPT ![req[p].role] = Nil]
    BY <1>4 DEF CommitDelete
  <2>4. \A r \in RoleIds : r # req[p].role => role'[r] = role[r]
    BY <2>3 DEF TypeOK, TablesTyped
  <2> QED
    BY <1>0, <1>1, <2>2, <2>3, <2>4
<1>5. CASE CommitPerms(p)
  <2>1. PICK e : e.type = "IAM_ROLE_PERMISSIONS_CHANGED" /\ audit' = audit \cup {e}
    BY <1>5 DEF CommitPerms, Logged, Event
  <2>2. \A r : Retired(r)' <=> Retired(r)
    BY <2>1 DEF Retired
  <2> QED
    BY <1>0, <1>1, <1>5, <2>2 DEF CommitPerms, TypeOK, TablesTyped
<1>6. CASE CommitMember(p)
  <2> DEFINE v == MemberVersion(req[p].member) + 1
             ev == Event("IAM_MEMBER_ROLES_CHANGED", req[p].member, req[p].exp, v, Nil)
  <2>a. audit' = audit \cup {ev}
    BY <1>6 DEF CommitMember, Logged
  <2>b. ev.type = "IAM_MEMBER_ROLES_CHANGED"
    BY DEF Event
  <2> HIDE DEF ev
  <2>1. PICK e : e.type = "IAM_MEMBER_ROLES_CHANGED" /\ audit' = audit \cup {e}
    BY <2>a, <2>b
  <2>2. \A r : Retired(r)' <=> Retired(r)
    BY <2>1 DEF Retired
  <2> QED
    BY <1>0, <1>1, <1>6, <2>2 DEF CommitMember
<1> QED
  BY <1>2, <1>3, <1>4, <1>5, <1>6 DEF Commits
-----------------------------------------------------------------------------
(* The combined invariant: types, locks, fresh ids. *)

TypeInv == TypeOK /\ LocksOK /\ FreshOK

LEMMA InitInv == Init => TypeInv
<1> SUFFICES ASSUME Init PROVE TypeInv
  OBVIOUS
<1>1. \A r : ~Retired(r)
  BY DEF Init, Retired
<1>2. \A p \in Procs : pc[p] = "idle"
  BY DEF Init
<1> QED
  BY <1>1, <1>2, InitTyped DEF TypeInv, LocksOK, FreshOK, RowHeld, Wrote, Creating

LEMMA BeginInv ==
    ASSUME TypeInv, NEW p \in Procs, Begin(p)
    PROVE  TypeInv'
<1> USE DEF TypeInv
<1>1. TypeOK'
  BY BeginTyped
<1>2. PICK q \in Requests : IdsKnown(q) /\ req' = [req EXCEPT ![p] = q]
  BY AskedAssumption DEF Begin
<1>3. pc[p] = "idle" /\ pc' = [pc EXCEPT ![p] = "boundary"] /\ UNCHANGED tables
  BY DEF Begin
<1>4. pc'[p] = "boundary" /\ req'[p] = q
      /\ \A o \in Procs \ {p} : pc'[o] = pc[o] /\ req'[o] = req[o]
  BY <1>2, <1>3 DEF TypeOK, RequestsTyped
<1>5. LocksOK'
  <2>1. ~RowHeld(p)' /\ \A o \in Procs \ {p} : RowHeld(o)' <=> RowHeld(o)
    BY <1>4 DEF RowHeld, Wrote
  <2> QED
    BY <1>3, <1>4, <2>1 DEF LocksOK, Live, tables
<1>6. FreshOK'
  <2>1. \A r : (Retired(r)' <=> Retired(r)) /\ (Live(r)' <=> Live(r))
    BY <1>3 DEF Retired, Live, tables
  <2>2. \A o \in Procs \ {p} : Creating(o)' <=> Creating(o)
    BY <1>4 DEF Creating
  <2>3. CASE q.op # "create"
    BY <1>4, <2>1, <2>2, <2>3 DEF FreshOK, Creating
  <2>4. CASE q.op = "create"
    <3>1. /\ ~Live(q.role) /\ ~Retired(q.role)
          /\ \A o \in Procs : Creating(o) => req[o].role # q.role
      <4>1. /\ ~Live(q.role) /\ ~Retired(q.role)
            /\ \A o \in Procs : pc[o] # "idle"
                   => ~(req[o].op = "create" /\ req[o].role = q.role)
        BY <1>2, <2>4 DEF IdsKnown
      <4> QED
        BY <4>1 DEF Creating
    <3>2. \A o \in Procs : Creating(o)' => o = p \/ (Creating(o) /\ req'[o] = req[o])
      BY <1>4, <2>2
    <3>3. \A o \in Procs : Creating(o)' => ~Live(req'[o].role) /\ ~Retired(req'[o].role)
      BY <1>4, <3>1, <3>2 DEF FreshOK
    <3>4. \A o, u \in Procs : Creating(o)' /\ Creating(u)' /\ o # u
                                => req'[o].role # req'[u].role
      BY <1>4, <3>1, <3>2 DEF FreshOK
    <3> QED
      BY <2>1, <3>3, <3>4 DEF FreshOK
  <2> QED
    BY <2>3, <2>4
<1> QED
  BY <1>1, <1>5, <1>6

\* Fresh ids survive every step that creates no request.
LEMMA FreshQuiet ==
    ASSUME TypeOK, FreshOK, NEW p \in Procs, pc[p] # "idle", UNCHANGED tables,
           Answer(p) \/ (req' = req /\ \E label : Goto(p, label))
    PROVE  FreshOK'
<1>1. \A o \in Procs \ {p} : pc'[o] = pc[o] /\ req'[o] = req[o]
  BY DEF Answer, Goto, TypeOK, RequestsTyped
<1>2. \A o \in Procs : Creating(o)' => Creating(o) /\ req'[o] = req[o]
  BY <1>1 DEF Creating, Answer, Goto, TypeOK, RequestsTyped
<1>3. \A r : (Retired(r)' <=> Retired(r)) /\ (Live(r)' <=> Live(r))
  BY DEF Retired, Live, tables
<1> QED
  BY <1>2, <1>3 DEF FreshOK

\* Only the compare-and-set of a role operation takes a row.
LEMMA QuietHolds ==
    ASSUME TypeOK, NEW p \in Procs, Reads(p) \/ Locks(p) \/ Abort(p), ~Answer(p), ~CasRole(p)
    PROVE  RowHeld(p)' => RowHeld(p)
<1> USE DEF TypeOK, RequestsTyped, Goto
<1>1. CASE ReadBoundary(p)
  <2>1. pc'[p] = First(req[p].op) /\ req' = req /\ req[p].op \in RoleOps \cup {"create", "setMember", "readMember"}
    BY <1>1 DEF ReadBoundary, Reject, FlowOK, OpsAt
  <2> QED
    BY <2>1 DEF First, RowHeld, Wrote, RoleOps
<1>2. CASE ReadTarget(p)
  <2>1. /\ req' = req
        /\ pc'[p] = CASE req[p].op = "update" -> "current" [] req[p].op = "delete" -> "list"
                      [] OTHER -> "before"
    BY <1>2 DEF ReadTarget, Reject
  <2> QED
    BY <2>1 DEF RowHeld, Wrote
<1>3. CASE ReadCurrent(p)
  BY <1>3 DEF ReadCurrent, Reject, RowHeld, Wrote
<1>4. CASE Reserve(p)
  BY <1>4 DEF Reserve, Reject, RowHeld, Wrote, RoleOps
<1>5. CASE ReadBefore(p)
  BY <1>5 DEF ReadBefore, Reject, RowHeld, Wrote
<1>6. CASE ReadRoles(p)
  BY <1>6 DEF ReadRoles, Reject, RowHeld, Wrote
<1>7. CASE ReadAssigned(p)
  BY <1>7 DEF ReadAssigned, Reject, RowHeld, Wrote
<1>8. CASE ListMembers(p)
  <2>1. pc[p] = "list" /\ req' = req /\ req[p].op \in {"delete", "setPerms"}
    BY <1>8 DEF ListMembers, FlowOK, OpsAt
  <2>2. req[p].op = "delete" => pc'[p] = "cas"
    BY <1>8, <2>1 DEF ListMembers
  <2> QED
    BY <2>1, <2>2 DEF RowHeld, Wrote, RoleOps
<1>9. CASE CasMember(p) \/ ClearRoles(p) \/ AssignRoles(p)
  <2>1. req' = req /\ req[p].op = "setMember"
    BY <1>9 DEF CasMember, ClearRoles, AssignRoles, Reject, FlowOK, OpsAt
  <2> QED
    BY <2>1 DEF RowHeld, RoleOps
<1>10. CASE Invalidate(p) \/ Cascade(p)
  BY <1>10 DEF Invalidate, Cascade, RowHeld, Wrote
<1>11. CASE Search(p)
  BY <1>11 DEF Search, Reject, RowHeld, Wrote
<1> QED
  BY <1>1, <1>2, <1>3, <1>4, <1>5, <1>6, <1>7, <1>8, <1>9, <1>10, <1>11
     DEF Reads, Locks, ReadVersion, Abort

LEMMA QuietInv ==
    ASSUME TypeInv, NEW p \in Procs, Reads(p) \/ Locks(p) \/ Abort(p)
    PROVE  TypeInv'
<1> USE DEF TypeInv
<1>1. /\ UNCHANGED tables /\ pc[p] # "idle"
      /\ Answer(p) \/ (req' = req /\ \E label : Goto(p, label))
  BY QuietSteps
<1>2. TypeOK'
  <2>1. CASE Reads(p)
    BY <2>1, ReadsTyped DEF Reads
  <2>2. CASE Locks(p)
    BY <2>2, LocksTyped DEF Locks
  <2>3. CASE Abort(p)
    BY <2>3, RejectTyped DEF Abort, tables
  <2> QED
    BY <2>1, <2>2, <2>3
<1>3. FreshOK'
  BY <1>1, FreshQuiet
<1>4. LocksOK'
  <2>1. CASE Answer(p)
    BY <1>1, <2>1, EndKeepsLocks DEF tables
  <2>2. CASE CasRole(p)
    BY <2>2, CasLocks
  <2>3. CASE ~Answer(p) /\ ~CasRole(p)
    <3>1. PICK label : Goto(p, label) /\ req' = req /\ role' = role
      BY <1>1, <2>3 DEF tables
    <3>2. RowHeld(p)' => RowHeld(p)
      BY <2>3, QuietHolds
    <3> QED
      BY <3>1, <3>2, GotoKeepsLocks
  <2> QED
    BY <2>1, <2>2, <2>3
<1> QED
  BY <1>2, <1>3, <1>4

LEMMA CommitInv ==
    ASSUME TypeInv, NEW p \in Procs, Commits(p)
    PROVE  TypeInv'
<1> USE DEF TypeInv
<1>0. /\ Answer(p) /\ pc[p] = "commit"
      /\ req[p] \in Requests /\ req[p].op \in RoleOps \cup {"create", "setMember"}
      /\ \A r \in RoleIds : req[p].op = "setMember" \/ r # req[p].role => role'[r] = role[r]
  BY CommitShape
<1>1. TypeOK'
  BY CommitsTyped DEF Commits
<1>2. \A o \in Procs \ {p} : pc'[o] = pc[o] /\ req'[o] = req[o]
  BY <1>0 DEF Answer, Goto, TypeOK, RequestsTyped
<1>3. LocksOK'
  <2>1. ASSUME NEW o \in Procs \ {p}, RowHeld(o)
        PROVE  role'[req[o].role] = role[req[o].role]
    <3>1. req[o] \in Requests /\ req[o].role \in RoleIds /\ Live(req[o].role)
      <4>1. req[o] \in Requests
        BY <2>1 DEF RowHeld, Wrote, TypeOK, FlowOK, RequestsTyped
      <4> QED
        BY <2>1, <4>1, RequestFields DEF RowHeld, LocksOK
    <3>2. CASE req[p].op \in RoleOps
      <4>1. RowHeld(p)
        BY <1>0, <3>2 DEF RowHeld, Wrote
      <4> QED
        BY <1>0, <2>1, <3>1, <4>1 DEF LocksOK
    <3>3. CASE req[p].op = "create"
      <4>1. Creating(p)
        BY <1>0, <3>3 DEF Creating
      <4> QED
        BY <1>0, <3>1, <4>1 DEF FreshOK
    <3> QED
      BY <1>0, <3>1, <3>2, <3>3
  <2> QED
    BY <1>0, <2>1, EndKeepsLocks
<1>4. FreshOK'
  <2>1. \A o \in Procs : Creating(o)' => o # p /\ Creating(o) /\ req'[o] = req[o]
    BY <1>0, <1>2 DEF Creating, Answer, Goto, TypeOK, RequestsTyped
  <2>2. \A o \in Procs : Creating(o) => req[o].role \in RoleIds
    <3>1. \A o \in Procs : Creating(o) => req[o] \in Requests
      BY DEF Creating, TypeOK, FlowOK, RequestsTyped
    <3> QED
      BY <3>1, RequestFields DEF Creating
  <2>3. ASSUME NEW o \in Procs, Creating(o)'
        PROVE  ~Live(req[o].role)' /\ ~Retired(req[o].role)'
    <3>1. /\ o # p /\ Creating(o) /\ req'[o] = req[o] /\ req[o].role \in RoleIds
          /\ ~Live(req[o].role) /\ ~Retired(req[o].role)
      BY <2>1, <2>2, <2>3 DEF FreshOK
    <3>2. req[p].op = "setMember" \/ req[o].role # req[p].role
      <4>1. CASE req[p].op \in RoleOps
        BY <1>0, <3>1, <4>1 DEF LocksOK, RowHeld, Wrote
      <4>2. CASE req[p].op = "create"
        BY <1>0, <3>1, <4>2 DEF FreshOK, Creating
      <4> QED
        BY <1>0, <4>1, <4>2
    <3>3. role'[req[o].role] = role[req[o].role]
      BY <1>0, <3>1, <3>2
    <3>4. Retired(req[o].role)' => Retired(req[o].role) \/ (req[p].op = "delete" /\ req[o].role = req[p].role)
      BY <3>1, CommitShape
    <3> QED
      BY <3>1, <3>2, <3>3, <3>4 DEF Live
  <2>4. ASSUME NEW r \in RoleIds, Retired(r)'
        PROVE  ~Live(r)'
    <3>1. CASE req[p].op = "delete" /\ r = req[p].role
      <4>1. CommitDelete(p)
        BY <3>1 DEF Commits, CommitCreate, CommitUpdate, CommitPerms, CommitMember
      <4> QED
        BY <3>1, <4>1 DEF CommitDelete, Live, TypeOK, TablesTyped
    <3>2. CASE ~(req[p].op = "delete" /\ r = req[p].role)
      <4>1. Retired(r) /\ ~Live(r)
        BY <2>4, <3>2, CommitShape DEF FreshOK
      <4>2. req[p].op = "setMember" \/ r # req[p].role
        <5>1. CASE req[p].op \in RoleOps
          BY <1>0, <4>1, <5>1 DEF LocksOK, RowHeld, Wrote
        <5>2. CASE req[p].op = "create"
          BY <1>0, <4>1, <5>2 DEF FreshOK, Creating
        <5> QED
          BY <1>0, <5>1, <5>2
      <4> QED
        BY <1>0, <4>1, <4>2 DEF Live
    <3> QED
      BY <3>1, <3>2
  <2>5. \A o, u \in Procs : Creating(o)' /\ Creating(u)' /\ o # u => req'[o].role # req'[u].role
    BY <2>1 DEF FreshOK
  <2> QED
    BY <2>1, <2>3, <2>4, <2>5 DEF FreshOK
<1> QED
  BY <1>1, <1>3, <1>4

LEMMA LoadInv ==
    ASSUME TypeInv, NEW m \in Members, LoadAbility(m)
    PROVE  TypeInv'
<1>1. UNCHANGED <<role, audit, pc, req>>
  BY DEF LoadAbility
<1>2. TypeOK'
  BY LoadTyped DEF TypeInv
<1>3. LocksOK' /\ FreshOK'
  BY <1>1 DEF TypeInv, LocksOK, FreshOK, RowHeld, Wrote, Creating, Live, Retired
<1> QED
  BY <1>2, <1>3 DEF TypeInv

\* The three parts are inductive together.
LEMMA NextInv == TypeInv /\ [Next]_vars => TypeInv'
<1> SUFFICES ASSUME TypeInv, [Next]_vars PROVE TypeInv'
  OBVIOUS
<1>1. ASSUME NEW p \in Procs, Begin(p) PROVE TypeInv'
  BY <1>1, BeginInv
<1>2. ASSUME NEW p \in Procs, Step(p) \/ Abort(p) PROVE TypeInv'
  BY <1>2, StepCases, QuietInv, CommitInv
<1>3. ASSUME NEW m \in Clients, LoadAbility(m) PROVE TypeInv'
  BY <1>3, LoadInv, BoundAssumption
<1>4. CASE UNCHANGED vars
  BY <1>4 DEF vars, TypeInv, TypeOK, TablesTyped, RequestsTyped, FlowOK, Updating, Targeted, Listing,
     LocksOK, FreshOK, RowHeld, Wrote, Creating, Live, Retired
<1> QED
  BY <1>1, <1>2, <1>3, <1>4 DEF Next

\* Every reachable state is well typed, and a request in flight is always at a
\* statement of its own operation.
THEOREM TypeCorrect == Spec => []TypeOK
<1>1. TypeInv => TypeOK
  BY DEF TypeInv
<1> QED
  BY <1>1, InitInv, NextInv, PTL DEF Spec

-----------------------------------------------------------------------------
(* Deadlocks. *)

\* What a statement waits for, by the labels.
LEMMA WaitsFor ==
    ASSUME TypeOK, NEW p \in Procs, NEW o \in Procs, Waits(p, o)
    PROVE  \/ pc[p] = "reserve" /\ (Wrote(o) \/ pc[o] = "cas")
           \/ pc[p] = "cas" /\ Wrote(o)
           \/ /\ pc[p] = "cas" /\ req[p].op = "delete"
              /\ pc[o] = "cas" /\ req[o].op = "update"
           \/ pc[p] = "clear" /\ pc[o] \in {"invalidate", "commit"}
           \/ pc[p] = "assign" /\ pc[o] \in {"cascade", "invalidate", "commit"}
           \/ pc[p] = "cascade" /\ pc[o] \in {"assign", "invalidate", "commit"}
           \/ /\ pc[p] = "invalidate" /\ pc[o] \in {"invalidate", "commit"}
              /\ Deleted(o) # {}
<1>1. \A r : Deletes(o, r) => pc[o] \in {"cascade", "invalidate", "commit"}
  BY DEF Deletes, HoldsRole, Wrote, TypeOK, FlowOK, OpsAt
<1>2. \A m : Cleared(o, m) => pc[o] \in {"assign", "invalidate", "commit"}
  BY DEF Cleared, HoldsMember, Wrote, RoleOps, TypeOK, FlowOK, OpsAt
<1>3. \A k : HoldsName(o, k) => pc[o] \in {"cas", "commit"}
  BY DEF HoldsName
<1>4. \A r : References(o, r) => Wrote(o) \/ (pc[o] = "cas" /\ req[o].op = "update")
  BY DEF References, Wrote
<1>5. /\ \A r : HoldsRole(o, r) \/ Deletes(o, r) => Wrote(o)
      /\ \A m : HoldsMember(o, m) => Wrote(o)
      /\ \A k : Frees(o, k) => Wrote(o)
      /\ pc[o] = "commit" => Wrote(o)
  BY DEF HoldsRole, HoldsMember, Deletes, Frees, Wrote
<1>6. \A r : Cascaded(o, r) => pc[o] \in {"invalidate", "commit"}
  BY <1>1 DEF Cascaded
<1>7. \A m : m \in Deleted(o) => pc[o] \in {"invalidate", "commit"}
  BY DEF Deleted
<1> QED
  BY <1>1, <1>2, <1>3, <1>4, <1>5, <1>6, <1>7 DEF Waits

\* Who waits at the deletion of sessions waits in a circle for another who does.
LEMMA SessionCircle ==
    ASSUME TypeOK, NEW S \in SUBSET Procs, Stuck(S),
           NEW p \in S, pc[p] = "invalidate"
    PROVE  \E q, o \in S : /\ pc[q] = "invalidate" /\ pc[o] = "invalidate" /\ Waits(q, o)
                           /\ Deleted(q) # {} /\ Deleted(o) # {}
<1>1. \A q \in S : \E o \in S : Waits(q, o)
  BY DEF Stuck
<1>2. \A q \in S : pc[q] # "commit"
  BY <1>1, WaitsFor
<1>3. \A q \in S : pc[q] = "invalidate" =>
         \E o \in S : Waits(q, o) /\ pc[o] = "invalidate" /\ Deleted(o) # {}
  BY <1>1, <1>2, WaitsFor
<1>4. PICK q \in S : pc[q] = "invalidate" /\ Deleted(q) # {}
  BY <1>3
<1> QED
  BY <1>3, <1>4

\* In a set of transactions that wait for each other without one of the pairs, no
\* statement can be in: one waits only for those that are already out.
LEMMA NoOtherDeadlock ==
    ASSUME TypeOK, NEW S \in SUBSET Procs, Stuck(S),
           \A p, o \in S : ~(pc[p] = "assign" /\ pc[o] = "cascade"),
           \A p \in S : pc[p] # "invalidate"
    PROVE  FALSE
<1>1. S # {} /\ \A p \in S : \E o \in S : Waits(p, o)
  BY DEF Stuck
<1>2. \A p \in S : pc[p] \notin {"commit", "list"}
  BY <1>1, WaitsFor
<1>4. \A p \in S : pc[p] \notin {"clear", "assign"}
  BY <1>1, <1>2, WaitsFor
<1>5. \A p \in S : pc[p] # "cascade"
  BY <1>1, <1>2, <1>4, WaitsFor
<1>6. \A p \in S : ~Wrote(p)
  BY <1>2, <1>4, <1>5 DEF Wrote
<1>7. \A p \in S : ~(pc[p] = "cas" /\ req[p].op # "delete")
  BY <1>1, <1>6, WaitsFor
<1>8. \A p \in S : pc[p] # "cas"
  BY <1>1, <1>6, <1>7, WaitsFor
<1>9. \A p \in S : pc[p] # "reserve"
  BY <1>1, <1>6, <1>8, WaitsFor
<1> QED
  BY <1>1, <1>4, <1>5, <1>8, <1>9, WaitsFor

\* Whatever transactions wait for each other, in a circle of any length, there are
\* among them a setMemberRoles with its assignment rows and a deleteRole about to
\* delete some, or two that have each deleted sessions, one waiting for the other.
THEOREM DeadlocksCorrect == Spec => []DeadlocksKnown
<1>1. ASSUME TypeOK, NEW S \in SUBSET Procs, Stuck(S)
      PROVE  \E p, o \in S :
                \/ pc[p] \in {"clear", "assign"} /\ pc[o] = "cascade"
                \/ /\ pc[p] = "invalidate" /\ pc[o] = "invalidate" /\ Waits(p, o)
                   /\ Deleted(p) # {} /\ Deleted(o) # {}
  <2>1. CASE \E p \in S : pc[p] = "invalidate"
    BY <1>1, <2>1, SessionCircle
  <2>2. CASE \A p \in S : pc[p] # "invalidate"
    BY <1>1, <2>2, NoOtherDeadlock
  <2> QED
    BY <2>1, <2>2
<1>2. TypeOK => DeadlocksKnown
  BY <1>1 DEF DeadlocksKnown
<1> QED
  BY <1>2, TypeCorrect, PTL
=============================================================================
