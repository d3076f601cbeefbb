----------------------------- MODULE IamService -----------------------------
(* The role and membership service of better-auth-ac                           *)
(* (packages/plugin/src/index.ts): IamService, whose methods each run in one   *)
(* database transaction, over the store that adapterTransaction builds on the  *)
(* Better Auth database adapter.                                               *)
(*                                                                             *)
(* A request is a process that moves from statement to statement; pc names the *)
(* statement it runs next.  What a transaction wrote is invisible to the       *)
(* others until its commit, so the tables change in the Commit actions only,   *)
(* while the locks its writes take are read off its pc (section Locks).        *)
(* Isolation = "serial" is the SQLite connection, which runs one transaction   *)
(* at a time; "readCommitted" is the default level of PostgreSQL, where each   *)
(* statement reads what is committed when it runs.                             *)
EXTENDS AcCore, SequencesExt

CONSTANTS
    Procs,          \* requests in flight at the same time
    Orgs, Members, RoleIds, Names,
    OrgOf,          \* the organization of a member row
    Actors,         \* what resolveActiveMember may answer
    Ranks, MaxSafe, \* rank inputs and Number.MAX_SAFE_INTEGER
    MaxVersion,     \* bound: no row is changed at this version
    Asked,          \* bound: the requests made
    Clients,        \* bound: the members, not owners, whose clients sign in
    RoleRead, RoleManage, MemberManage,  \* the keys the service requires
    Isolation,      \* "serial" or "readCommitted"
    UniqueRoleId,   \* whether IamRoleName.roleId is declared UNIQUE
    SeedRole, SeedPerm, SeedAssign, SeedVersion,  \* the migrated tables
    Nil             \* SQL NULL, an absent row, an unset local

Versions == 0 .. MaxVersion
Keyed == Orgs \X Names
RoleRows == [org : Orgs, name : Names, rank : Ranks, prot : BOOLEAN, version : Nat]
Boundaries == [org : Orgs, rank : Ranks \cup {MaxSafe}, owner : BOOLEAN, held : SUBSET Keys]

\* The reservation rows that a migration writes with the roles.
SeedName == [k \in Keyed |->
    IF \E r \in RoleIds : SeedRole[r] # Nil /\ <<SeedRole[r].org, SeedRole[r].name>> = k
    THEN CHOOSE r \in RoleIds : SeedRole[r] # Nil /\ <<SeedRole[r].org, SeedRole[r].name>> = k
    ELSE Nil]

ASSUME BoundAssumption ==
    /\ MaxVersion \in Nat
    /\ Ranks \subseteq Nat /\ MaxSafe \in Nat /\ \A n \in Ranks : n < MaxSafe
    /\ UniqueRoleId \in BOOLEAN
    /\ IsFiniteSet(Members) /\ OrgOf \in [Members -> Orgs]
    /\ Actors \subseteq [org : Orgs, member : Members, owner : BOOLEAN, wildcard : BOOLEAN]
    /\ Clients \subseteq Members
    /\ \A a \in Actors :
         /\ a.wildcard \/ OrgOf[a.member] = a.org
         /\ a.owner \/ a.wildcard => a.member \notin Clients

\* A migrated organization: rows at version 0, one name per role, and
\* assignments of a member to the roles of its own organization.
ASSUME SeedAssumption ==
    /\ SeedRole \in [RoleIds -> RoleRows \cup {Nil}]
    /\ \A r \in RoleIds : SeedRole[r] # Nil => SeedRole[r].version = 0
    /\ \A r, s \in RoleIds :
         /\ SeedRole[r] # Nil /\ SeedRole[s] # Nil
         /\ SeedRole[r].org = SeedRole[s].org /\ SeedRole[r].name = SeedRole[s].name
         => r = s
    /\ SeedPerm \in [RoleIds -> Tables]
    /\ \A r \in RoleIds : SeedRole[r] = Nil => SeedPerm[r] = NoEffects
    /\ SeedAssign \in [Members -> SUBSET RoleIds]
    /\ \A m \in Members : \A r \in SeedAssign[m] :
         SeedRole[r] # Nil /\ SeedRole[r].org = OrgOf[m]
    /\ SeedVersion \in [Members -> {0, Nil}]

-----------------------------------------------------------------------------
(* Requests.  The enumerated inputs are the bodies the endpoints accept.       *)

CreateReqs == [op : {"create"}, actor : Actors, role : RoleIds, name : Names, rank : Ranks]
UpdateReqs == [op : {"update"}, actor : Actors, role : RoleIds, name : Names, rank : Ranks,
               exp : Versions]
DeleteReqs == [op : {"delete"}, actor : Actors, role : RoleIds, exp : Versions]
PermReqs   == [op : {"setPerms"}, actor : Actors, role : RoleIds, perm : Tables,
               exp : Versions]
MemberReqs == [op : {"setMember"}, actor : Actors, member : Members,
               roles : SUBSET RoleIds, exp : Versions]
ReadReqs   == [op : {"readMember"}, actor : Actors, member : Members]

Requests == UNION {CreateReqs, UpdateReqs, DeleteReqs, PermReqs, MemberReqs, ReadReqs}

ASSUME AskedAssumption == Asked \subseteq Requests

RoleOps == {"update", "delete", "setPerms"}

ASSUME NilAssumption ==
    /\ Nil \notin RoleRows /\ Nil \notin RoleIds /\ Nil \notin Nat
    /\ Nil \notin Requests /\ Nil \notin [Keys -> Effects] /\ Nil \notin Tables /\ Nil \notin Boundaries

VARIABLES
    (* committed tables *)
    role,      \* iamRole: the row of each role id
    nameRow,   \* iamRoleName: the role id of each (organization, name)
    perm,      \* iamRolePermission: the table of each role
    assign,    \* iamMemberRole: the role ids of each member
    mver,      \* member.iamRoleVersion
    session,   \* the decisions the client of a member's session loaded
    audit,     \* the audit events
    (* requests in flight *)
    pc, req,
    bnd,       \* the actor's boundary, as read
    target,    \* the role row that getRole answered
    cur,       \* the role row that updateRole of the store read
    seen,      \* the permissions that setRolePermissions read
    ids,       \* the ids the transaction listed
    queue,     \* the members whose sessions it has still to delete, in order
    view       \* what the client behind the request last loaded of a member

tables == <<role, nameRow, perm, assign, mver, session, audit>>
locals == <<bnd, target, cur, seen, ids, queue>>
vars == <<role, nameRow, perm, assign, mver, session, audit,
          pc, req, bnd, target, cur, seen, ids, queue, view>>

TablesTyped ==
    /\ role \in [RoleIds -> RoleRows \cup {Nil}]
    /\ nameRow \in [Keyed -> RoleIds \cup {Nil}]
    /\ perm \in [RoleIds -> Tables]
    /\ assign \in [Members -> SUBSET RoleIds]
    /\ mver \in [Members -> Nat \cup {Nil}]
    /\ session \in [Members -> [Keys -> Effects] \cup {Nil}]

Labels == {"idle", "boundary", "target", "current", "search", "reserve", "before", "roles",
           "assigned", "version", "list", "cas", "clear", "assign", "cascade", "invalidate",
           "commit"}

RequestsTyped ==
    /\ pc \in [Procs -> Labels]
    /\ req \in [Procs -> Requests \cup {Nil}]
    /\ bnd \in [Procs -> Boundaries \cup {Nil}]
    /\ target \in [Procs -> RoleRows \cup {Nil}]
    /\ cur \in [Procs -> RoleRows \cup {Nil}]
    /\ seen \in [Procs -> Tables \cup {Nil}]
    /\ ids \in [Procs -> SUBSET (Members \cup RoleIds)]
    /\ queue \in [Procs -> Seq(Members)]

\* The operations whose code has a statement at each label: a request never
\* runs a statement of another one.
OpsAt(label) ==
    CASE label = "target"     -> RoleOps
      [] label = "current"    -> {"update"}
      [] label \in {"search", "reserve"} -> {"create", "update"}
      [] label = "before"     -> {"setPerms"}
      [] label = "roles"      -> {"setMember"}
      [] label = "assigned"   -> {"setMember", "readMember"}
      [] label = "version"    -> {"readMember"}
      [] label = "list"       -> {"delete", "setPerms"}
      [] label = "cas"        -> RoleOps \cup {"setMember"}
      [] label \in {"clear", "assign"}   -> {"setMember"}
      [] label = "cascade"    -> {"delete"}
      [] label = "invalidate" -> {"delete", "setPerms", "setMember"}
      [] label = "commit"     -> RoleOps \cup {"create", "setMember"}
      [] OTHER                -> RoleOps \cup {"create", "setMember", "readMember"}

Updating(p) == pc[p] \in {"search", "reserve", "cas", "commit"} /\ req[p].op = "update"

\* Past getRole and its checks.
Targeted(p) == pc[p] \notin {"idle", "boundary", "target"} /\ req[p].op \in RoleOps

\* deleteRole has listed the members of the role.
Listing(p) == pc[p] \in {"cas", "cascade"} /\ req[p].op = "delete"

\* Control and data agree: a request in flight is at one of its statements and
\* carries the rows it read, and deletes sessions as long as it has some to delete.
FlowOK ==
    \A p \in Procs :
        /\ queue[p] # <<>> <=> pc[p] = "invalidate"
        /\ pc[p] # "idle" =>
             /\ req[p] # Nil
             /\ req[p].op \in OpsAt(pc[p])
             /\ Targeted(p) => target[p] # Nil
             /\ Updating(p) => cur[p] # Nil
             /\ Listing(p) => ids[p] \subseteq Members

\* The type invariant.
TypeOK == TablesTyped /\ RequestsTyped /\ FlowOK

Live(r) == role[r] # Nil
Id(r) == <<role[r].org, role[r].name>>
RolesIn(org) == {r \in RoleIds : Live(r) /\ role[r].org = org}

\* getMemberRoles: the live roles of the member, in its organization.
MemberRoles(org, m) == assign[m] \cap RolesIn(org)
View(m) == Decisions({perm[r] : r \in MemberRoles(OrgOf[m], m)})

Init ==
    /\ role = SeedRole /\ nameRow = SeedName /\ perm = SeedPerm
    /\ assign = SeedAssign /\ mver = SeedVersion
    /\ session = [m \in Members |-> Nil]
    /\ audit = {}
    /\ pc = [p \in Procs |-> "idle"]
    /\ req = [p \in Procs |-> Nil] /\ bnd = [p \in Procs |-> Nil]
    /\ target = [p \in Procs |-> Nil] /\ cur = [p \in Procs |-> Nil]
    /\ seen = [p \in Procs |-> Nil]
    /\ ids = [p \in Procs |-> {}] /\ queue = [p \in Procs |-> <<>>]
    /\ view = [p \in Procs |-> Nil]

-----------------------------------------------------------------------------
(* Locks.  A row that a transaction has written stays locked until it ends; a  *)
(* statement that needs it waits.                                              *)

\* Mutant of Wrote: the statements up to the compare-and-set lock the row too.
WroteOrRead(p) == pc[p] \in {"list", "cas", "clear", "assign", "cascade", "invalidate", "commit"}

\* Past its compare-and-set: the transaction holds the row it changed.
Wrote(p) ==
    \/ pc[p] \in {"clear", "assign", "cascade", "invalidate", "commit"}
    \/ pc[p] = "list" /\ req[p].op = "setPerms"

HoldsRole(p, r) == Wrote(p) /\ req[p].op \in RoleOps /\ req[p].role = r
HoldsMember(p, m) == Wrote(p) /\ req[p].op = "setMember" /\ req[p].member = m

Renames(p) == cur[p] # Nil /\ req[p].name # cur[p].name

\* The reservation a transaction inserts: the name of a created role or the
\* new name of a renamed one.
NewKey(p) == IF req[p].op = "create" THEN <<req[p].actor.org, req[p].name>>
             ELSE <<cur[p].org, req[p].name>>

\* p inserted the reservation of k and has not committed.
HoldsName(p, k) ==
    \/ pc[p] = "commit" /\ req[p].op = "create" /\ NewKey(p) = k
    \/ pc[p] \in {"cas", "commit"} /\ req[p].op = "update" /\ Renames(p) /\ NewKey(p) = k

\* The reservation that a rename deletes: that of the name it read.
OldKey(p) == <<cur[p].org, cur[p].name>>

\* o deletes the existing reservation of k, by a rename or by a cascade.
Frees(o, k) ==
    /\ nameRow[k] # Nil /\ Wrote(o)
    /\ \/ req[o].op = "delete" /\ nameRow[k] = req[o].role
       \/ req[o].op = "update" /\ Renames(o) /\ OldKey(o) = k

\* p inserted a row that references r, which keeps r from being deleted.
References(p, r) ==
    \/ pc[p] \in {"invalidate", "commit"} /\ req[p].op = "setMember" /\ r \in req[p].roles
    \/ /\ pc[p] \in {"cas", "commit"} /\ req[p].op = "update" /\ Renames(p)
       /\ req[p].role = r

Deletes(p, r) == HoldsRole(p, r) /\ req[p].op = "delete"

\* p deleted the assignment rows of r, or of m.
Cascaded(p, r) == Deletes(p, r) /\ pc[p] # "cascade"
Cleared(p, m) == HoldsMember(p, m) /\ pc[p] # "clear"

\* The members whose sessions p has deleted.
Deleted(p) == IF pc[p] \in {"invalidate", "commit"} THEN ids[p] \ ToSet(queue[p]) ELSE {}

\* The statement p runs next needs a row that o has locked.  A reservation
\* waits for a transaction that inserted or removed the same id, or that
\* deletes the role it references.
Waits(p, o) ==
    LET q == req[p]
    IN  \/ /\ pc[p] = "reserve"
           /\ \/ HoldsName(o, NewKey(p))
              \/ Deletes(o, q.role)
              \/ Frees(o, NewKey(p))
        \/ /\ pc[p] = "cas" /\ q.op \in RoleOps
           /\ HoldsRole(o, q.role) \/ (q.op = "delete" /\ References(o, q.role))
        \/ pc[p] = "cas" /\ q.op = "setMember" /\ HoldsMember(o, q.member)
        \/ pc[p] = "clear" /\ \E r \in assign[q.member] : Cascaded(o, r)
        \/ pc[p] = "assign" /\ \E r \in q.roles : Deletes(o, r)
        \/ pc[p] = "cascade" /\ \E m \in Members : q.role \in assign[m] /\ Cleared(o, m)
        \/ pc[p] = "invalidate" /\ Head(queue[p]) \in Deleted(o)

Others(p) == Procs \ {p}
Unlocked(p) == \A o \in Others(p) : ~Waits(p, o)

\* Every transaction of S waits for another one of S.
Stuck(S) == S # {} /\ \A p \in S : \E o \in S \ {p} : Waits(p, o)

-----------------------------------------------------------------------------
(* Requests start and end. *)

Retired(r) == \E e \in audit : e.type = "IAM_ROLE_DELETED" /\ e.target = r

MemberVersion(m) == IF mver[m] = Nil THEN 0 ELSE mver[m]

\* A created role's id is new, and an id that a client names was answered to it
\* before.  The version it expects may be any: RolesPanel and MembersPanel count on
\* the success of their previous request, and the endpoints take what they get.
IdsKnown(q) ==
    /\ q.op = "create" =>
         /\ ~Live(q.role) /\ ~Retired(q.role)
         /\ \A o \in Procs : pc[o] # "idle" => ~(req[o].op = "create" /\ req[o].role = q.role)
    /\ q.op \in RoleOps => Live(q.role) \/ Retired(q.role)
    /\ q.op = "setMember" => \A r \in q.roles : Live(r) \/ Retired(r)

Begin(p) ==
    /\ pc[p] = "idle"
    /\ Isolation = "serial" => \A o \in Procs : pc[o] = "idle"
    /\ \E q \in Asked :
         /\ q.op \in RoleOps \cup {"setMember"} => q.exp < MaxVersion
         /\ IdsKnown(q)
         /\ req' = [req EXCEPT ![p] = q]
    /\ pc' = [pc EXCEPT ![p] = "boundary"]
    /\ UNCHANGED <<tables, locals, view>>

Goto(p, label) == pc' = [pc EXCEPT ![p] = label]

\* The transaction ends and the request is answered.
Answer(p) ==
    /\ Goto(p, "idle")
    /\ req' = [req EXCEPT ![p] = Nil]
    /\ bnd' = [bnd EXCEPT ![p] = Nil]
    /\ target' = [target EXCEPT ![p] = Nil]
    /\ cur' = [cur EXCEPT ![p] = Nil]
    /\ seen' = [seen EXCEPT ![p] = Nil]
    /\ ids' = [ids EXCEPT ![p] = {}]
    /\ queue' = [queue EXCEPT ![p] = <<>>]

\* Mutant of Reject: a refused request is tried again with the same input.
Retry(p) == Goto(p, "boundary") /\ UNCHANGED <<tables, req, locals, view>>

\* A check failed: the error ends the transaction without a trace.
Reject(p) == Answer(p) /\ UNCHANGED <<tables, view>>

\* The database, the audit callback or the process failed: the transaction
\* rolls back, whatever it wrote.
Abort(p) == pc[p] # "idle" /\ Answer(p) /\ UNCHANGED <<tables, view>>

-----------------------------------------------------------------------------
(* The statements before a transaction writes. *)

\* actorBoundary.  A wildcard actor's rows are not read.
Boundary(a) ==
    LET rs == MemberRoles(a.org, a.member)
    IN  IF a.wildcard
        THEN [org |-> a.org, rank |-> MaxSafe, owner |-> TRUE, held |-> Keys]
        ELSE [org   |-> a.org,
              rank  |-> IF rs = {} THEN MaxSafe ELSE Min({role[r].rank : r \in rs}),
              owner |-> a.owner,
              held  |-> Held({perm[r] : r \in rs})]

Required(op) == CASE op = "setMember"  -> MemberManage
                  [] op = "readMember" -> RoleRead
                  [] OTHER             -> RoleManage

OwnRow(q) == q.actor.wildcard /\ q.member = q.actor.member

\* `require`, and the checks that need no further row.  A wildcard actor has no
\* member row: memberRoles answers it empty, setMemberRoles with NOT_FOUND.
Admitted(q, b) ==
    /\ b.owner \/ Required(q.op) \in b.held
    /\ q.op = "create" => MayChange(b, q.actor.org, q.rank, FALSE, {})
    /\ q.op = "setPerms" => KnownEffects(q.perm)
    /\ q.op \in {"setMember", "readMember"} => ~OwnRow(q)

\* Mutant of First: updateRole writes without having read.
FirstWrites(op) == CASE op = "create"     -> "search"
                     [] op = "setMember"  -> "roles"
                     [] op = "readMember" -> "assigned"
                     [] OTHER             -> "cas"

First(op) == CASE op = "create"     -> "search"
               [] op = "setMember"  -> "roles"
               [] op = "readMember" -> "assigned"
               [] OTHER             -> "target"

ReadBoundary(p) ==
    LET q == req[p]
        b == Boundary(q.actor)
    IN  /\ pc[p] = "boundary"
        /\ \/ /\ Admitted(q, b)
              /\ Goto(p, First(q.op))
              /\ bnd' = [bnd EXCEPT ![p] = b]
              /\ UNCHANGED <<tables, req, target, cur, seen, ids, queue, view>>
           \/ ~Admitted(q, b) /\ Reject(p)

\* Mutant of TargetAllowed: the role is looked up by its id alone.
TargetAnywhere(q, b) ==
    Live(q.role) /\ MayChange(b, b.org, role[q.role].rank, role[q.role].prot, {})

\* What getRole and assertRoleMutation ask of the role a request names.
TargetAllowed(q, b) ==
    LET row == role[q.role]
        ranks == IF q.op = "update" THEN {row.rank, q.rank} ELSE {row.rank}
        granted == IF q.op = "setPerms" THEN AllowedKeys(q.perm) ELSE {}
    IN  /\ q.role \in RolesIn(q.actor.org)
        /\ \A n \in ranks : MayChange(b, row.org, n, row.prot, granted)

ReadTarget(p) ==
    LET q == req[p]
    IN  /\ pc[p] = "target"
        /\ \/ /\ TargetAllowed(q, bnd[p])
              /\ Goto(p, CASE q.op = "update" -> "current"
                            [] q.op = "delete" -> "list"
                            [] OTHER           -> "before")
              /\ target' = [target EXCEPT ![p] = role[q.role]]
              /\ UNCHANGED <<tables, req, bnd, cur, seen, ids, queue, view>>
           \/ ~TargetAllowed(q, bnd[p]) /\ Reject(p)

\* updateRole of the store reads the current row.
ReadCurrent(p) ==
    LET q == req[p]
        row == role[q.role]
    IN  /\ pc[p] = "current"
        /\ \/ /\ Live(q.role)
              /\ Goto(p, IF row.name # q.name THEN "search" ELSE "cas")
              /\ cur' = [cur EXCEPT ![p] = row]
              /\ UNCHANGED <<tables, req, bnd, target, seen, ids, queue, view>>
           \/ ~Live(q.role) /\ Reject(p)

\* The search for another role of the name.
Duplicate(q, k) == \E s \in RolesIn(k[1]) \ {q.role} : role[s].name = k[2]

Search(p) ==
    LET q == req[p]
    IN  /\ pc[p] = "search"
        /\ \/ /\ ~Duplicate(q, NewKey(p))
              /\ Goto(p, "reserve")
              /\ UNCHANGED <<tables, req, locals, view>>
           \/ Duplicate(q, NewKey(p)) /\ Reject(p)

\* Mutant of CanReserve: the reservation replaces an existing one.
CanUpsert(q, k) == k \in Keyed /\ (q.op = "update" => Live(q.role))

\* The insert fails on an existing row with the id, on an absent role or, under
\* a UNIQUE roleId, on a row of the role.
CanReserve(q, k) ==
    /\ nameRow[k] = Nil
    /\ UniqueRoleId => \A x \in Keyed : nameRow[x] # q.role
    /\ q.op = "update" => Live(q.role)

Reserve(p) ==
    LET q == req[p]
    IN  /\ pc[p] = "reserve" /\ Unlocked(p)
        /\ \/ /\ CanReserve(q, NewKey(p))
              /\ Goto(p, IF q.op = "create" THEN "commit" ELSE "cas")
              /\ UNCHANGED <<tables, req, locals, view>>
           \/ ~CanReserve(q, NewKey(p)) /\ Reject(p)

\* setRolePermissions reads what is stored; equal effects are answered at once.
ReadBefore(p) ==
    LET q == req[p]
    IN  /\ pc[p] = "before"
        /\ \/ /\ perm[q.role] # q.perm
              /\ Goto(p, "cas")
              /\ seen' = [seen EXCEPT ![p] = perm[q.role]]
              /\ UNCHANGED <<tables, req, bnd, target, cur, ids, queue, view>>
           \/ perm[q.role] = q.perm /\ Reject(p)

\* setMemberRoles checks every role it is given, never those it removes.
RolesAllowed(q, b) ==
    \A r \in q.roles :
        /\ r \in RolesIn(q.actor.org)
        /\ MayChange(b, role[r].org, role[r].rank, role[r].prot, AllowedKeys(perm[r]))

ReadRoles(p) ==
    LET q == req[p]
    IN  /\ pc[p] = "roles"
        /\ \/ /\ RolesAllowed(q, bnd[p])
              /\ Goto(p, "assigned")
              /\ UNCHANGED <<tables, req, locals, view>>
           \/ ~RolesAllowed(q, bnd[p]) /\ Reject(p)

InOrg(q) == OrgOf[q.member] = q.actor.org

\* getMemberRoles of the member named: setMemberRoles answers at once when
\* nothing changes, memberRoles goes on to read the version.
ReadAssigned(p) ==
    LET q == req[p]
        now == MemberRoles(q.actor.org, q.member)
    IN  /\ pc[p] = "assigned"
        /\ \/ /\ InOrg(q)
              /\ q.op = "setMember" => now # q.roles
              /\ Goto(p, IF q.op = "setMember" THEN "cas" ELSE "version")
              /\ ids' = [ids EXCEPT ![p] = now]
              /\ UNCHANGED <<tables, req, bnd, target, cur, seen, queue, view>>
           \/ /\ ~InOrg(q) \/ (q.op = "setMember" /\ now = q.roles)
              /\ Reject(p)

\* memberRoles answers the roles read before with the version read now.
ReadVersion(p) ==
    LET q == req[p]
    IN  /\ pc[p] = "version"
        /\ view' = [view EXCEPT ![p] =
             [member |-> q.member, roles |-> ids[p], version |-> MemberVersion(q.member)]]
        /\ Answer(p)
        /\ UNCHANGED tables

\* invalidateSessions reads the rows of the members it is given, in any order,
\* and has nothing to do for none.
SignOut(p, ms) ==
    \E order \in SetToSeqs(ms) :
        /\ queue' = [queue EXCEPT ![p] = order]
        /\ Goto(p, IF order = <<>> THEN "commit" ELSE "invalidate")

\* listMemberIdsForRole: deleteRole asks before it writes, setRolePermissions
\* after, and goes on to the members' sessions.
ListMembers(p) ==
    LET q == req[p]
        ms == {m \in Members : q.role \in assign[m]}
    IN  /\ pc[p] = "list"
        /\ ids' = [ids EXCEPT ![p] = ms]
        /\ \/ q.op = "delete" /\ Goto(p, "cas") /\ UNCHANGED queue
           \/ q.op = "setPerms" /\ SignOut(p, ms)
        /\ UNCHANGED <<tables, req, bnd, target, cur, seen, view>>

-----------------------------------------------------------------------------
(* The writes.  Each compare-and-set waits for the row's lock, then finds the  *)
(* committed version equal to the expected one or throws "Stale version".      *)

\* Mutant of RoleFits: the row is updated by its id alone.
RoleExists(q) == Live(q.role)

RoleFits(q) == Live(q.role) /\ role[q.role].version = q.exp

CasRole(p) ==
    LET q == req[p]
        fits == RoleFits(q)
    IN  /\ pc[p] = "cas" /\ q.op \in RoleOps /\ Unlocked(p)
        /\ \/ /\ fits
              /\ Goto(p, CASE q.op = "update"   -> "commit"
                            [] q.op = "setPerms" -> "list"
                            [] OTHER             -> "cascade")
              /\ UNCHANGED <<tables, req, locals, view>>
           \/ ~fits /\ Reject(p)

\* The deletion cascades to the assignment rows of the role.
Cascade(p) ==
    /\ pc[p] = "cascade" /\ Unlocked(p)
    /\ SignOut(p, ids[p])
    /\ UNCHANGED <<tables, req, bnd, target, cur, seen, ids, view>>

\* Mutant of MemberFits: any version fits.
AnyVersion(q) == q.exp \in Nat

\* A member that never had a version takes 1 when 0 is expected.
MemberFits(q) == MemberVersion(q.member) = q.exp

CasMember(p) ==
    LET q == req[p]
    IN  /\ pc[p] = "cas" /\ q.op = "setMember" /\ Unlocked(p)
        /\ \/ /\ MemberFits(q)
              /\ Goto(p, "clear")
              /\ UNCHANGED <<tables, req, locals, view>>
           \/ ~MemberFits(q) /\ Reject(p)

\* The member's assignment rows are deleted.
ClearRoles(p) ==
    /\ pc[p] = "clear" /\ Unlocked(p)
    /\ Goto(p, "assign")
    /\ UNCHANGED <<tables, req, locals, view>>

\* Mutant of RolesExist: the new assignment rows reference nothing.
NoReference(q) == q.roles \subseteq RoleIds

RolesExist(q) == \A r \in q.roles : Live(r)

\* The new assignment rows are inserted; each needs its role to exist.
AssignRoles(p) ==
    LET q == req[p]
    IN  /\ pc[p] = "assign" /\ Unlocked(p)
        /\ \/ /\ RolesExist(q)
              /\ ids' = [ids EXCEPT ![p] = {q.member}]
              /\ SignOut(p, {q.member})
              /\ UNCHANGED <<tables, req, bnd, target, cur, seen, view>>
           \/ ~RolesExist(q) /\ Reject(p)

\* deleteUserSessions of the next member.  Its rows stay locked until the commit,
\* when they are gone; where there are none, nothing is.
Invalidate(p) ==
    LET m == Head(queue[p])
        rest == Tail(queue[p])
    IN  /\ pc[p] = "invalidate" /\ Unlocked(p)
        /\ ids' = [ids EXCEPT ![p] = IF session[m] = Nil THEN @ \ {m} ELSE @]
        /\ queue' = [queue EXCEPT ![p] = rest]
        /\ Goto(p, IF rest = <<>> THEN "commit" ELSE "invalidate")
        /\ UNCHANGED <<tables, req, bnd, target, cur, seen, view>>

-----------------------------------------------------------------------------
(* Commits: the transaction's writes, its audit event among them, appear.      *)

Event(type, id, from, to, diff) ==
    [type |-> type, target |-> id, from |-> from, to |-> to, diff |-> diff]

\* Mutant of Logged: the event of a role update is forgotten.
LoggedUnlessUpdate(e) == audit' = IF e.type = "IAM_ROLE_UPDATED" THEN audit ELSE audit \cup {e}

Logged(e) == audit' = audit \cup {e}

\* Mutant of SignedOut: the sessions stay.
StillSignedIn(ms) == ms \subseteq Members /\ session' = session

SignedOut(ms) == session' = [m \in Members |-> IF m \in ms THEN Nil ELSE session[m]]

CommitCreate(p) ==
    LET q == req[p]
    IN  /\ pc[p] = "commit" /\ q.op = "create"
        /\ role' = [role EXCEPT ![q.role] =
             [org |-> q.actor.org, name |-> q.name, rank |-> q.rank, prot |-> FALSE, version |-> 0]]
        /\ nameRow' = [nameRow EXCEPT ![NewKey(p)] = q.role]
        /\ Logged(Event("IAM_ROLE_CREATED", q.role, 0, 0, Nil))
        /\ Answer(p)
        /\ UNCHANGED <<perm, assign, mver, session, view>>

\* The old reservation is deleted by its id, which is made of the name read
\* before the compare-and-set.
CommitUpdate(p) ==
    LET q == req[p]
        r == q.role
    IN  /\ pc[p] = "commit" /\ q.op = "update"
        /\ role' = [role EXCEPT ![r].name = q.name, ![r].rank = q.rank, ![r].version = @ + 1]
        /\ nameRow' = IF Renames(p)
             THEN [nameRow EXCEPT ![NewKey(p)] = r, ![OldKey(p)] = Nil]
             ELSE nameRow
        /\ Logged(Event("IAM_ROLE_UPDATED", r, q.exp, role[r].version + 1, Nil))
        /\ Answer(p)
        /\ UNCHANGED <<perm, assign, mver, session, view>>

\* The foreign keys cascade to the reservations, the effects and the
\* assignments of the role.
CommitDelete(p) ==
    LET r == req[p].role
    IN  /\ pc[p] = "commit" /\ req[p].op = "delete"
        /\ role' = [role EXCEPT ![r] = Nil]
        /\ nameRow' = [k \in Keyed |-> IF nameRow[k] = r THEN Nil ELSE nameRow[k]]
        /\ perm' = [perm EXCEPT ![r] = NoEffects]
        /\ assign' = [m \in Members |-> assign[m] \ {r}]
        /\ SignedOut(ids[p])
        /\ Logged(Event("IAM_ROLE_DELETED", r, req[p].exp, req[p].exp, Nil))
        /\ Answer(p)
        /\ UNCHANGED <<mver, view>>

CommitPerms(p) ==
    LET q == req[p]
        r == q.role
    IN  /\ pc[p] = "commit" /\ q.op = "setPerms"
        /\ role' = [role EXCEPT ![r].version = @ + 1]
        /\ perm' = [perm EXCEPT ![r] = q.perm]
        /\ SignedOut(ids[p])
        /\ Logged(Event("IAM_ROLE_PERMISSIONS_CHANGED", r, q.exp, role[r].version + 1,
                        DiffEffects(seen[p], q.perm)))
        /\ Answer(p)
        /\ UNCHANGED <<nameRow, assign, mver, view>>

CommitMember(p) ==
    LET q == req[p]
        v == MemberVersion(q.member) + 1
    IN  /\ pc[p] = "commit" /\ q.op = "setMember"
        /\ assign' = [assign EXCEPT ![q.member] = q.roles]
        /\ mver' = [mver EXCEPT ![q.member] = v]
        /\ SignedOut(ids[p])
        /\ Logged(Event("IAM_MEMBER_ROLES_CHANGED", q.member, q.exp, v, Nil))
        /\ Answer(p)
        /\ UNCHANGED <<role, nameRow, perm, view>>

-----------------------------------------------------------------------------
(* Sessions.  A member's client signs in and loads, or loads again, its        *)
(* ability from the committed tables; an owner's ability, which is always      *)
(* everything, is left out.                                                    *)

LoadAbility(m) ==
    /\ Isolation = "serial" => \A o \in Procs : pc[o] = "idle"
    /\ session[m] # View(m)
    /\ session' = [session EXCEPT ![m] = View(m)]
    /\ UNCHANGED <<role, nameRow, perm, assign, mver, audit, pc, req, locals, view>>

-----------------------------------------------------------------------------

Step(p) ==
    \/ ReadBoundary(p) \/ ReadTarget(p) \/ ReadCurrent(p) \/ Search(p) \/ Reserve(p)
    \/ ReadBefore(p) \/ ReadRoles(p) \/ ReadAssigned(p) \/ ReadVersion(p)
    \/ ListMembers(p) \/ CasRole(p) \/ Cascade(p)
    \/ CasMember(p) \/ ClearRoles(p) \/ AssignRoles(p) \/ Invalidate(p)
    \/ CommitCreate(p) \/ CommitUpdate(p) \/ CommitDelete(p)
    \/ CommitPerms(p) \/ CommitMember(p)

Next ==
    \/ \E p \in Procs : Begin(p) \/ Step(p) \/ Abort(p)
    \/ \E m \in Clients : LoadAbility(m)

Spec == Init /\ [][Next]_vars

Deadlocked(p) == \E S \in SUBSET Procs : p \in S /\ Stuck(S)

\* The server runs every transaction it began on to its end; the database
\* grants a lock to a transaction that keeps waiting for it, and aborts one of
\* the transactions that wait for each other.
FairSpec ==
    /\ Spec
    /\ \A p \in Procs : SF_vars(Step(p))
    /\ WF_vars(\E p \in Procs : Deadlocked(p) /\ Abort(p))

-----------------------------------------------------------------------------
(* What makes the safety properties inductive: what the locks keep true of the *)
(* requests in flight, and what a version says of a row read before.           *)

RowHeld(p) == Wrote(p) /\ req[p].op \in RoleOps
Creating(p) == pc[p] # "idle" /\ req[p].op = "create"

\* Past its compare-and-set a role operation alone holds its row, still at the
\* expected version.
LocksOK ==
    /\ \A p \in Procs : RowHeld(p) =>
         Live(req[p].role) /\ role[req[p].role].version = req[p].exp
    /\ \A p, o \in Procs : RowHeld(p) /\ RowHeld(o) /\ p # o => req[p].role # req[o].role

\* Role ids are new when created, and never come back.
FreshOK ==
    /\ \A r \in RoleIds : Retired(r) => ~Live(r)
    /\ \A p \in Procs : Creating(p) => ~Live(req[p].role) /\ ~Retired(req[p].role)
    /\ \A p, o \in Procs : Creating(p) /\ Creating(o) /\ p # o => req[p].role # req[o].role

\* A row read is the committed row, unless the version moved on or it is gone.
Remembers(row, r) ==
    Live(r) => row.version <= role[r].version /\ (row.version = role[r].version => row = role[r])

\* What getRole and updateRole read they remember, and a request that goes on to
\* reserve a name is a rename.
RowsOK ==
    \A p \in Procs :
        /\ Targeted(p) => Remembers(target[p], req[p].role)
        /\ Updating(p) =>
             /\ Remembers(cur[p], req[p].role)
             /\ pc[p] \in {"search", "reserve"} => Renames(p)

\* A reservation that a transaction inserted is its own.
NamesHeld ==
    \A k \in Keyed : \A p \in Procs : HoldsName(p, k) =>
        /\ nameRow[k] = Nil
        /\ \A o \in Others(p) : ~HoldsName(o, k)

-----------------------------------------------------------------------------
(* Safety. *)

\* The iamRoleName table mirrors the live roles: each role has the reservation
\* of its own name and no other row exists, so names are unique in an
\* organization and a name that no role has can be given.
NamesReserved ==
    /\ \A r \in RoleIds : Live(r) => nameRow[Id(r)] = r
    /\ \A k \in Keyed : nameRow[k] # Nil => Live(nameRow[k]) /\ Id(nameRow[k]) = k

\* p changes a role at its commit.
Changes(p) == pc[p] = "commit" /\ pc'[p] = "idle" /\ audit' # audit /\ req[p].op \in RoleOps

\* The row read before the compare-and-set has the version that this one found.
\* It need not: with a predicted version, the change predicted may come in between.
ReadAtExpected(row, p) == row.version = req[p].exp

\* createRole, updateRole and the cascade of deleteRole keep the reservations,
\* however they interleave and whatever versions they expect, except for an
\* updateRole whose store read the row at another version than it then updates:
\* that one deletes the reservation of an old name.
NamesKept ==
    /\ NamesReserved
    /\ [][NamesReserved =>
            \/ NamesReserved'
            \/ \E p \in Procs : Changes(p) /\ req[p].op = "update" /\ ~ReadAtExpected(cur[p], p)]_vars

\* Every assignment is to a live role of the member's own organization, while
\* setMemberRoles and deleteRole race for the role.
AssignmentsLive ==
    \A m \in Members : assign[m] \subseteq RolesIn(OrgOf[m])

RoleSteps(r) ==
    {e \in audit : e.target = r /\ e.type \in {"IAM_ROLE_UPDATED", "IAM_ROLE_PERMISSIONS_CHANGED"}}
MemberSteps(m) == {e \in audit : e.target = m /\ e.type = "IAM_MEMBER_ROLES_CHANGED"}

Numbered(es, n) ==
    /\ {e.to : e \in es} = 1 .. n
    /\ \A e, f \in es : e.to = f.to => e = f
    /\ \A e \in es : e.from = e.to - 1

\* The audit log and the versions tell the same history: a live role or a
\* member at version n has exactly one event per version up to n, from the
\* version before it.  No commit goes unrecorded and no event records a
\* mutation that was rolled back or lost the race.
AuditTellsVersions ==
    /\ \A r \in RoleIds : Live(r) => Numbered(RoleSteps(r), role[r].version)
    /\ \A m \in Members : Numbered(MemberSteps(m), MemberVersion(m))

Applied(t, d) ==
    [k \in StoredKeys |->
        IF k \in d.removed THEN "NONE"
        ELSE IF \E x \in d.added : x[1] = k THEN (CHOOSE x \in d.added : x[1] = k)[2]
        ELSE IF \E x \in d.changed : x[1] = k /\ x[2] = t[k]
             THEN (CHOOSE x \in d.changed : x[1] = k)[3] ELSE t[k]]

\* The audit event of a permission change carries the difference between the
\* tables before and after the commit, though setRolePermissions read the
\* former several statements earlier; and no change of nothing is recorded.  Only
\* where the role was read before the version expected came up is that not promised.
AuditTellsChange ==
    [][\A p \in Procs :
         Changes(p) /\ req[p].op = "setPerms" /\ ReadAtExpected(target[p], p) =>
         \A e \in audit' \ audit :
            /\ perm'[e.target] # perm[e.target]
            /\ perm'[e.target] = Applied(perm[e.target], e.diff)]_vars

\* The row that p replaces, and the one it puts there, are such as its actor may
\* change: not protected, of its organization and below the rank its boundary had.
StaysBelow(p, r) ==
    /\ MayChange(bnd[p], role[r].org, role[r].rank, role[r].prot, {})
    /\ role'[r] # Nil => MayChange(bnd[p], role[r].org, role'[r].rank, role'[r].prot, {})

\* A role changes only by a request that names it and whose actor may change what
\* is there, though the check read the row in an earlier statement than the
\* compare-and-set: the version that both find vouches for the row.
TargetStillAllowed ==
    [][\A r \in RoleIds : Live(r) /\ role'[r] # role[r] =>
         \E p \in Procs :
            /\ Changes(p) /\ req[p].role = r
            /\ ReadAtExpected(target[p], p) => StaysBelow(p, r)]_vars

\* Whatever version it sends, an actor that is not an owner changes lower-ranked
\* roles only.
LowerRanksOnly ==
    [][\A r \in RoleIds : Live(r) /\ role'[r] # role[r] =>
         \E p \in Procs : Changes(p) /\ req[p].role = r /\ StaysBelow(p, r)]_vars

\* A client that saves a member's roles with the version it loaded replaces the
\* roles it loaded, less the roles deleted since: memberRoles answers a
\* consistent pair, and the compare-and-set stops a save over another's.
NoLostUpdate ==
    [][\A p \in Procs :
         /\ pc[p] = "commit" /\ audit' # audit /\ pc'[p] = "idle" /\ req[p].op = "setMember"
         /\ view[p] # Nil /\ view[p].member = req[p].member /\ view[p].version = req[p].exp
         => assign[req[p].member] = {r \in view[p].roles : Live(r)}]_vars

\* No session survives with an ability that a committed change made stale: the
\* session of every member whose decisions a mutation alters is deleted by it.
SessionsFresh ==
    \A m \in Members : session[m] # Nil => session[m] = View(m)

BestRank(m) == Boundary([org |-> OrgOf[m], member |-> m, owner |-> FALSE, wildcard |-> FALSE]).rank

\* No call of an actor that is not an owner gives any member, itself included,
\* a better rank than one just below the actor's.
RankCeiling ==
    [][\A p \in Procs :
         pc[p] = "commit" /\ pc'[p] = "idle" /\ ~bnd[p].owner =>
         \A m \in Members : BestRank(m)' < BestRank(m) => BestRank(m)' > bnd[p].rank]_vars

\* Transactions wait for each other only in two ways.  setMemberRoles, which locks
\* the assignment rows before the roles, meets deleteRole, which locks the role
\* before its assignment rows.  Or two role changes have each deleted the sessions
\* of a member whose sessions the other is to delete next.
DeadlocksKnown ==
    \A S \in SUBSET Procs : Stuck(S) =>
        \E p, o \in S :
            \/ pc[p] \in {"clear", "assign"} /\ pc[o] = "cascade"
            \/ /\ pc[p] = "invalidate" /\ pc[o] = "invalidate" /\ Waits(p, o)
               /\ Deleted(p) # {} /\ Deleted(o) # {}

\* A rename to a name that no row reserves is not refused: what the test of the
\* native store does when it renames "Operators" to "Line operators".
RenameGoesThrough ==
    \A p \in Procs :
        /\ pc[p] = "reserve" /\ req[p].op = "update"
        /\ Live(req[p].role) /\ nameRow[NewKey(p)] = Nil
        => CanReserve(req[p], NewKey(p))

-----------------------------------------------------------------------------
(* The registry that the service promises: its roles are the committed rows,   *)
(* whatever the requests in flight have read or written.                       *)

Registry == INSTANCE RoleRegistry WITH
    RegOrgs <- Orgs, RegMembers <- Members, RegRoleIds <- RoleIds, RegNames <- Names,
    RegRanks <- Ranks, RegOrgOf <- OrgOf, Absent <- Nil,
    roles <- role, effects <- perm, assigned <- assign,
    versions <- [m \in Members |-> MemberVersion(m)], log <- audit

\* Each interleaving of requests looks like changes made one at a time: a commit
\* is one registry operation at the version its client expected, with names
\* unique, assigned roles live and the audit event true at that very moment,
\* though what the transaction checked it read several statements before; and
\* no other step changes a committed row.
ImplementsRegistry == Registry!RegSpec

\* p changes a role by what it read of it at another version.
ReadElsewhere(p) ==
    \/ req[p].op = "update" /\ ~ReadAtExpected(cur[p], p)
    \/ req[p].op = "setPerms" /\ ~ReadAtExpected(target[p], p)

\* Under READ COMMITTED a commit whose transaction read the role at the version it
\* changes is one registry operation in every state whose reservations are in
\* order, NamesKept saying which commits can leave them in disorder; and no
\* statement but a commit changes a row.
CommitsAreChanges ==
    /\ Registry!RegInit
    /\ [][\/ Registry!RegNext
          \/ ~NamesReserved
          \/ \E p \in Procs : Changes(p) /\ ReadElsewhere(p)]_(Registry!regVars)

-----------------------------------------------------------------------------
(* Liveness. *)

\* Every request is answered, with an error when the database aborts it to end
\* a deadlock: from any moment on each process is idle again, so no error path
\* forgets its transaction and no wait is for ever.
Answered == \A p \in Procs : []<>(pc[p] = "idle")

=============================================================================
