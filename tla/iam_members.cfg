SPECIFICATION FairSpec
CONSTANTS
  o1 = o1
  o2 = o2
  owner = owner
  manager = manager
  worker = worker
  rManager = rManager
  rA = rA
  rB = rB
  nManager = nManager
  nA = nA
  nB = nB
  nC = nC
  kManage = kManage
  Star = Star
  Nil = Nil
  TeamKeys = {}
  Keys = {kManage}
  RoleRead = kManage
  RoleManage = kManage
  MemberManage = kManage
  Orgs = {o1, o2}
  OrgOf <- OwnerElsewhere
  Procs = {p1, p2}
  Members = {owner, manager, worker}
  Clients = {manager, worker}
  RoleIds = {rA, rB}
  Names = {nA, nB, nC}
  Actors <- RootOnly
  Ranks = {1, 2}
  MaxSafe = 4
  MaxVersion = 1
  Asked <- AskMembers
  Isolation = "readCommitted"
  UniqueRoleId = FALSE
  SeedRole <- AandB
  SeedPerm <- NothingAllowed
  SeedAssign <- BothShared
  SeedVersion <- NullVersions
INVARIANTS
  TypeOK
  AssignmentsLive
  AuditTellsVersions
  DeadlocksKnown
PROPERTIES
  Answered
