SPECIFICATION Spec
CONSTANTS
  o1 = o1
  o2 = o2
  owner = owner
  manager = manager
  worker = worker
  rManager = rManager
  rA = rA
  rB = rB
  nManager = nManager
  nA = nA
  nB = nB
  nC = nC
  kManage = kManage
  Star = Star
  Nil = Nil
  TeamKeys = {}
  Keys = {kManage}
  RoleRead = kManage
  RoleManage = kManage
  MemberManage = kManage
  Orgs = {o1}
  OrgOf <- OneOrg
  Procs = {p1, p2}
  Members = {owner, worker}
  Clients = {worker}
  RoleIds = {rA}
  Names = {nA}
  Actors <- OwnerOnly
  Ranks = {2}
  MaxSafe = 4
  MaxVersion = 2
  Asked <- AskSessions
  Isolation = "readCommitted"
  UniqueRoleId = FALSE
  SeedRole <- JustA
  SeedPerm <- AllowedByA
  SeedAssign <- NoneAssigned
  SeedVersion <- ZeroVersions
SYMMETRY ProcSymmetry
INVARIANTS
  SessionsFresh
