SPECIFICATION Spec
CONSTANTS
  o1 = o1
  o2 = o2
  owner = owner
  manager = manager
  worker = worker
  rManager = rManager
  rA = rA
  rB = rB
  nManager = nManager
  nA = nA
  nB = nB
  nC = nC
  kManage = kManage
  Star = Star
  Nil = Nil
  TeamKeys = {}
  Keys = {kManage}
  RoleRead = kManage
  RoleManage = kManage
  MemberManage = kManage
  Orgs = {o1, o2}
  OrgOf <- OneOrg
  Procs = {p1}
  Members = {owner, manager}
  Clients = {manager}
  RoleIds = {rManager, rA}
  Names = {nManager, nA}
  Actors <- OwnerManagerAndRoot
  Ranks = {1, 2}
  MaxSafe = 4
  MaxVersion = 2
  Asked <- AskAll
  Isolation = "serial"
  UniqueRoleId = FALSE
  SeedRole <- ManagerAndA
  SeedPerm <- ManagerAllowed
  SeedAssign <- ManagerAssigned
  SeedVersion <- NullVersions
SYMMETRY ProcSymmetry
INVARIANTS
  SessionsFresh
PROPERTIES
  RankCeiling
  NoLostUpdate
  LowerRanksOnly
  ImplementsRegistry
