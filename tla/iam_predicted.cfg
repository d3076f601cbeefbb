SPECIFICATION Spec
CONSTANTS
  o1 = o1
  o2 = o2
  owner = owner
  manager = manager
  worker = worker
  rManager = rManager
  rA = rA
  rB = rB
  nManager = nManager
  nA = nA
  nB = nB
  nC = nC
  kManage = kManage
  Star = Star
  Nil = Nil
  TeamKeys = {}
  Keys = {kManage}
  RoleRead = kManage
  RoleManage = kManage
  MemberManage = kManage
  Orgs = {o1}
  OrgOf <- OneOrg
  Procs = {p1, p2}
  Members = {owner, manager}
  Clients = {}
  RoleIds = {rManager, rA}
  Names = {nManager, nA}
  Actors <- OwnerAndManager
  Ranks = {1, 2}
  MaxSafe = 4
  MaxVersion = 2
  Asked <- AskManager
  Isolation = "readCommitted"
  UniqueRoleId = FALSE
  SeedRole <- ManagerAndA
  SeedPerm <- ManagerAllowed
  SeedAssign <- ManagerAssigned
  SeedVersion <- ZeroVersions
SYMMETRY ProcSymmetry
PROPERTIES
  LowerRanksOnly
