SPECIFICATION Spec
CONSTANTS
  o1 = o1
  o2 = o2
  owner = owner
  manager = manager
  worker = worker
  rManager = rManager
  rA = rA
  rB = rB
  nManager = nManager
  nA = nA
  nB = nB
  nC = nC
  kManage = kManage
  Star = Star
  Nil = Nil
  TeamKeys = {}
  Keys = {kManage}
  RoleRead = kManage
  RoleManage = kManage
  MemberManage = kManage
  Orgs = {o1}
  OrgOf <- OneOrg
  Procs = {p1}
  Members = {owner}
  Clients = {}
  RoleIds = {rA}
  Names = {nA, nB}
  Actors <- OwnerOnly
  Ranks = {2}
  MaxSafe = 4
  MaxVersion = 2
  Asked <- AskRenames
  Isolation = "readCommitted"
  UniqueRoleId = TRUE
  SeedRole <- JustA
  SeedPerm <- NothingAllowed
  SeedAssign <- NoneAssigned
  SeedVersion <- ZeroVersions
SYMMETRY ProcSymmetry
INVARIANTS
  RenameGoesThrough
