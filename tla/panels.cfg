SPECIFICATION MCSpec
CONSTANTS
  Keys = {k}
  TeamKeys = {}
  Star = star
  o1 = o1
  r1 = r1
  nA = nA
  RegOrgs = {o1}
  RegMembers = {m1, m2}
  RegRoleIds = {r1}
  RegNames = {nA, nB}
  RegRanks = {1}
  RegOrgOf <- OneOrg
  Absent = Absent
  Slots = {1, 2}
  FormTables <- FormAllows
  OtherTables <- StarAllows
  MaxSaves = 2
  MaxOthers = 1
CHECK_DEADLOCK FALSE
INVARIANTS
  TypeOK
  PanelTrue
PROPERTIES
  SavesSeen
  MemberSavesSeen
