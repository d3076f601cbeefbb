SPECIFICATION Spec
CONSTANTS
  kOrg = kOrg
  kTeam = kTeam
  o1 = o1
  o2 = o2
  t1 = t1
  Keys = {kOrg, kTeam}
  TeamKeys = {kTeam}
  Star = Star
  Orgs = {o1, o2}
  Teams = {t1}
  NoTeam = NoTeam
  MaxRoles = 2
  Pending = Pending
CHECK_DEADLOCK FALSE
INVARIANTS
  TypeOK
  LoopAgrees
  EvaluateAgrees
  TraceExplains
