SPECIFICATION Spec
CHECK_DEADLOCK FALSE
CONSTANTS
  out = out
  config = config
  TOKEN = TOKEN
  Nil = Nil
  Torn = Torn
  Commands = {c1, c2}
  Invocations <- CommandLines
  Paths = {out, config}
  ConfigPath = config
  Outside = {}
  Configs <- Remotes
  Envs = {TOKEN}
  EnvSet = {TOKEN}
  Texts <- SomeTexts
  Artifacts <- Served
  Foreign <- Pages
  EtagOf <- OwnTags
  MaxBytes = 1
  MaxDeploys = 1
  MaxEdits = 1
SYMMETRY CommandSymmetry
INVARIANTS
  TypeOK
  FilesWhole
  TempRemoved
PROPERTIES
  PullDelivers
  WritesServed
  CheckTells
