SPECIFICATION FairSpec
CONSTANTS
  shell = shell
  potion = potion
  Nil = Nil
  Blank = Blank
  Names = {shell, potion}
  Shell = shell
  SeedItems <- Items
  Clients = {c1}
  Slots = {1, 2}
  Changes <- Change
  Quantities = {1}
  MaxCalls = 2
  MaxLogins = 2
  MaxCrashes = 1
  MaxAccess = 1
CHECK_DEADLOCK FALSE
INVARIANTS
  TypeOK
  OrdersPaid
  ShellWithSeeds
  GuardHolds
  PanelTrue
PROPERTIES
  SignsOut
