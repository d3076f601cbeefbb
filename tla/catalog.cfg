SPECIFICATION Spec
CONSTANTS
  Nil = Nil
  Star = Star
  NoField = NoField
  Keys <- SomeKeys
  TeamKeys <- TeamRead
  Segments <- SomeSegments
  NameOf <- Identifiers
  LocaleRank <- ByLocale
  CodeRank <- ByCode
  Groups <- SomeGroups
  Leaves <- SomeLeaves
  Apps <- SomeApps
  Fields = {"id", "rank"}
  TableSets <- SomeTableSets
CHECK_DEADLOCK FALSE
INVARIANTS
  TypeOK
  StartDecided
  TreeWhole
  ClientAgrees
  NothingForNothing
