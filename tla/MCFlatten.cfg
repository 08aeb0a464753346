SPECIFICATION RSpec
CONSTANTS
  NONE = NONE
  PlainKind = {"requirement", "option"}
  Text <- MCText
  Path <- MCPath
  File <- MCFiles
  Roots <- MCRoots
  Target <- MCTargets
  Verbatim <- MCVerbatim
  FileOf <- MCFileOf
  Resolve <- MCResolve
  Base <- MCBase
  Routes <- MCRoutes
INVARIANTS TypeOK VisitedIsStack ImmediateConstraint AllOrNothing AliasedAsWritten
PROPERTIES CycleIsReal PromiseKept
CHECK_DEADLOCK FALSE
