SPECIFICATION SpecText
CONSTANTS
  Value <- MCValue
  Actual <- MCActual
  Target <- MCTarget
  Identity <- MCIdentity
  Overrides <- MCOverrides
  Extras <- MCExtras
  Expr <- MCExpr
  Marker <- MCMarker
  Text <- MCText
  Normalize <- MCNormalize
  Backslashed <- MCBackslashed
  BothQuoted <- MCBothQuoted
  Unescape <- MCUnescape
  Malformed <- MCMalformed
  Upper <- MCUpper
  Repaired <- MCRepaired
  MajorMinor <- MCMajorMinor
  Within <- MCWithin
  IsVersion <- MCIsVersion
  IsSpecifier <- MCIsSpecifier
  Check <- MCCheck
  Truth <- MCTruth
INVARIANTS AnswerIsTruth Authoritative OverridesApplied ReadAsWritten ReparsedAnswersAlike VariablesSuffice
CHECK_DEADLOCK FALSE
