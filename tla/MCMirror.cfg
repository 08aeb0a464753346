SPECIFICATION Spec
CONSTANTS
  Target <- MCTarget
  Component <- MCComponent
  Baselines <- MCBaselines
  MaxSeen = 2
INVARIANTS NothingMissed CollectedRunsSomeday AnyLibcIsUnion BaselinesCoverTargets
PROPERTIES PreferenceStable UpgradeKeepsWheels
CHECK_DEADLOCK FALSE
