SPECIFICATION Spec
CONSTANTS
  Arguments <- MCArguments
  Listing <- MCListing
  Holds <- MCHolds
  MaxReplaced = 0
INVARIANT NeverPanics
CHECK_DEADLOCK FALSE
