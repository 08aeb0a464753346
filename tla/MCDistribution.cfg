SPECIFICATION Spec
CONSTANTS
  Arguments <- MCArguments
  Listing <- MCListing
  Holds <- MCHolds
  MaxReplaced = 2
INVARIANTS WholeOrNothing ExactWhereQuiet NothingLeftOpen
PROPERTIES Returns
CHECK_DEADLOCK FALSE
