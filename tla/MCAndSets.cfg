SPECIFICATION Spec
CONSTANTS
  Member <- MCMember
  Item <- MCItem
  Admits <- MCAdmits
  CanonicalOf <- MCCanonicalOf
  MemberPolicy <- MCMemberPolicy
  IsVersion <- MCIsVersion
  Constraint <- MCConstraint
  MaxGroups = 4
  MaxAsked = 4
INVARIANTS TypeOK AndIsIntersection NeverUniversalByAccident PolicyIsCombined
CHECK_DEADLOCK FALSE
