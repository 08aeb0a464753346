SPECIFICATION Spec
CONSTANTS
  Member <- SpelledMember
  Item <- MCItem
  Admits <- MCAdmits
  CanonicalOf <- MCCanonicalOf
  MemberPolicy <- MCMemberPolicy
  IsVersion <- MCIsVersion
  Constraint <- SpelledConstraint
  MaxGroups = 4
  MaxAsked = 4
INVARIANT AndIsIntersection
CHECK_DEADLOCK FALSE
