SPECIFICATION Spec
CONSTANTS
  Member <- MCMember
  Item <- MCItem
  Admits <- MCAdmits
  CanonicalOf <- MCCanonicalOf
  MemberPolicy <- MCMemberPolicy
  IsVersion <- MCIsVersion
  IsPre <- MCIsPre
  OwnPolicy <- MCOwnPolicy
  Subject <- MCSubject
  Candidates <- MCCandidates
INVARIANTS OfferKeepsPromise SetAgreesWithMember
CHECK_DEADLOCK FALSE
