SPECIFICATION Spec
CONSTANTS
  SegValues = 2
  PreValues = 2
  PostValues = 2
  DevValues = 2
  MaxSegments = 2
  Parsed <- Sample
  Bases <- Operands
  Specs <- Written
INVARIANTS PackedAgrees OneOrder ReleaseOrderCoarser GapIsExact PrefixIsConvex PlainEqualMatchesAlike
