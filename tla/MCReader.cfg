SPECIFICATION SpecTrip
CONSTANTS
  Flag <- MCFlag
  VcsWord <- MCVcsWord
  UrlWord <- MCUrlWord
  ArchiveWord <- MCArchiveWord
  PathWord <- MCPathWord
  Content <- MCContent
  Envs <- MCEnvs
  ParseRequirement <- MCParseRequirement
INVARIANTS CommentsInert EveryMarkOnce PrintableRoundTrips
CHECK_DEADLOCK FALSE
