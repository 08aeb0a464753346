SPECIFICATION SpecTrip
CONSTANTS
  Flag <- MCFlag
  VcsWord <- MCVcsWord
  UrlWord <- MCUrlWord
  ArchiveWord <- MCArchiveWord
  PathWord <- MCPathWord
  Content <- GluedContent
  Envs <- MCEnvs
  ParseRequirement <- MCParseRequirement
INVARIANTS CommentsInert
CHECK_DEADLOCK FALSE
