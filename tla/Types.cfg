SPECIFICATION TypingSpec
CONSTANTS
  C = "C"
  P = "P"
  G = "G"
  D = "D"
  Jobs <- MCJobs
  Parents <- MCParents
  MaxFailures = 1
  Functions <- MCFunctions
  Conditions <- MCConditions
  Projections <- MCProjections
  AliasNames = {"foo"}
  Aggregates <- MCAggregates
  SortFields <- MCSortFields
  MaxOperators = 5
INVARIANTS VerdictIsRight OnlyLoadingMisleads ScopeIsSchema FiltersAreApplied MinimalIsOutput
PROPERTY ChecksEnd
CHECK_DEADLOCK FALSE
