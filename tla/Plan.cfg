INIT Init
NEXT Next
CONSTANTS
  Fields <- MCFields
  Other <- MCOther
  RowOf <- MCRowOf
  QuerySet <- MCQueries
  MaxRows = 3
  Abilities = {{}, {"projection"}, {"filter"}, {"filter", "sort", "limit"}, {"projection", "filter", "sort", "limit"}}
INVARIANT PlanIsRight
CHECK_DEADLOCK FALSE
