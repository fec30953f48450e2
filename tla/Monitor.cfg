SPECIFICATION Spec
CONSTANTS
  Values = {v1, v2}
  Passing = {v1}
  MaxRounds = 3
  MaxTuples = 2
  MaxFaults = 2
INVARIANTS TrimIsSafe StateBounded FiresOnce NoRefire LossBounded
PROPERTY ImplementsDelta
CHECK_DEADLOCK FALSE
