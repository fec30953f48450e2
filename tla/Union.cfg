SPECIFICATION Spec
CONSTANTS
  Values = {v, w}
  MaxEmits = 2
  MaxTime = 2
  MayFail = TRUE
INVARIANTS NoPairLost EndIsLast RightChangeFires
PROPERTY RuleEnds
CHECK_DEADLOCK FALSE
