SPECIFICATION Spec
CONSTANTS
  Keys = {k1, k2}
  Values = {v1, v2}
  Lifetimes <- Timeouts
  MaxNow = 2
  MaxSeat = 3
INVARIANTS NothingSkipped
PROPERTIES ImplementsMap
