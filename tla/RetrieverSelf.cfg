SPECIFICATION Spec
CONSTANTS
  a = a
  b = b
  Kinds = {a, b}
  Contents = {v}
  WellTyped = {v}
  Clients = {c1}
  Requests = {r1,r2,r3,r4}
  Levels = {"everything"}
  Extra = {FALSE}
  Deps <- DepsSelf
  NegTTL = 0
  PosTTL = 1
  MaxEvents = 0
PROPERTY Answered
CHECK_DEADLOCK FALSE
