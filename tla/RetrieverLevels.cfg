INIT Init
NEXT Next
CONSTANTS
  a = a
  b = b
  Kinds = {a, b}
  Contents = {v, w}
  WellTyped = {v}
  Clients = {c1, c2}
  Requests = {r1,r2,r3}
  Levels = {"basic", "everything"}
  Extra = {TRUE, FALSE}
  Deps <- NoDeps
  NegTTL = 0
  PosTTL = 1
  MaxEvents = 0
SYMMETRY Symmetry
INVARIANTS BatchOK ResultOK
PROPERTY PassedStaysCached
