INIT Init
NEXT Next
CONSTANTS
  a = a
  b = b
  Kinds = {a, b}
  Contents = {v}
  WellTyped = {v}
  Clients = {c1,c2}
  Requests = {r1,r2,r3,r4}
  Levels = {"everything"}
  Extra = {FALSE}
  Deps <- DepsChain
  NegTTL = 0
  PosTTL = 1
  MaxEvents = 1
SYMMETRY Symmetry
INVARIANTS WaiterOK ReplyIsFresh
PROPERTY AnswerIsFresh
