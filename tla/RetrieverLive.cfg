SPECIFICATION Spec
CONSTANTS
  a = a
  b = b
  Kinds = {a, b}
  Contents = {v, w}
  WellTyped = {v}
  Clients = {c1}
  Requests = {r1,r2}
  Levels = {"everything"}
  Extra = {FALSE}
  Deps <- DepsChain
  NegTTL = 0
  PosTTL = 1
  MaxEvents = 2
PROPERTY Answered
