SPECIFICATION Spec
CONSTANTS
  EOF = " 1EOF"
  Start = "S"
  Root = "$ROOT"
  Grammars <- MCGrammars
  Table <- MCTable
  Inputs <- MCInputs
  Sentences <- MCSentences
  MaxTokens = 3
INVARIANTS ArgumentsFit OutputDerives ReducesBounded OnlyDerivation ErrorsAreReal
CHECK_DEADLOCK FALSE
