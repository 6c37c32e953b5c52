CONSTANTS
  Nodes = {a, b, c}
  Graphs <- MCGraphs
SPECIFICATION SearchSpec
INVARIANTS
  AnswerCorrect
PROPERTY Terminates
CHECK_DEADLOCK FALSE
