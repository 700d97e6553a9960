CONSTANTS
  P = 3
  V = 7
  L = 2
  Table <- MC_Table
  Reduces = {TRUE}
  NoOutput = NoOutput
SPECIFICATION Spec
INVARIANT EmbeddingMatchesTable
