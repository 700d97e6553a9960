CONSTANTS
  P = 3
  V = 6
  L = 2
  Table <- MC_Table
  Reduces = {TRUE, FALSE}
  NoOutput = NoOutput
SPECIFICATION Spec
INVARIANT TypeOK
INVARIANT EmbeddingMatchesTable
PROPERTY LookupRefinesSpec
