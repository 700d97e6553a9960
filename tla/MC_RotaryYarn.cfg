CONSTANTS
  MaxPos = 2
  Factor = 2
  RopeTypes = {"yarn"}
  Ctors = {"static"}
  SeqLens = {1, 2, 3}
  Theta = 10000
  ScalingKeys = {{"type", "factor", "original_max_position_embeddings"}}
  EnvRope = {FALSE}
SPECIFICATION Spec
INVARIANT RowsMatchRope
