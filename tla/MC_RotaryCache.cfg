CONSTANTS
  MaxPos = 2
  Factor = 2
  RopeTypes = {"none", "linear", "dynamic", "su"}
  Ctors = {"static"}
  SeqLens = {1, 2, 3, 4, 5}
  Theta = 1000000
  ScalingKeys = {{"type", "factor"}, {"type", "factor", "original_max_position_embeddings"}}
  EnvRope = {FALSE, TRUE}
SPECIFICATION Spec
INVARIANT TypeOK
INVARIANT RowsMatchRope
INVARIANT ServedAfterWarmup
