CONSTANTS
  MaxPos = 2
  Factor = 2
  RopeTypes = {"none", "linear", "dynamic", "yarn"}
  Ctors = {"load"}
  SeqLens = {1, 3}
  Theta = 500000
  ScalingKeys = {{"type", "factor"}}
  EnvRope = {FALSE}
SPECIFICATION Spec
INVARIANT LoadMatchesStatic
