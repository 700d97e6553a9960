CONSTANTS
  P <- MC_P
  N <- MC_N
  F <- MC_F
  Kind = "head"
  LayerNames <- MC_LayerNames
  Sizes <- MC_Sizes
  SizesGiven = TRUE
  Adapters <- MC_Adapters
  LoraR <- MC_LoraR
  X <- MC_X
  W <- MC_W
  LoraA <- MC_LoraA
  LoraB <- MC_LoraB
  BiasOn = FALSE
  Bias <- MC_Bias
  BaseAllReduce = FALSE
  SgmvPerRank = FALSE
  NoCall = NoCall
SPECIFICATION Spec
INVARIANT OutputMatchesReference
