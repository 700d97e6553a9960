CONSTANTS
  P <- MC_P
  N <- MC_N
  F <- MC_F
  Kind = "column"
  LayerNames <- MC_LayerNamesSingle
  Sizes <- MC_Sizes
  SizesGiven = FALSE
  Adapters <- MC_Adapters
  LoraR <- MC_LoraR
  X <- MC_X
  W <- MC_W
  LoraA <- MC_LoraA
  LoraB <- MC_LoraB
  BiasOn = TRUE
  Bias <- MC_Bias
  BaseAllReduce = FALSE
  SgmvPerRank = FALSE
  NoCall = NoCall
SPECIFICATION Spec
PROPERTY LayerRefinesSpec
