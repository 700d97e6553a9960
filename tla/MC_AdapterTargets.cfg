CONSTANTS
  NumLayers = 32
  EmbedModes = {FALSE}
  Quantizes = {"none", "gptq", "hqq-4bit"}
  HasEetq = FALSE
SPECIFICATION Spec
INVARIANT TypeOK
INVARIANT ShardingMatchesCollect
INVARIANT TargetsCoverLayers
