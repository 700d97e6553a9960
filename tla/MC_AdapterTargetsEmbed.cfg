CONSTANTS
  NumLayers = 2
  EmbedModes = {TRUE}
  Quantizes = {"none"}
  HasEetq = FALSE
SPECIFICATION Spec
INVARIANT TargetsCoverLayers
