CONSTANTS
  NumLayers = 32
  EmbedModes = {FALSE}
  Quantizes = {"gptq"}
  HasEetq = FALSE
SPECIFICATION Spec
INVARIANT FormatHonoured
