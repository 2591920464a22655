SPECIFICATION Spec
CONSTANTS
  MaxParts = 6
  Sources <- MCSources
  CutSources <- CutPrograms
  Texts <- MCTexts
  StrictModes = {FALSE, TRUE}
INVARIANTS MeaningKept PipeKeepsMeaning CutNeverRuns StrictEffectsTokened
PROPERTY ToolsEnd
