SPECIFICATION Spec
CONSTANTS
  Sessions <- MCSessions
INVARIANTS LoadedOnce EffectsInPlace EnvFollowsImports
PROPERTIES NothingRebound SessionEnds
CHECK_DEADLOCK FALSE
