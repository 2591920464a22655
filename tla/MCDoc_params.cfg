SPECIFICATION Spec
CONSTANTS
    Programs <- DocPrograms
    PreludeNames <- MCPrelude
    Files <- MCFiles
    MaxOps = 4
PROPERTY ParamsRestored
CHECK_DEADLOCK FALSE
