SPECIFICATION Spec
CONSTANTS
    Programs <- MCPrograms
    PreludeNames <- MCPrelude
    Files <- MCFiles
    MaxOps = 4
INVARIANTS AcceptedIffComplete
PROPERTIES RoundTrip ParamsKept OthersKept OperationsEnd
CHECK_DEADLOCK FALSE
