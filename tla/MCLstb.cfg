SPECIFICATION Spec
CONSTANTS
    Programs <- MCPrograms
    CString <- MCCString
    LibcAlloc = TRUE
    MaxOps = 3
PROPERTIES ReadIffComplete RoundTrip
CHECK_DEADLOCK FALSE
