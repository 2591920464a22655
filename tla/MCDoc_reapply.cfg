SPECIFICATION Spec
CONSTANTS
  Programs <- DocPrograms
  MaxAddr = 50
  MaxPat = 24
  MaxDepth = 30
INVARIANT ApplicationsIndependent
