SPECIFICATION Spec
CONSTANTS
  Programs <- CommittedPrograms
  MaxAddr = 50
  MaxPat = 24
  MaxDepth = 30
INVARIANT MatchedArmCommits
