SPECIFICATION Spec
CONSTANTS
  Programs <- MCPrograms
  MaxAddr = 50
  MaxPat = 24
  MaxDepth = 30
INVARIANTS Adequate TypeOK WhnfIsValue BindsScoped EffectsBalanced
PROPERTIES EvaluatedOnce PrintsAllowed Terminates
