SPECIFICATION Spec
CONSTANTS
  Path <- MCPath
  Name <- MCName
  Disks <- MCDisks
  CommandLines <- MCCommandLines
  MaxDepth = 6
INVARIANT RequiredNamesVisible
