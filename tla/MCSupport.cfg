SPECIFICATION SupportSpec
CONSTANTS
  Keys = {"a", "b", "c", "d", "e"}
  Values = {1, 2}
  Hash <- KeyHash
  FirstCapacity = 2
  CorruptAbove = 4
  Texts = {"p", "q", "r", "s", "t", "u"}
  TextHash <- PoolHash
  PoolCapacity = 4
  Frames = 3
  CallBound = 6
  CallLimit = 9
  Bits = 15
  Characters <- OneOfEachKind
  MaxText = 3
INVARIANTS WalkComplete OneObject ProbesEnd FramesPending NumbersKept CutIsError LiteralKept
PROPERTIES ImplementsMap
