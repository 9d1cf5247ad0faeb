CONSTANTS
  None = None  NoRow = NoRow
  JsonColumns = {}
  Filter <- Asked
  Letter <- Letters
  Id = {1, 2, 3}
  G <- Ints
  V <- Marks
  Requests <- Every
  MaxWrites = 1
SPECIFICATION Spec
INVARIANTS
  KeysetMissesNothing
  OffsetPagesAddUp
  TopNKeepsTheTop
  JoinedOnce
  
CHECK_DEADLOCK FALSE
