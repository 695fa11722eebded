SPECIFICATION Spec
CONSTANTS
  A = A
  B = B
  Alias = {A, B}
  NoEntry = NoEntry
  Absent = Absent
  Nobody = Nobody
  Call <- MCThree
  Process = {1, 2, 3}
  Setups <- MCChanges
  Window = 1
  Lifetimes = {2}
  MaxTime = 0
INVARIANT Acknowledged
PROPERTIES OnlyTheAsker DefaultKept
CHECK_DEADLOCK FALSE
