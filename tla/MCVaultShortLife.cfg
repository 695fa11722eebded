SPECIFICATION Spec
CONSTANTS
  A = A
  B = B
  Alias = {A, B}
  NoEntry = NoEntry
  Absent = Absent
  Nobody = Nobody
  Call <- MCThree
  Process = {1, 2, 3}
  Setups <- MCSound
  Window = 1
  Lifetimes = {1}
  MaxTime = 1
INVARIANT RotationDurable
CHECK_DEADLOCK FALSE
