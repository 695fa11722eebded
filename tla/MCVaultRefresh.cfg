SPECIFICATION Spec
CONSTANTS
  A = A
  B = B
  Alias = {A, B}
  NoEntry = NoEntry
  Absent = Absent
  Nobody = Nobody
  Call <- MCThree
  Process = {1, 2, 3}
  Setups <- MCFailing
  Window = 1
  Lifetimes = {2}
  MaxTime = 2
INVARIANTS TypeOK Usable OneRefresh RotationDurable RecoveredFirst
CHECK_DEADLOCK FALSE
