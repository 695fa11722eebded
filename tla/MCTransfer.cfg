SPECIFICATION TransferSpec
CONSTANTS
  A = A
  B = B
  Alias = {A, B}
  NoEntry = NoEntry
  Absent = Absent
  Nobody = Nobody
  Call <- MCThree
  Process = {1, 2}
  Setups <- MCTransferring
  Window = 1
  Lifetimes = {2}
  MaxTime = 0
INVARIANT AtMostOneDefault
PROPERTIES Finishes Exactly
CHECK_DEADLOCK FALSE
