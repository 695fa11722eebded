SPECIFICATION Spec
CONSTANTS
  Call <- MCThreeCalls
  Process = {1, 2, 3}
  ProcOf <- MCOwnProcess
  MaxNumber = 2
  MayFail = {3}
  MayDie = {1}
  NoFile = NoFile
  Empty = Empty
  Foreign = Foreign
  InitialFile = {Empty, Foreign}
INVARIANTS TypeOK OneWinner HolderOwnsFile 
PROPERTIES NeverStolen ImplementsMutex
