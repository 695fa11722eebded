SPECIFICATION FairOrderSpec
CONSTANTS
  Call <- MCTwoCalls
  Process = {1, 2}
  ProcOf <- MCOwnProcess
  MaxNumber = 2
  MayFail = {}
  MayDie = {1, 2}
  NoFile = NoFile
  Empty = Empty
  Foreign = Foreign
  InitialFile = {NoFile, Empty, Foreign}
INVARIANT FirstComeFirstServed
PROPERTIES Served ImplementsFairMutex
