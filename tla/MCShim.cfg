SPECIFICATION Spec
CHECK_DEADLOCK FALSE
SYMMETRY MCSymmetry
CONSTANTS
  Copy = {c1, c2}
  Kinds <- MCKinds
  Environments <- MCEnvironments
INVARIANTS NeverKeyring InTransaction PlainIfAsked
PROPERTIES RefusedForCause KindKept
