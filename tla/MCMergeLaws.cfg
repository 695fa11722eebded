SPECIFICATION Spec
CONSTANTS
  Alias = {"a", "b", "c"}
  Secret = {"s1", "s2"}
  NoEntry = NoEntry
  Universes <- MCUniverses
CHECK_DEADLOCK FALSE
INVARIANTS RemovesOnlyIntended OthersKept ChangesApplied ExpiryNeverBack AbsorbedOnce OneDefault DefaultIntended
