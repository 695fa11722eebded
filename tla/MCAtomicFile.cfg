SPECIFICATION Spec
CHECK_DEADLOCK FALSE
SYMMETRY MCSymmetry
CONSTANTS
  Reader = {}
  Updater = {u1, u2}
  Deleter = {d}
  Migrator = {m}
  Old = Old
  NoFile = NoFile
  Nobody = Nobody
  Sealing = {u2, m}
  Version = {v1, v2, v3}
  MayFail = {u1, m}
INVARIANTS TypeOK Whole Durable
PROPERTIES NoLostUpdate ImplementsRegister
