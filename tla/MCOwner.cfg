SPECIFICATION Spec
CHECK_DEADLOCK FALSE
SYMMETRY MCSymmetry
CONSTANTS
  Here = Here
  Box = Box
  Twin = Twin
  m1 = m1
  m2 = m2
  Process = {p1, p2, p3}
  Pid = {n1, n2}
  Judge = {p1}
  Start = {1, 2}
  Place = {Here, Box, Twin}
  Machine = {m1, m2}
  On <- MCOn
  Hostname <- MCHostname
  MachineId <- MCMachineId
  Namespace <- MCNamespace
  Hides <- MCHides
  MaxBoot = 1
INVARIANTS DeadIsGone GoneIsDead
