SPECIFICATION Spec
CONSTANTS
  Peers = {p1}
  Conns = {c1}
  Gens = {1, 2}
  Agents = {a1}
  None = None
  MayShutdown = TRUE
SYMMETRY ConnSymmetry
INVARIANTS
  OneLoopPerPeer
  ShutdownStopsDialing
CHECK_DEADLOCK FALSE
