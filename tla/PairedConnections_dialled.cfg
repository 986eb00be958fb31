SPECIFICATION FairSpec
CONSTANTS
  Peers = {p1}
  Conns = {c1}
  Gens = {1}
  Agents = {a1}
  None = None
  MayShutdown = FALSE
PROPERTY PairedDeviceIsDialled
