SPECIFICATION FairSpec
CONSTANTS
  Peers = {}
  Commands = {k1, k2}
  Timers = {t1, t2}
  None = None
PROPERTY TimedWindowCloses
