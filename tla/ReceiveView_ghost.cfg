CONSTANTS
  Tickets = {t1}
  None = None
  Platforms = {"desktop"}
  MaxReceives = 2
  MaxQueue = 1
SPECIFICATION Spec
CHECK_DEADLOCK FALSE
INVARIANT NoGhostCompletion
