CONSTANTS
  MaxItems = 1
  MaxShares = 2
  MaxTransfers = 2
  MaxQueue = 1
  MaxStops = 2
  Broadcast = TRUE
SPECIFICATION FairSpec
INVARIANTS
  IdleHasNoTicket
PROPERTIES
  BlankOnlyIfLate
  LoadingEnds
CHECK_DEADLOCK FALSE
