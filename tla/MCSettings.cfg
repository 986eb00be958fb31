SPECIFICATION SumSpec
CONSTANTS
  WaitMax = 2
  MaxQueue = 2
  MaxEvents = 4
  Peers = {"p1"}
  None = "none"
  TTL = 1
  MaxCalls = 3
  MaxWaiting = 1
  MaxPend = 2
  Devices = {"d1", "d2"}
  Invites = {"i1", "i2"}
  MaxSends = 2
  Webs = {TRUE, FALSE}
  MaxUrls = 2
  MaxEdits = 3
  MaxReleases = 2
  MaxClicks = 3
INVARIANTS
  PendingIsWatched
  WaitIsBounded
  ShownIsUnderWay
  InvitesAreSettled
PROPERTIES
  WaitsEnd
  StaleOfferIsChecked
CHECK_DEADLOCK FALSE
