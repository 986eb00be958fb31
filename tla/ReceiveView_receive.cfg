CONSTANTS
  Tickets = {t1, t2}
  None = None
  Platforms = {"desktop", "android"}
  MaxReceives = 2
  MaxQueue = 1
SPECIFICATION FairSpec
INVARIANTS
  PreviewMatchesTicket
  ScreenIsSound
PROPERTIES
  ReceiveEnds
CHECK_DEADLOCK FALSE
