SPECIFICATION SumSpec
CONSTANTS
  NEvents = 3
  MaxRuns = 3
  MaxJobs = 2
  MaxRetries = 1
  MaxPicks = 1
  MaxShares = 1
  Names = {"a", "d"}
  Inner = {"x"}
  MaxHanded = 3
  MaxSends = 2
  Handlers = {"h1", "h2", "h3", "h4"}
INVARIANTS
  ListenersAreOwned
  
  PayloadIsSound
  HandlersAreReached

  
CHECK_DEADLOCK FALSE
