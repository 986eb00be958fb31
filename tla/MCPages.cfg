SPECIFICATION SumSpec
SYMMETRY WindowSymmetry
CONSTANTS
  Peers = {p1}
  Commands = {k1, k2}
  Timers = {t1, t2}
  None = None
  Slots = {1, 2}
  MaxToggles = 3
  MaxStarts = 1
  Languages = {"en", "fr"}
  Unknown = "xx"
  MaxChanges = 4
  Files = {"f1", "f2"}
  Dirs = {"d1"}
  MaxCalls = 2
  Webs = {TRUE, FALSE}
  Devices = {"d1", "d2", "d3"}
  Sames = {TRUE, FALSE}
  MaxClock = 2
  MaxCount = 1
  MaxQueue = 1
  Receives = {1, 2}
  Texts = {"a", "b"}
  Nested = {"b"}
  Sizes = {0, 2}
  MaxFiles = 2
  MaxIndex = 4
  Field32 = 256
  Totals = {0, 3}
  Speeds = {0, 2}
  MaxSamples = 1
  Bars = 4
  MaxTransfers = 2
  MaxEvents = 2
  Commits <- CommitsOfLog
  Authors <- AuthorsOfLog
  Owner = "own"
  Limit = 1
  MaxLog = 4
INVARIANTS
  TimedWindowIsWatched
  PairingClosesWindow
  MenuMatchesSetting
  PreferencesAreApplied
  SelectionIsSound
  MeterIsSound
  NotesMatchLog
PROPERTIES
  ListIsSound
  ReceivedIsSaved
CHECK_DEADLOCK FALSE
