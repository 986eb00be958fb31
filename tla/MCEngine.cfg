SPECIFICATION SumSpec
CONSTANTS
  Calls = {"r1", "r2"}
  Hashes = {"h1", "h2"}
  None = "none"
INVARIANTS
  SlotIsLive
  OneCancellable
PROPERTIES
  CancelEndsDownload
  ForgottenGoesQuiet
  OfflineIsShown
