SPECIFICATION Spec
CONSTANTS
  Requests = {r1, r2, r3}
  Sizes <- BlobSizes
  Payload = {3}
  Total = 2
  MetaFirst = TRUE
SYMMETRY RequestSymmetry
INVARIANTS TypeOK NearlyDelivered
PROPERTIES AnnouncedWhenQuiet ProgressIsMonotone ImplementsShareReport
CHECK_DEADLOCK FALSE
