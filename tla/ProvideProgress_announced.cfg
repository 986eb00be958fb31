SPECIFICATION FairSpec
CONSTANTS
  Requests = {r1, r2}
  Sizes <- BlobSizes
  Payload = {3}
  Total = 2
  MetaFirst = TRUE
PROPERTY CompletionIsAnnounced
CHECK_DEADLOCK FALSE
