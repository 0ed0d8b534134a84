SPECIFICATION Spec
CONSTANTS
  Payload = {p}
  Empty = {}
  Padded = {}
  Configs <- OneEpoch
  MaxSequence = 2
INVARIANTS VisibleOnlyAfterCommit
