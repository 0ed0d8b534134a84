SPECIFICATION Spec
CONSTANTS
  Payload = {p}
  Empty = {}
  Padded = {p}
  Configs <- OneEpoch
  MaxSequence = 3
INVARIANTS CommittedReadBack
