SPECIFICATION TypedSpec
CONSTANTS
  Payload = {order, resized, other}
  Empty = {resized}
  Padded = {}
  OfType = {order, resized}
  OfSize = {order, other}
  Configs <- LateSegment
  MaxSequence = 6
INVARIANTS PromiseKept TypedReadsLog
PROPERTIES LogOnlyGrows
