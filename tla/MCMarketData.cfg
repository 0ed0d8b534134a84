SPECIFICATION FeedSpec
CONSTANTS
  OrderId = {z, a, b, c}
  ZeroId = z
  Instrument = {i}
  NoInstrument = none
  Prices = {1, 2}
  Quantities = {1, 2}
  Commands <- FeedCommands
  QuantityLimit = 4
  FirstEventSequence = 1
  MaxEventSequence = 5
SYMMETRY IdSymmetry
INVARIANTS NextEventAccepted ProjectionMatchesBook LevelsMatchBook PublicBookNotCrossed TapeIsExact
CHECK_DEADLOCK FALSE
