SPECIFICATION FairFeedSpec
CONSTANTS
  OrderId = {z, a, b, c}
  ZeroId = z
  Instrument = {i}
  NoInstrument = none
  Prices = {1, 2}
  Quantities = {1, 2}
  Commands <- SweepCommands
  QuantityLimit = 7
  FirstEventSequence = 1
  MaxEventSequence = 5
PROPERTIES CallReturns ConsumerCatchesUp
CHECK_DEADLOCK FALSE
