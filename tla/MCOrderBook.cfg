SPECIFICATION Spec
CONSTANTS
  OrderId = {z, a, b, c, d}
  ZeroId = z
  Instrument = {i}
  NoInstrument = none
  Prices = {1, 2}
  Quantities = {1, 2}
  Commands <- MatchingCommands
  FirstEventSequence = 1
  MaxEventSequence = 9
SYMMETRY IdSymmetry
INVARIANTS TypeOK BookValid FifoQueues EventsAccountForOrder
PROPERTIES TradesFollowPriority EngineIsFunction
CHECK_DEADLOCK FALSE
