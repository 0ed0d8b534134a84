SPECIFICATION Spec
CONSTANTS
  OrderId = {z, a, b, c}
  ZeroId = z
  Instrument = {i, j}
  NoInstrument = none
  Prices = {1, 2}
  Quantities = {1, 2}
  Commands <- AllCommands
  FirstEventSequence = 1
  MaxEventSequence = 6
SYMMETRY IdSymmetry
INVARIANTS BookValid FifoQueues OneInstrument EventsAccountForOrder
PROPERTIES RejectionMutatesNothing ImplementsPriceTimePriority
CHECK_DEADLOCK FALSE
