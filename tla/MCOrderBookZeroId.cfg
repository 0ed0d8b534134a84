SPECIFICATION Spec
CONSTANTS
  OrderId = {z, a, b}
  ZeroId = z
  Instrument = {i}
  NoInstrument = none
  Prices = {1, 2}
  Quantities = {1, 2}
  Commands <- ZeroIdCommands
  FirstEventSequence = 1
  MaxEventSequence = 5
INVARIANTS MissingOrderIdRejected
CHECK_DEADLOCK FALSE
