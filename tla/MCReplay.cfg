SPECIFICATION ReplaySpec
CONSTANTS
  OrderId = {z, a, b}
  ZeroId = z
  Instrument = {i}
  NoInstrument = none
  Commands <- CommandBodies
  FirstEventSequence = 1
  MaxEventSequence = 10
  a = a
  b = b
  i = i
  Logs <- SessionLogs
INVARIANTS OkMeansEqual FailureIsFirst
