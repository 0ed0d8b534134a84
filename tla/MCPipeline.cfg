SPECIFICATION FairPipelineSpec
CONSTANTS
  OrderId = {z, a, b}
  ZeroId = z
  Instrument = {i}
  NoInstrument = none
  Commands <- CommandBodies
  FirstEventSequence = 1
  MaxEventSequence = 20
  a = a
  b = b
  i = i
  Logs <- LeftLogs
  Name <- Names
  StableId <- NameIds
  InstrumentId <- NameInstruments
  Path = {p, q}
  Scenarios <- ShortScenarios
  MaxProcesses = 2
INVARIANTS OkMeansEqual CompletedRunReplays RunExitZero
PROPERTIES ProcessEnds
CHECK_DEADLOCK FALSE
