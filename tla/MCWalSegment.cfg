SPECIFICATION Spec
CONSTANTS
  Payload = {p, q}
  Empty = {}
  Padded = {}
  Configs <- TwoEpochs
  MaxSequence = 2
SYMMETRY PayloadSymmetry
INVARIANTS TypeOK CommittedReadBack WriterContinuesLog CommitQueueExact DeliveredIsLogged
PROPERTIES ImplementsDurableLog
