SPECIFICATION Spec
CONSTANTS
  Ifaces = {i1, i2, i3}
  Workers = {w1, w2}
  MaxRetries = 1
  Cancellable = TRUE
  NoIface = NoIface
INVARIANTS TypeOK SendersNeverBlock OneHolder ClosedIsQuiet ReportComplete PoolInv
PROPERTIES ImplementsBatchSafety ImplementsBatch WorkersReturn
CHECK_DEADLOCK FALSE
