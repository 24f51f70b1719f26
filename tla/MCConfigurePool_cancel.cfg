SPECIFICATION Spec
CONSTANTS
  Ifaces = {i1, i2}
  Workers = {w1}
  MaxRetries = 1
  Cancellable = TRUE
  NoIface = NoIface
PROPERTY CancelledCallReturns
CHECK_DEADLOCK FALSE
