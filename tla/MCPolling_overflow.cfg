SPECIFICATION PollSpec
CONSTANTS
  Backoff = "on"
  Base = 3
  MaxInterval = 30
  MultiplierNum = 3
  MultiplierDen = 2
  MaxDuration = 127
  MaxBackoff = 12
INVARIANT WithinMaxInterval
CHECK_DEADLOCK FALSE
