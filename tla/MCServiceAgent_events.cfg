SPECIFICATION MCSpec
CONSTANTS
  Macs = {m1, m2}
  m1 = m1
  m2 = m2
  s1 = s1
  s2 = s2
  MaxConcurrentTasks = 2
  Settings = {s1, s2}
  Rejected = Rejected
  NoRow = NoRow
  NoFile = NoFile
  Cut = Cut
  MaxEvents = 2
  Backoff = "on"
  Base = 1
  MaxInterval = 2
  MultiplierNum = 2
  MultiplierDen = 1
  MaxDuration = 3
  MaxBackoff = 3
INVARIANTS TypeOK CountedIsWritten
PROPERTIES MarkedWhenWritten Converges OrphansGo PaceRecovers
