SPECIFICATION Spec
CONSTANTS
  m1 = m1
  m2 = m2
  m3 = m3
  Macs = {m1, m2, m3}
  MaxNames = 2
  Explicit = TRUE
  CmdFails = TRUE
  Kernel = Kernel
  Absent = Absent
  NoName = NoName
SYMMETRY Symmetry
PROPERTIES ReservationKept ChosenNameIsFresh
