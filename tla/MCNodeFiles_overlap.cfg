SPECIFICATION Spec
CONSTANTS
  m1 = m1
  m2 = m2
  Macs = {m1, m2}
  MaxNames = 2
  OSes = {"ubuntu"}
  Agents = {a1, a2}
  MaxVer = 1
  MaxEdits = 2
  Kernel = Kernel
  Absent = Absent
  NoName = NoName
  NoConfig = NoConfig
  Cut = Cut
SYMMETRY Symmetry
CONSTRAINT Smooth
PROPERTY OnlyOrphansDeleted
