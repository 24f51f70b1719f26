SPECIFICATION Spec
CONSTANTS
  m1 = m1
  m2 = m2
  m3 = m3
  Macs = {m1, m2, m3}
  MaxNames = 2
  OSes = {"ubuntu", "rhel9"}
  Agents = {a1}
  MaxVer = 1
  MaxEdits = 2
  Kernel = Kernel
  Absent = Absent
  NoName = NoName
  NoConfig = NoConfig
  Cut = Cut
SYMMETRY Symmetry
CONSTRAINT Small
INVARIANTS TypeOK ConfiguredIsPersisted AddressOnOwnLink OrphansRemoved CleanupRemovesAll
