SPECIFICATION Spec
CONSTANTS
  m1 = m1
  m2 = m2
  m3 = m3
  Macs = {m1, m2, m3}
  MaxNames = 2
  Explicit = FALSE
  CmdFails = FALSE
  Kernel = Kernel
  Absent = Absent
  NoName = NoName
SYMMETRY Symmetry
INVARIANTS TypeOK UniqueNames NameFreeForOwner NamingInv
PROPERTY LinkKeepsName
