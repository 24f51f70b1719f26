SPECIFICATION Spec
CONSTANTS
  Macs = {a, b}
  MaxInterfaces = 3
  MaxEdits = 1
  NoName = 99
INVARIANTS TypeOK FailureReported ConfiguredMeansAll
PROPERTY OutcomesMatch
SYMMETRY Perms
