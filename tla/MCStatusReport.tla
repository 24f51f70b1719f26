--------------------------- MODULE MCStatusReport ---------------------------
(* Small instances of StatusReport: MAC addresses are interchangeable.     *)
EXTENDS StatusReport, TLC

Perms == Permutations(Macs)
=============================================================================
