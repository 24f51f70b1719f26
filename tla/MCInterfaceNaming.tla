-------------------------- MODULE MCInterfaceNaming --------------------------
(* Small instances of InterfaceNaming: MAC addresses are interchangeable.  *)
EXTENDS InterfaceNaming, TLC

Symmetry == Permutations(Macs)
=============================================================================
