-------------------------- MODULE MCConfigurePool ---------------------------
(* Instances of ConfigurePool for TLC.                                     *)
EXTENDS ConfigurePool
=============================================================================
