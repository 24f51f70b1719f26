--------------------------- MODULE MCNodeController --------------------------
(* Small instances of NodeController.                                      *)
EXTENDS NodeController
=============================================================================
