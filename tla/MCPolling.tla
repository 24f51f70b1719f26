----------------------------- MODULE MCPolling ------------------------------
(* An instance of Polling alone, with Durations of a few bits.             *)
EXTENDS Polling
=============================================================================
