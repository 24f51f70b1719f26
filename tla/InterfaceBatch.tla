--------------------------- MODULE InterfaceBatch ---------------------------
(***************************************************************************)
(* What one call of ConfigureNetworkUseCase.Execute promises its caller,   *)
(* without workers, queues or retries: every interface of the node is      *)
(* settled exactly once, as a result or as a failure, and the call returns *)
(* only when all of them are.                                              *)
(***************************************************************************)
CONSTANT Ifaces     \* the interfaces of the node, as read from the repository

VARIABLES outcome,  \* outcome[i]: what the report says of interface i so far
          returned, \* Execute has returned
          cancelled \* the context of the call is cancelled

batchVars == <<outcome, returned>>

BatchInit ==
  /\ outcome = [i \in Ifaces |-> "pending"]
  /\ returned = FALSE

(* One interface reaches its final outcome. *)
Settle(i) ==
  /\ ~returned
  /\ outcome[i] = "pending"
  /\ outcome' \in {[outcome EXCEPT ![i] = o] : o \in {"configured", "failed"}}
  /\ UNCHANGED returned

(* The report is handed to the caller. *)
Report ==
  /\ ~returned
  /\ \A i \in Ifaces : outcome[i] # "pending"
  /\ returned' = TRUE
  /\ UNCHANGED outcome

(* The operating system or the repository could not be read: no interface  *)
(* is touched and the call returns an error.                               *)
Abort ==
  /\ ~returned
  /\ \A i \in Ifaces : outcome[i] = "pending"
  /\ returned' = TRUE
  /\ UNCHANGED outcome

BatchNext == Report \/ Abort \/ \E i \in Ifaces : Settle(i)

BatchSafety == BatchInit /\ [][BatchNext]_batchVars

(* A call comes to its end only as long as its context is not cancelled.   *)
BatchSpec == BatchSafety /\ WF_batchVars(~cancelled /\ BatchNext)
=============================================================================
