--------------------------- MODULE MCServiceAgent ---------------------------
(* A small instance of ServiceAgent.                                       *)
EXTENDS ServiceAgent

CONSTANTS m1, m2, s1, s2

(* Settings are interchangeable: the rows there are have the first ones.   *)
(* So are MACs: the one with a row, or with a link, comes last. What       *)
(* partial failures count for is the same on both systems.                 *)
Rank(m) == (IF want[m] = NoRow THEN 0 ELSE 2) + (IF link[m] = "absent" THEN 0 ELSE 1)
MCInit == /\ Init
          /\ \A m \in Macs : want[m] # s2
          /\ Rank(m1) <= Rank(m2)
          /\ completeOnPartial \/ os = "ubuntu"
MCSpec == MCInit /\ [][Next]_vars /\ WF_vars(Agent)
=============================================================================
