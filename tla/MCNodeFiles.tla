----------------------------- MODULE MCNodeFiles ----------------------------
(* Small instances of NodeFiles: MAC addresses and agents are              *)
(* interchangeable.                                                        *)
EXTENDS NodeFiles, TLC

Symmetry == Permutations(Macs) \cup Permutations(Agents)

(* Nothing in the spec, on the node or in an agent is about m.             *)
Unused(m) ==
  /\ spec[m] = 0 /\ links[m] = Absent
  /\ \A n \in Names : files[n] \in Config => files[n].mac # m
  /\ \A a \in Agents : ag[a].view[m] = 0 /\ m \notin ag[a].active

(* How many interfaces and changes come together: three interfaces, one   *)
(* more than there are names, without a change; two interfaces, with       *)
(* MaxEdits changes on Ubuntu and one elsewhere.                           *)
Small == edits = 0 \/ \E m \in Macs : Unused(m) /\ (os = "ubuntu" \/ edits <= 1)

(* Nothing fails, and nobody cleans up.                                    *)
Smooth ==
  \A a \in Agents :
    /\ ag[a].mode = "apply" /\ ag[a].scan = "ok" /\ ag[a].left = {}
    /\ \A m \in Macs : ag[a].phase[m] \notin {"undo", "failed"}
=============================================================================
