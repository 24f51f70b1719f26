---------------------------- MODULE StatusReport ----------------------------
(***************************************************************************)
(* How the outcome of an interface gets into the status of its CR. The     *)
(* agent turns the entries of the spec into interfaces with ids of their   *)
(* own and leaves out those it cannot accept; it reports failures and      *)
(* results by id and MAC in the termination message of its pod; and the    *)
(* controller matches them with the entries of the spec as it is by then.  *)
(*                                                                         *)
(*   src/internal/infrastructure/persistence/nodecr_repository.go:83-126   *)
(*   src/internal/domain/entities/network_interface.go, value_objects.go   *)
(*   src/cmd/agent/main.go:245-329                                         *)
(*   src/internal/controller/reconciler.go:45-131,170-459,715-919          *)
(*                                                                         *)
(* NodeController has the Jobs and the goroutines; here are one Job, of    *)
(* the first spec, and what is written to the status until it is deleted:  *)
(* at once, or JobDeleteDelaySeconds after it was processed. The spec may  *)
(* change at any time. Every entry has a MAC of its own.                   *)
(***************************************************************************)
EXTENDS Naturals, Sequences, FiniteSets

CONSTANTS Macs,           \* MAC addresses of entries
          MaxInterfaces,  \* names and ids are below this: 10 in the code
          MaxEdits,       \* bound: changes of the spec
          NoName          \* the entry does not name its interface

ASSUME StatusAssumption ==
  /\ MaxInterfaces \in Nat \ {0} /\ MaxEdits \in Nat
  /\ NoName \notin 0 .. MaxInterfaces

(* id 0: none is given. values: are address, CIDR and MTU there, and       *)
(* acceptable?                                                             *)
Entry == [mac : Macs, id : 0 .. MaxInterfaces, name : (0 .. MaxInterfaces) \cup {NoName},
          values : {"good", "bad"}]
Specs == {s \in UNION {[1 .. n -> Entry] : n \in 1 .. Cardinality(Macs)} :
            \A i, k \in DOMAIN s : s[i].mac = s[k].mac => i = k}

VARIABLES
  spec,      \* spec.interfaces
  edits,
  observed,  \* the edits that status.observedGeneration stands for
  pc,        \* "start", "run", "exited"; "gone" when the Job is deleted
  loaded,    \* interfaces of the agent: [id, mac]
  failures,  \* those that failed
  job,       \* status of the Job: "active", "succeeded", "failed"
  msg,       \* termination message: "none", "summary", "cut" when too long
  read,      \* the message the controller last went by
  state,     \* status.state
  statuses   \* status.interfaceStatuses: [mac, status, actual, index], index 0: none

vars == <<spec, edits, observed, pc, loaded, failures, job, msg, read, state, statuses>>
agentVars == <<loaded, failures, job, msg>>
statusVars == <<observed, read, state, statuses>>

Init ==
  /\ spec \in Specs
  /\ edits = 0 /\ observed = 0
  /\ pc = "start"
  /\ loaded = {} /\ failures = {}
  /\ job = "active" /\ msg = "none" /\ read = "none"
  /\ state = "InProgress"
  /\ statuses = {}
-----------------------------------------------------------------------------
(* The agent                                                               *)

NewInterfaceName(n) == n \in 0 .. MaxInterfaces - 1

(* Mutated form: the bound is taken for the largest index.                 *)
NewInterfaceIndexTo(id) == id \in 0 .. MaxInterfaces

NewInterfaceIndex(id) == id \in 0 .. MaxInterfaces - 1

(* The name decides; without name and id it is the place in the list.      *)
interfaceID(i) ==
  CASE NewInterfaceName(spec[i].name) -> spec[i].name
    [] spec[i].name = NoName /\ spec[i].id = 0 -> i
    [] OTHER -> spec[i].id

NewNetworkInterface(i) ==
  /\ NewInterfaceIndex(interfaceID(i))
  /\ spec[i].name = NoName \/ NewInterfaceName(spec[i].name)
  /\ spec[i].values = "good"

(* An entry that is not accepted is skipped with a warning.                *)
loadAll ==
  /\ pc = "start"
  /\ pc' = "run"
  /\ loaded' = {[id |-> interfaceID(i), mac |-> spec[i].mac] :
                  i \in {k \in DOMAIN spec : NewNetworkInterface(k)}}
  /\ UNCHANGED <<spec, edits, failures, job, msg, statusVars>>

(* The spec cannot be read, or the agent is killed: there is no summary.   *)
loadError ==
  /\ pc \in {"start", "run"}
  /\ pc' = "exited"
  /\ job' = "failed"
  /\ UNCHANGED <<spec, edits, loaded, failures, msg, statusVars>>

(* A Job fails when every interface does. When only some do it succeeds,   *)
(* unless JOB_COMPLETE_ON_PARTIAL_FAILURE says otherwise.                  *)
JobResults(f) ==
  CASE f = {} -> {"succeeded"}
    [] f # {} /\ f = loaded -> {"failed"}
    [] OTHER -> {"succeeded", "failed"}

(* Interfaces are configured or fail, and are reported if there are any;   *)
(* an error of the write is ignored. A message of more than 4096 bytes is  *)
(* cut by Kubernetes.                                                      *)
processNetworkConfigurations ==
  /\ pc = "run"
  /\ pc' = "exited"
  /\ \E f \in SUBSET loaded :
       /\ failures' = f
       /\ job' \in JobResults(f)
  /\ msg' \in IF loaded = {} THEN {"none", "summary"} ELSE {"none", "summary", "cut"}
  /\ UNCHANGED <<spec, edits, loaded, statusVars>>
-----------------------------------------------------------------------------
(* The controller                                                          *)

(* Nothing is read when the pods cannot be listed, or are gone.            *)
getJobTerminationMessage == {msg, "none"}

(* What message x tells; one that is cut is no JSON.                       *)
Failures(x) == IF x = "summary" THEN failures ELSE {}
Results(x) == IF x = "summary" THEN loaded \ failures ELSE {}

(* Mutated form: failures are matched by id only.                          *)
failedById(i, x) == \E f \in Failures(x) : spec[i].id # 0 /\ f.id = spec[i].id

(* Mutated form: an entry without an id matches the interface with id 0.   *)
failedAnyId(i, x) == \E f \in Failures(x) : f.id = spec[i].id \/ f.mac = spec[i].mac

(* failByID and failByMAC.                                                 *)
failed(i, x) ==
  \E f \in Failures(x) : (spec[i].id # 0 /\ f.id = spec[i].id) \/ f.mac = spec[i].mac

EntryStatus(i, st) == [mac |-> spec[i].mac, status |-> st, actual |-> "none", index |-> i]

buildInterfaceStatuses(st) == {EntryStatus(i, st) : i \in DOMAIN spec}

(* Entries that no failure matches are said to be configured.              *)
FailureStatuses(x) ==
  {EntryStatus(i, IF failed(i, x) THEN "Failed" ELSE "Configured") : i \in DOMAIN spec}

(* The first entry with the id or the MAC of a result.                     *)
Match(r, i) == /\ spec[i].id = r.id \/ spec[i].mac = r.mac
               /\ \A k \in DOMAIN spec : k < i => spec[k].id # r.id /\ spec[k].mac # r.mac

(* A result takes its address, CIDR, MTU and index from that entry.        *)
ResultStatuses(x) ==
  {[mac |-> r.mac, status |-> "Configured", actual |-> "none",
    index |-> IF \E i \in DOMAIN spec : Match(r, i)
              THEN CHOOSE i \in DOMAIN spec : Match(r, i) ELSE 0] : r \in Results(x)}

ConfiguredStatuses(x) ==
  IF Results(x) # {} THEN ResultStatuses(x) ELSE buildInterfaceStatuses("Configured")

(* Mutated form: the exit code decides, and failures are only logged.      *)
JobSucceededPlain ==
  /\ job = "succeeded" /\ state # "Configured"
  /\ read' \in getJobTerminationMessage
  /\ state' = "Configured"
  /\ statuses' = ConfiguredStatuses(read')

(* Results are read for themselves, after there were no failures.          *)
JobSucceeded ==
  /\ job = "succeeded" /\ state # "Configured"
  /\ read' \in getJobTerminationMessage
  /\ IF Failures(read') # {}
     THEN state' = "Failed" /\ statuses' = FailureStatuses(read')
     ELSE /\ state' = "Configured"
          /\ \E x \in getJobTerminationMessage : statuses' = ConfiguredStatuses(x)

JobFailed ==
  /\ job = "failed" /\ state # "Failed"
  /\ read' \in getJobTerminationMessage
  /\ state' = "Failed"
  /\ statuses' = IF Failures(read') # {} THEN FailureStatuses(read')
                 ELSE buildInterfaceStatuses("Failed")

(* A finished Job is taken in every pass, as long as it is there and the   *)
(* CR does not have the state of its exit code: one that succeeds with     *)
(* failures is taken again and again.                                      *)
ProcessJobs ==
  /\ pc = "exited"
  /\ JobSucceeded \/ JobFailed
  /\ UNCHANGED <<spec, edits, observed, pc, agentVars>>

(* The Job is deleted, after it was processed or because it is an old one. *)
deleteJob ==
  /\ pc = "exited"
  /\ pc' = "gone"
  /\ UNCHANGED <<spec, edits, agentVars, statusVars>>

(* A spec that is new, or not settled.                                     *)
Reconcile ==
  /\ state = "InProgress" \/ observed # edits
  /\ observed' = edits
  /\ state' = "InProgress"
  /\ statuses' = buildInterfaceStatuses("InProgress")
  /\ UNCHANGED <<spec, edits, pc, agentVars, read>>

(* Every pass writes what it takes for the state of the interfaces in      *)
(* place of the outcome: the same for all of them, by conditions and       *)
(* addresses of the node.                                                  *)
updateInterfaceStates ==
  /\ \E actual \in {"Configured", "Unknown", "NodeNotReady"} :
       statuses' = {[EntryStatus(i, "none") EXCEPT !.actual = actual] : i \in DOMAIN spec}
  /\ UNCHANGED <<spec, edits, observed, pc, agentVars, read, state>>

(* The user of the CR drops an entry, puts another one first, or gives     *)
(* one an id.                                                              *)
EditSpec ==
  /\ edits < MaxEdits
  /\ edits' = edits + 1
  /\ \E i \in DOMAIN spec :
       \/ /\ Len(spec) > 1
          /\ spec' = SubSeq(spec, 1, i - 1) \o SubSeq(spec, i + 1, Len(spec))
       \/ spec' = <<spec[i]>> \o SubSeq(spec, 1, i - 1) \o SubSeq(spec, i + 1, Len(spec))
       \/ \E id \in 0 .. MaxInterfaces : spec' = [spec EXCEPT ![i].id = id]
  /\ UNCHANGED <<pc, agentVars, statusVars>>
-----------------------------------------------------------------------------
Next == \/ loadAll \/ loadError \/ processNetworkConfigurations
        \/ ProcessJobs \/ deleteJob \/ Reconcile \/ updateInterfaceStates
        \/ EditSpec

Spec == Init /\ [][Next]_vars
-----------------------------------------------------------------------------
(* Properties                                                              *)

Interface == [id : 0 .. MaxInterfaces - 1, mac : Macs]
Status == [mac : Macs, status : {"Configured", "Failed", "InProgress", "none"},
           actual : {"Configured", "Unknown", "NodeNotReady", "none"}, index : Nat]

(* Type invariant. The agent only has interfaces with the ids that a name  *)
(* can have: network_interface.go:28-130, value_objects.go.                *)
TypeOK ==
  /\ spec \in Seq(Entry) /\ edits \in 0 .. MaxEdits /\ observed \in 0 .. MaxEdits
  /\ pc \in {"start", "run", "exited", "gone"}
  /\ loaded \subseteq Interface /\ failures \subseteq loaded
  /\ job \in {"active", "succeeded", "failed"}
  /\ msg \in {"none", "summary", "cut"} /\ read \in {"none", "summary", "cut"}
  /\ state \in {"InProgress", "Configured", "Failed"}
  /\ statuses \subseteq Status

(* No failure the controller has read is lost on its way to the outcome of *)
(* an entry: after a summary was read, "status" of an entry whose          *)
(* interface failed does not say Configured, whatever its id, its name and *)
(* its place in the list, and however the spec was changed since           *)
(* (reconciler.go:208-262,351-397). It says nothing about "actualState",   *)
(* which is Configured for such an entry too when its node is ready        *)
(* (reconciler.go:878-908), nor about an outcome without a summary.        *)
FailureReported ==
  read = "summary" =>
    \A s \in statuses, f \in failures : s.mac = f.mac => s.status # "Configured"

(* A CR does not say Configured on a summary with failures in it: the exit *)
(* code alone does not tell, because a Job with failures may succeed       *)
(* (main.go:254-272, reconciler.go:205-324). It may when the summary is    *)
(* cut, was not written, or cannot be read any more: the Job is then taken *)
(* by its exit code, also when it had been found to have failures.         *)
ConfiguredMeansAll ==
  state = "Configured" /\ read = "summary" => failures = {}

(* Ids of the spec and ids of the agent denote the same interfaces.        *)
UniqueIds ==
  \A i \in DOMAIN spec, n \in loaded :
    spec[i].id # 0 /\ spec[i].id = n.id => spec[i].mac = n.mac

(* Only what failed is reported as failed: when the summary is read and    *)
(* ids are not ambiguous, the outcome of an entry is Failed exactly if its *)
(* interface failed, after changes of the spec and when the Job is taken   *)
(* again too. Entries without an id are not taken for the interface with   *)
(* id 0 (reconciler.go:218-235).                                           *)
OutcomesMatch ==
  [][ProcessJobs /\ read' = "summary" /\ loaded # {} /\ UniqueIds =>
       \A s \in statuses' : s.status = "Failed" <=> \E f \in failures : f.mac = s.mac]_vars
=============================================================================
