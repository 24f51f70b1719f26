------------------------- MODULE StatusReportProofs -------------------------
(***************************************************************************)
(* Proofs about StatusReport, for every set of MACs, every bound of ids    *)
(* and any number of edits of the spec. The controller sees nothing of the *)
(* agent but its exit code and its message, so the invariant has to say    *)
(* what these two tell of the failures: a Job that failed with a summary   *)
(* has failures in it, and what the controller goes by is the message or   *)
(* nothing.                                                                *)
(***************************************************************************)
EXTENDS StatusReport, SequenceTheorems, TLAPS

(* Before the agent exits nothing has failed and nothing is reported       *)
(* (main.go:245-329).                                                      *)
Untouched ==
  pc \in {"start", "run"} => /\ failures = {} /\ msg = "none" /\ read = "none"
                             /\ job = "active" /\ state = "InProgress"

(* What exit code and message tell: a Job that failed with a summary has   *)
(* failures in it (main.go:245-329), and the controller has read this      *)
(* message if it has read one (reconciler.go:427-459).                     *)
MessageTells ==
  /\ msg = "summary" /\ job = "failed" => failures # {}
  /\ read \in {"none", msg}

ReportInv == TypeOK /\ Untouched /\ MessageTells /\ FailureReported /\ ConfiguredMeansAll

-----------------------------------------------------------------------------
(* The operators of the model                                              *)

(* Dropping an entry of a list, or moving it to the front, leaves a list.  *)
LEMMA EditedIsSeq ==
  ASSUME NEW S, NEW s \in Seq(S), NEW i \in DOMAIN s
  PROVE  /\ SubSeq(s, 1, i - 1) \o SubSeq(s, i + 1, Len(s)) \in Seq(S)
         /\ <<s[i]>> \o SubSeq(s, 1, i - 1) \o SubSeq(s, i + 1, Len(s)) \in Seq(S)
<1>1. /\ Len(s) \in Nat /\ i \in 1 .. Len(s) /\ s[i] \in S
  BY LenProperties, ElementOfSeq
<1>2. SubSeq(s, 1, i - 1) \in Seq(S)
  <2>1. 1 \in 1 .. Len(s) + 1 /\ i - 1 \in (1 - 1) .. Len(s)
    BY <1>1
  <2>2. QED BY <2>1, SubSeqProperties
<1>3. SubSeq(s, i + 1, Len(s)) \in Seq(S)
  <2>1. i + 1 \in 1 .. Len(s) + 1 /\ Len(s) \in (i + 1 - 1) .. Len(s)
    BY <1>1
  <2>2. QED BY <2>1, SubSeqProperties
<1>4. <<s[i]>> \in Seq(S)
  BY <1>1
<1>5. QED BY <1>2, <1>3, <1>4, ConcatProperties

(* Whatever a spec is changed to, it is a list of entries.                 *)
LEMMA EditTyped ==
  ASSUME spec \in Seq(Entry), EditSpec
  PROVE  spec' \in Seq(Entry)
<1>1. PICK i \in DOMAIN spec :
         \/ spec' = SubSeq(spec, 1, i - 1) \o SubSeq(spec, i + 1, Len(spec))
         \/ spec' = <<spec[i]>> \o SubSeq(spec, 1, i - 1) \o SubSeq(spec, i + 1, Len(spec))
         \/ \E id \in 0 .. MaxInterfaces : spec' = [spec EXCEPT ![i].id = id]
  BY DEF EditSpec
<1>2. CASE \/ spec' = SubSeq(spec, 1, i - 1) \o SubSeq(spec, i + 1, Len(spec))
           \/ spec' = <<spec[i]>> \o SubSeq(spec, 1, i - 1) \o SubSeq(spec, i + 1, Len(spec))
  BY <1>2, EditedIsSeq
<1>3. CASE \E id \in 0 .. MaxInterfaces : spec' = [spec EXCEPT ![i].id = id]
  <2>1. PICK id \in 0 .. MaxInterfaces : spec' = [spec EXCEPT ![i].id = id]
    BY <1>3
  <2>2. i \in 1 .. Len(spec) /\ spec[i] \in Entry
    BY LenProperties, ElementOfSeq
  <2>3. [spec[i] EXCEPT !.id = id] \in Entry
    BY <2>2 DEF Entry
  <2>4. QED BY <2>1, <2>2, <2>3
<1>4. QED BY <1>1, <1>2, <1>3

Outcomes == {"Configured", "Failed", "InProgress", "none"}

(* A status written for an entry has the MAC of the entry and its place.   *)
LEMMA EntryStatusTyped ==
  ASSUME spec \in Seq(Entry), NEW i \in DOMAIN spec, NEW st \in Outcomes
  PROVE  EntryStatus(i, st) \in Status
<1>1. i \in Nat /\ spec[i] \in Entry
  BY LenProperties, ElementOfSeq
<1>2. QED BY <1>1 DEF EntryStatus, Entry, Status, Outcomes

LEMMA StatusesTyped ==
  ASSUME TypeOK
  PROVE  /\ \A st \in Outcomes : buildInterfaceStatuses(st) \subseteq Status
         /\ \A x : FailureStatuses(x) \subseteq Status
         /\ \A x : ConfiguredStatuses(x) \subseteq Status
<1> spec \in Seq(Entry)
  BY DEF TypeOK
<1>1. \A st \in Outcomes : buildInterfaceStatuses(st) \subseteq Status
  BY EntryStatusTyped DEF buildInterfaceStatuses
<1>2. ASSUME NEW x PROVE FailureStatuses(x) \subseteq Status
  BY EntryStatusTyped DEF FailureStatuses, Outcomes
<1>3. ASSUME NEW x PROVE ResultStatuses(x) \subseteq Status
  <2>1. DOMAIN spec \subseteq Nat
    BY LenProperties
  <2>2. \A r \in Results(x) : r.mac \in Macs
    BY DEF Results, TypeOK, Interface
  <2>3. ASSUME NEW r \in Results(x)
        PROVE  (IF \E i \in DOMAIN spec : Match(r, i)
                THEN CHOOSE i \in DOMAIN spec : Match(r, i) ELSE 0) \in Nat
    BY <2>1
  <2>4. QED BY <2>2, <2>3 DEF ResultStatuses, Status
<1>4. QED BY <1>1, <1>2, <1>3 DEF ConfiguredStatuses, Outcomes

(* An entry with the MAC of a failure that was read is a failed one.       *)
LEMMA FailureFound ==
  ASSUME NEW x, NEW s \in FailureStatuses(x), NEW f \in Failures(x), s.mac = f.mac
  PROVE  s.status = "Failed"
BY DEF FailureStatuses, EntryStatus, failed

(* What a successful Job without failures is said to have done.            *)
LEMMA ConfiguredOnly ==
  ASSUME NEW x, NEW s \in ConfiguredStatuses(x) PROVE s.status = "Configured"
BY DEF ConfiguredStatuses, ResultStatuses, buildInterfaceStatuses, EntryStatus

(* How an outcome is written: on failures that were read, or without any.  *)
LEMMA Taken ==
  ASSUME ProcessJobs
  PROVE  /\ read' \in {msg, "none"} /\ pc = "exited" /\ job \in {"succeeded", "failed"}
         /\ \/ Failures(read') # {} /\ state' = "Failed" /\ statuses' = FailureStatuses(read')
            \/ /\ Failures(read') = {} /\ job = "succeeded" /\ state' = "Configured"
               /\ \E x : statuses' = ConfiguredStatuses(x)
            \/ /\ Failures(read') = {} /\ job = "failed" /\ state' = "Failed"
               /\ statuses' = buildInterfaceStatuses("Failed")
BY DEF ProcessJobs, JobSucceeded, JobFailed, getJobTerminationMessage
-----------------------------------------------------------------------------
(* One lemma per action                                                    *)

LEMMA LoadAllInv == ASSUME ReportInv, loadAll PROVE ReportInv'
<1>1. loaded' \subseteq Interface
  <2>1. \A i \in DOMAIN spec : spec[i].mac \in Macs
    <3>1. spec \in Seq(Entry)
      BY DEF ReportInv, TypeOK
    <3>2. \A i \in DOMAIN spec : spec[i] \in Entry
      BY <3>1, ElementOfSeq, LenProperties
    <3>3. QED BY <3>2 DEF Entry
  <2>2. \A i \in DOMAIN spec : NewNetworkInterface(i) => interfaceID(i) \in 0 .. MaxInterfaces - 1
    BY DEF NewNetworkInterface, NewInterfaceIndex
  <2>3. QED BY <2>1, <2>2 DEF loadAll, Interface
<1>2. failures = {}
  BY DEF ReportInv, Untouched, loadAll
<1>3. TypeOK'
  BY <1>1, <1>2 DEF ReportInv, TypeOK, loadAll, statusVars
<1>4. QED
  BY <1>2, <1>3 DEF ReportInv, Untouched, MessageTells, FailureReported, ConfiguredMeansAll, loadAll,
                    statusVars

LEMMA LoadErrorInv == ASSUME ReportInv, loadError PROVE ReportInv'
<1>1. TypeOK'
  BY DEF ReportInv, TypeOK, loadError, statusVars
<1>2. QED
  BY <1>1 DEF ReportInv, Untouched, MessageTells, FailureReported, ConfiguredMeansAll, loadError,
              statusVars

LEMMA ProcessInv == ASSUME ReportInv, processNetworkConfigurations PROVE ReportInv'
<1>1. PICK f \in SUBSET loaded : failures' = f /\ job' \in JobResults(f)
  BY DEF processNetworkConfigurations
<1>2. /\ job' \in {"succeeded", "failed"}
      /\ job' = "failed" => f # {}
  BY <1>1 DEF JobResults
<1>3. TypeOK'
  BY <1>1, <1>2 DEF ReportInv, TypeOK, processNetworkConfigurations, statusVars
<1>4. MessageTells' /\ read' = "none"
  BY <1>1, <1>2 DEF ReportInv, Untouched, MessageTells, processNetworkConfigurations, statusVars
<1>5. QED
  BY <1>3, <1>4 DEF ReportInv, Untouched, FailureReported, ConfiguredMeansAll,
                    processNetworkConfigurations

LEMMA ProcessJobsInv == ASSUME ReportInv, ProcessJobs PROVE ReportInv'
<1>1. UNCHANGED <<spec, edits, observed, pc, loaded, failures, job, msg>>
  BY DEF ProcessJobs, agentVars
<1>2. TypeOK'
  <2>1. state' \in {"Configured", "Failed"} /\ statuses' \subseteq Status
    BY StatusesTyped, Taken DEF ReportInv, Outcomes
  <2>2. read' \in {"none", "summary", "cut"}
    BY Taken DEF ReportInv, TypeOK
  <2>3. QED BY <1>1, <2>1, <2>2 DEF ReportInv, TypeOK
<1>3. read' = "summary" => Failures(read') = failures
  BY DEF Failures
<1>4. ASSUME read' = "summary", NEW s \in statuses', NEW f \in failures, s.mac = f.mac
      PROVE  s.status # "Configured"
  <2>1. statuses' = FailureStatuses(read') /\ f \in Failures(read')
    BY <1>3, <1>4, Taken
  <2>2. s.status = "Failed"
    BY <1>4, <2>1, FailureFound
  <2>3. QED BY <2>2
<1>5. FailureReported'
  BY <1>1, <1>4 DEF FailureReported
<1>6. ConfiguredMeansAll'
  BY <1>1, <1>3, Taken DEF ConfiguredMeansAll
<1>7. Untouched' /\ MessageTells'
  BY <1>1, Taken DEF ReportInv, Untouched, MessageTells
<1>8. QED BY <1>2, <1>5, <1>6, <1>7 DEF ReportInv

LEMMA DeleteJobInv == ASSUME ReportInv, deleteJob PROVE ReportInv'
<1>1. TypeOK'
  BY DEF ReportInv, TypeOK, deleteJob, agentVars, statusVars
<1>2. QED
  BY <1>1 DEF ReportInv, Untouched, MessageTells, FailureReported, ConfiguredMeansAll,
              deleteJob, agentVars, statusVars

LEMMA ReconcileInv == ASSUME ReportInv, Reconcile PROVE ReportInv'
<1>1. statuses' \subseteq Status /\ \A s \in statuses' : s.status = "InProgress"
  <2>1. statuses' = buildInterfaceStatuses("InProgress")
    BY DEF Reconcile
  <2>2. \A s \in buildInterfaceStatuses("InProgress") : s.status = "InProgress"
    BY DEF buildInterfaceStatuses, EntryStatus
  <2>3. QED BY <2>1, <2>2, StatusesTyped DEF ReportInv, Outcomes
<1>2. TypeOK'
  BY <1>1 DEF ReportInv, TypeOK, Reconcile, agentVars
<1>3. QED
  BY <1>1, <1>2 DEF ReportInv, Untouched, MessageTells, FailureReported, ConfiguredMeansAll,
                    Reconcile, agentVars

LEMMA UpdateStatesInv == ASSUME ReportInv, updateInterfaceStates PROVE ReportInv'
<1>1. PICK actual \in {"Configured", "Unknown", "NodeNotReady"} :
        statuses' = {[EntryStatus(i, "none") EXCEPT !.actual = actual] : i \in DOMAIN spec}
  BY DEF updateInterfaceStates
<1>2. ASSUME NEW i \in DOMAIN spec
      PROVE  /\ [EntryStatus(i, "none") EXCEPT !.actual = actual] \in Status
             /\ [EntryStatus(i, "none") EXCEPT !.actual = actual].status = "none"
  <2>1. EntryStatus(i, "none") \in Status /\ EntryStatus(i, "none").status = "none"
    BY EntryStatusTyped DEF ReportInv, TypeOK, EntryStatus, Outcomes
  <2>2. QED BY <2>1 DEF Status
<1>3. statuses' \subseteq Status /\ \A s \in statuses' : s.status = "none"
  BY <1>1, <1>2
<1>4. TypeOK'
  BY <1>3 DEF ReportInv, TypeOK, updateInterfaceStates, agentVars
<1>5. QED
  BY <1>3, <1>4 DEF ReportInv, Untouched, MessageTells, FailureReported, ConfiguredMeansAll,
                    updateInterfaceStates, agentVars

LEMMA EditSpecInv == ASSUME ReportInv, EditSpec PROVE ReportInv'
<1>1. TypeOK'
  <2>1. spec' \in Seq(Entry)
    BY EditTyped DEF ReportInv, TypeOK
  <2>2. edits' \in 0 .. MaxEdits
    <3>1. edits < MaxEdits /\ edits' = edits + 1 /\ edits \in 0 .. MaxEdits
      BY DEF ReportInv, TypeOK, EditSpec
    <3>2. QED BY <3>1, StatusAssumption
  <2>3. QED BY <2>1, <2>2 DEF ReportInv, TypeOK, EditSpec, agentVars, statusVars
<1>2. QED
  BY <1>1 DEF ReportInv, Untouched, MessageTells, FailureReported, ConfiguredMeansAll,
              EditSpec, agentVars, statusVars
-----------------------------------------------------------------------------
(* The theorems                                                            *)

LEMMA ReportInitially == Init => ReportInv
<1> SUFFICES ASSUME Init PROVE ReportInv
  OBVIOUS
<1>1. spec \in Seq(Entry)
  <2>1. PICK n \in 1 .. Cardinality(Macs) : spec \in [1 .. n -> Entry]
    BY DEF Init, Specs
  <2>2. n \in Nat
    BY <2>1
  <2>3. QED BY <2>1, <2>2, SeqDef
<1>2. TypeOK
  BY <1>1, StatusAssumption DEF Init, TypeOK
<1>3. QED
  BY <1>2 DEF Init, ReportInv, Untouched, MessageTells, FailureReported, ConfiguredMeansAll

LEMMA ReportStep == ReportInv /\ [Next]_vars => ReportInv'
<1> SUFFICES ASSUME ReportInv, [Next]_vars PROVE ReportInv'
  OBVIOUS
<1>1. CASE UNCHANGED vars
  <2>1. TypeOK'
    BY <1>1 DEF ReportInv, TypeOK, vars
  <2>2. QED
    BY <1>1, <2>1 DEF ReportInv, Untouched, MessageTells, FailureReported, ConfiguredMeansAll, vars
<1>2. QED
  BY <1>1, LoadAllInv, LoadErrorInv, ProcessInv, ProcessJobsInv, DeleteJobInv, ReconcileInv,
     UpdateStatesInv, EditSpecInv
  DEF Next

(* The inductive invariant holds in every state of every behaviour.        *)
LEMMA ReportAlways == Spec => []ReportInv
BY ReportInitially, ReportStep, PTL DEF Spec

(* Every variable keeps its type; in particular the agent only has         *)
(* interfaces whose ids a name can have, whatever names and ids the        *)
(* entries of the spec have (network_interface.go:28-130).                 *)
THEOREM StatusTypeCorrect == Spec => []TypeOK
<1>1. ReportInv => TypeOK
  BY DEF ReportInv
<1>2. QED BY <1>1, ReportAlways, PTL

(* No failure in a summary that the controller has read is reported as     *)
(* configured, however the spec was changed between the agent's reading of *)
(* it and the controller's, and however often the Job is taken             *)
(* (reconciler.go:208-262,351-397).                                        *)
THEOREM FailuresAreReported == Spec => []FailureReported
<1>1. ReportInv => FailureReported
  BY DEF ReportInv
<1>2. QED BY <1>1, ReportAlways, PTL

(* A CR never says Configured on a summary with failures in it, whatever   *)
(* the exit code of the Job (main.go:254-272, reconciler.go:205-324).      *)
THEOREM ConfiguredIsComplete == Spec => []ConfiguredMeansAll
<1>1. ReportInv => ConfiguredMeansAll
  BY DEF ReportInv
<1>2. QED BY <1>1, ReportAlways, PTL

(* When the controller writes the outcome of a Job by its summary and no   *)
(* id of the spec denotes an interface with another MAC, an entry is       *)
(* reported as failed exactly if its interface has failed, each time       *)
(* (reconciler.go:218-235).                                                *)
THEOREM OutcomesAreMatched == Spec => OutcomesMatch
<1> DEFINE Matched ==
      ProcessJobs /\ read' = "summary" /\ loaded # {} /\ UniqueIds =>
        \A s \in statuses' : s.status = "Failed" <=> \E f \in failures : f.mac = s.mac
<1>1. ASSUME ReportInv PROVE Matched
  <2> SUFFICES ASSUME ProcessJobs, read' = "summary", UniqueIds, NEW s \in statuses'
               PROVE  s.status = "Failed" <=> \E f \in failures : f.mac = s.mac
    OBVIOUS
  <2>1. Failures(read') = failures
    BY DEF Failures
  <2>2. CASE failures = {}
    <3>1. job # "failed"
      BY <1>1, <2>2, Taken DEF ReportInv, MessageTells
    <3>2. \E x : statuses' = ConfiguredStatuses(x)
      BY <2>1, <2>2, <3>1, Taken
    <3>3. s.status = "Configured"
      BY <3>2, ConfiguredOnly
    <3>4. QED BY <2>2, <3>3
  <2>3. CASE failures # {}
    <3>1. statuses' = FailureStatuses(read')
      BY <2>1, <2>3, Taken
    <3>2. PICK i \in DOMAIN spec :
            s = EntryStatus(i, IF failed(i, read') THEN "Failed" ELSE "Configured")
      BY <3>1 DEF FailureStatuses
    <3>3. s.mac = spec[i].mac /\ (s.status = "Failed" <=> failed(i, read'))
      BY <3>2 DEF EntryStatus
    <3>4. failed(i, read') <=> \E f \in failures : f.mac = spec[i].mac
      <4>1. ASSUME NEW f \in failures, spec[i].id # 0, f.id = spec[i].id
            PROVE  f.mac = spec[i].mac
        BY <1>1, <4>1 DEF UniqueIds, ReportInv, TypeOK
      <4>2. QED BY <2>1, <4>1 DEF failed
    <3>5. QED BY <3>3, <3>4
  <2>4. QED BY <2>2, <2>3
<1>2. ASSUME ReportInv, [Next]_vars PROVE [Matched]_vars
  BY <1>1, <1>2
<1>3. QED BY <1>2, ReportAlways, PTL DEF Spec, OutcomesMatch
=============================================================================
