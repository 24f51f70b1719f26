------------------------ MODULE NodeControllerProofs ------------------------
(***************************************************************************)
(* Proofs about NodeController for any number of generations, CRs, restarts *)
(* and failing API calls, in both modes.                                   *)
(***************************************************************************)
EXTENDS NodeController, TLAPS

Events == {"changed", "deleted"}

(* What counts the disturbances is of its type; each step leaves it, or    *)
(* counts one more.                                                        *)
CountsOK == /\ deletion \in Deletions
            /\ restarts \in Nat /\ errors \in Nat /\ restarts + errors <= MaxFaults
            /\ mapped \in BOOLEAN
Counted == \/ errors' = errors /\ mapped' = mapped
           \/ errors' = errors + 1

USE DEF CountsOK, Counted

(* A notification is added at the end, or is there already.                *)
LEMMA NotifyFacts ==
  ASSUME NEW e \in Events, crEvents \in Seq(Events), Notify(e)
  PROVE  /\ crEvents' \in Seq(Events)
         /\ Mode # "poll" => \E i \in DOMAIN crEvents' : crEvents'[i] = e
<1>1. CASE Mode = "poll"
  BY <1>1 DEF Notify
<1>2. CASE Mode # "poll" /\ crEvents # << >> /\ crEvents[Len(crEvents)] = e
  <2>1. crEvents' = crEvents
    BY <1>2 DEF Notify
  <2>2. Len(crEvents) \in DOMAIN crEvents
    BY <1>2
  <2> QED BY <1>2, <2>1, <2>2
<1>3. CASE Mode # "poll" /\ ~(crEvents # << >> /\ crEvents[Len(crEvents)] = e)
  <2>1. crEvents' = Append(crEvents, e)
    BY <1>3 DEF Notify
  <2>2. Len(crEvents) + 1 \in DOMAIN Append(crEvents, e)
    OBVIOUS
  <2>3. Append(crEvents, e)[Len(crEvents) + 1] = e /\ Append(crEvents, e) \in Seq(Events)
    OBVIOUS
  <2> QED BY <2>1, <2>2, <2>3
<1> QED BY <1>1, <1>2, <1>3

(* The handler takes the first notification and leaves the others.         *)
LEMMA TakeFacts ==
  ASSUME crEvents \in Seq(Events), crEvents # << >>
  PROVE  /\ Tail(crEvents) \in Seq(Events)
         /\ \A i \in DOMAIN crEvents :
              crEvents[i] # Head(crEvents)
                => \E k \in DOMAIN Tail(crEvents) : Tail(crEvents)[k] = crEvents[i]
<1>1. /\ Tail(crEvents) \in Seq(Events)
      /\ Head(crEvents) = crEvents[1]
      /\ Len(crEvents) \in Nat
      /\ DOMAIN crEvents = 1 .. Len(crEvents)
      /\ DOMAIN Tail(crEvents) = 1 .. Len(crEvents) - 1
      /\ \A k \in 1 .. Len(crEvents) - 1 : Tail(crEvents)[k] = crEvents[k + 1]
  OBVIOUS
<1>2. ASSUME NEW i \in DOMAIN crEvents, crEvents[i] # Head(crEvents)
      PROVE  \E k \in DOMAIN Tail(crEvents) : Tail(crEvents)[k] = crEvents[i]
  <2>1. i - 1 \in 1 .. Len(crEvents) - 1 /\ (i - 1) + 1 = i
    BY <1>1, <1>2
  <2> QED BY <1>1, <2>1
<1> QED BY <1>1, <1>2

(* A step that leaves the CR and its notifications alone keeps the facts   *)
(* about copies, unless an actor comes to "write" or "record" by it.       *)
LEMMA CopiesKept ==
  ASSUME FreshInv, ObservedInv, cr' = cr, fresh' \subseteq fresh,
         \A a \in Actors : pc'[a] \in {"write", "record"} => pc'[a] = pc[a] /\ job'[a] = job[a]
  PROVE  FreshInv' /\ ObservedInv'
  BY DEF FreshInv, ObservedInv, NeedsJob, Final

(* It keeps the notice unless the handler of the CR moves on by it.        *)
LEMMA NoticeKept ==
  ASSUME NoticeInv, TypeOK, cr' = cr, crEvents' = crEvents,
         Counted,
         errors' = errors => \/ pc["C"] \notin {"get", "write"}
                             \/ pc'["C"] = pc["C"] /\ ("C" \in fresh => "C" \in fresh')
  PROVE  NoticeInv'
<1> SUFFICES ASSUME Mode = "watch", errors' = 0, mapped', cr.uid # 0, cr.obs # cr.gen
             PROVE  Noticed'
  BY DEF NoticeInv
<1>1. errors' # errors + 1
  BY DEF TypeOK
<1>2. errors' = errors /\ mapped' = mapped
  BY <1>1, Zenon
<1>3. errors = 0
  BY <1>2
<1>4. mapped
  BY <1>2, Zenon
<1> QED BY <1>2, <1>3, <1>4 DEF NoticeInv, Noticed

(* A write of the CR by anyone makes all copies outdated, and notifies.    *)
LEMMA StoreKeeps ==
  ASSUME ControllerInv, NEW c \in CRs, c.obs <= c.gen, StoreCR(c),
         \A a \in Actors : pc'[a] = "record" => job'[a].result \in {"Configured", "Failed"}
  PROVE  /\ cr' \in CRs /\ crEvents' \in Seq(Events) /\ fresh' = {}
         /\ FreshInv' /\ ObservedInv' /\ NoticeInv'
<1> USE ControllerAssumption
<1>1. FreshInv' /\ ObservedInv' /\ fresh' = {} /\ cr' = c
  BY DEF StoreCR, FreshInv, ObservedInv
<1>2. crEvents \in Seq(Events)
  BY DEF ControllerInv, TypeOK, Events
<1>3. crEvents' \in Seq(Events)
  <2>1. CASE c.uid = 0
    BY <1>2, <2>1, NotifyFacts DEF StoreCR, Events
  <2>2. CASE c.uid # 0
    BY <1>2, <2>2, NotifyFacts DEF StoreCR, Events
  <2> QED BY <2>1, <2>2
<1>4. NoticeInv'
  <2> SUFFICES ASSUME Mode = "watch", c.uid # 0 PROVE Noticed'
    BY <1>1 DEF NoticeInv
  <2>1. Notify("changed")
    BY DEF StoreCR
  <2> QED BY <1>2, <2>1, NotifyFacts DEF Events, Noticed
<1> QED BY <1>1, <1>3, <1>4

(* A failing call is counted, and stays within the bound.                  *)
LEMMA ErrorCounted ==
  ASSUME TypeOK, ApiError
  PROVE  /\ errors' = errors + 1 /\ errors' # 0
         /\ CountsOK'
  BY ControllerAssumption DEF TypeOK, ApiError

(* So is every step in which at most a call fails.                         *)
LEMMA CountsKept ==
  ASSUME TypeOK, UNCHANGED counts \/ ApiError
  PROVE  CountsOK' /\ Counted
<1>1. CASE UNCHANGED counts
  BY <1>1 DEF TypeOK, counts
<1>2. CASE ApiError
  BY <1>2, ErrorCounted
<1> QED BY <1>1, <1>2

(* A status write, accepted or not, keeps the invariant when an accepted   *)
(* one writes a generation the user has written, and one that is not       *)
(* accepted is not that of the handler, or has nothing to say.             *)
LEMMA StatusWriteKeeps ==
  ASSUME ControllerInv, NEW a \in Actors, NEW st \in States, NEW obs \in 0 .. MaxGen,
         updateCRStatus(a, st, obs),
         a \in fresh => obs <= cr.gen,
         \A b \in Actors : pc'[b] \in {"write", "record"} => pc'[b] = pc[b] /\ job'[b] = job[b],
         a = "C" => pc["C"] = "write" /\ ("C" \in fresh => obs = cr.gen),
         a # "C" => pc'["C"] = pc["C"]
  PROVE  /\ cr' \in CRs /\ crEvents' \in Seq(Events) /\ fresh' \subseteq Actors
         /\ CountsOK'
         /\ FreshInv' /\ ObservedInv' /\ NoticeInv'
<1> DEFINE new == [cr EXCEPT !.st = st, !.obs = obs]
<1> USE ControllerAssumption
<1>a. TypeOK /\ FreshInv /\ ObservedInv /\ NoticeInv
  BY DEF ControllerInv
<1>b. new \in CRs /\ new.obs = obs /\ new.gen = cr.gen /\ new.uid = cr.uid
  BY <1>a DEF TypeOK, CRs
<1>1. CASE a \in fresh /\ StoreCR(new) /\ UNCHANGED counts
  <2>1. \A b \in Actors : pc'[b] = "record" => job'[b].result \in {"Configured", "Failed"}
    BY <1>a DEF FreshInv
  <2>2. new.obs <= new.gen
    BY <1>b, <1>1
  <2> HIDE DEF new
  <2>3. /\ cr' \in CRs /\ crEvents' \in Seq(Events) /\ fresh' = {}
        /\ FreshInv' /\ ObservedInv' /\ NoticeInv'
    BY <1>b, <1>1, <2>1, <2>2, StoreKeeps
  <2>4. CountsOK'
    BY <1>a, <1>1 DEF TypeOK, counts
  <2> QED BY <2>3, <2>4
<1>2. CASE /\ IF a \notin fresh \/ new = cr THEN UNCHANGED counts ELSE ApiError
           /\ fresh' = fresh \ {a}
           /\ UNCHANGED <<cr, crEvents>>
  <2>1. /\ CountsOK'
        /\ Counted
    BY <1>a, <1>2, CountsKept
  <2>2. cr' \in CRs /\ crEvents' \in Seq(Events) /\ fresh' \subseteq Actors
    BY <1>a, <1>2 DEF TypeOK, Events
  <2>3. FreshInv' /\ ObservedInv'
    BY <1>a, <1>2, CopiesKept
  <2>4. NoticeInv'
    <3>1. CASE a # "C"
      BY <1>a, <1>2, <2>1, <3>1, NoticeKept
    <3>2. CASE a = "C"
      <4> SUFFICES ASSUME Mode = "watch", errors' = 0, mapped', cr.uid # 0, cr.obs # cr.gen
                   PROVE  Noticed'
        BY <1>2 DEF NoticeInv
      <4>1. errors = 0 /\ mapped
        <5>1. errors' # errors + 1
          BY <1>a DEF TypeOK
        <5>2. errors' = errors /\ mapped' = mapped
          BY <2>1, <5>1, Zenon
        <5>3. mapped
          BY <5>2, Zenon
        <5> QED BY <5>2, <5>3
      <4>2. a \notin fresh
        <5> SUFFICES ASSUME a \in fresh PROVE FALSE
          OBVIOUS
        <5>1. new # cr
          BY <1>b, <3>2
        <5>2. ApiError
          BY <1>2, <5>1
        <5> QED BY <1>a, <5>2, ErrorCounted
      <4>3. \E i \in DOMAIN crEvents : crEvents[i] = "changed"
        BY <1>a, <3>2, <4>1, <4>2 DEF NoticeInv, Noticed
      <4> QED BY <1>2, <4>3 DEF Noticed
    <3> QED BY <3>1, <3>2
  <2> QED BY <2>1, <2>2, <2>3, <2>4
<1> QED BY <1>1, <1>2 DEF updateCRStatus

-----------------------------------------------------------------------------
(* Steps of Reconcile, ProcessJobs, the handlers, the user and the agents. *)

(* Nothing in hand is of the type of what may be in hand.                  *)
LEMMA NoWorkType == NoWork \in [name : JobNames, result : States]
  BY ControllerAssumption DEF NoWork, JobNames, States

(* Without a CR there is nothing to notice.                                *)
LEMMA ReconcileGoneStep ==
  ASSUME ControllerInv, NEW a \in {"C", "M"}, ReconcileGone(a)
  PROVE  ControllerInv'
<1> USE ControllerAssumption DEF ControllerInv, ReconcileGone, Fail, Exits, Error,
       crVars, jobVars, counts, Step, Actors
<1>1. TypeOK'
  BY DEF TypeOK
<1>2. FreshInv' /\ ObservedInv'
  BY CopiesKept DEF TypeOK
<1>3. NoticeInv'
  BY DEF NoticeInv
<1> QED BY <1>1, <1>2, <1>3

(* A failing call is counted.                                              *)
LEMMA ReconcileErrorStep ==
  ASSUME ControllerInv, NEW a \in {"C", "M"}, ReconcileError(a)
  PROVE  ControllerInv'
<1> USE ControllerAssumption DEF ControllerInv, ReconcileError, Fail, Exits, Error, Release,
       crVars, jobVars, counts, Step, Actors
<1>1. TypeOK'
  <2>1. job' \in [Actors -> [name : JobNames, result : States]]
    BY NoWorkType DEF TypeOK
  <2>2. /\ ApiError /\ UNCHANGED <<crVars, jobs, node, jobEvents, fresh, seen>>
        /\ timers' \subseteq timers
    OBVIOUS
  <2>3. /\ CountsOK'
    BY <2>2, ErrorCounted
  <2>4. \E to \in {"idle", "list", "start"} : pc' = [pc EXCEPT ![a] = to]
    OBVIOUS
  <2> HIDE DEF ReconcileError
  <2>5. pc' \in [Actors -> {"idle", "start", "get", "write", "check", "create", "stale", "gone",
                           "ifget", "ifwrite", "list", "next", "record", "drop"}]
    BY <2>4 DEF TypeOK
  <2> QED BY <2>1, <2>2, <2>3, <2>5 DEF TypeOK
<1>2. FreshInv' /\ ObservedInv'
  BY CopiesKept DEF TypeOK
<1>3. NoticeInv'
  <2>1. errors' = errors + 1
    BY ErrorCounted
  <2> QED BY <2>1, NoticeKept DEF TypeOK
<1> QED BY <1>1, <1>2, <1>3

(* Without its Node nothing is promised about the CR.                      *)
LEMMA ReconcileMismatchStep ==
  ASSUME ControllerInv, NEW a \in {"C", "M"}, ReconcileMismatch(a)
  PROVE  ControllerInv'
<1> USE ControllerAssumption DEF ControllerInv, ReconcileMismatch, Fail, Exits, Error,
       crVars, jobVars, counts, Step, Actors
<1>1. TypeOK'
  BY DEF TypeOK
<1>2. FreshInv' /\ ObservedInv'
  BY CopiesKept DEF TypeOK
<1>3. NoticeInv'
  BY DEF NoticeInv
<1> QED BY <1>1, <1>2, <1>3

(* A CR that is skipped has been observed.                                 *)
LEMMA ReconcileSkipStep ==
  ASSUME ControllerInv, NEW a \in {"C", "M"}, ReconcileSkip(a)
  PROVE  ControllerInv'
<1> USE ControllerAssumption DEF ControllerInv, ReconcileSkip, Return,
       crVars, jobVars, counts, Step, Actors
<1>1. TypeOK'
  BY DEF TypeOK
<1>2. FreshInv' /\ ObservedInv'
  BY CopiesKept DEF TypeOK
<1>3. NoticeInv'
  BY DEF NoticeInv, NeedsJob
<1> QED BY <1>1, <1>2, <1>3

(* The copy is the latest one, and needs a Job.                            *)
LEMMA ReconcileGetStep ==
  ASSUME ControllerInv, NEW a \in {"C", "M"}, ReconcileGet(a)
  PROVE  ControllerInv'
<1> USE ControllerAssumption DEF ControllerInv, ReconcileGet, LoadCR,
       crVars, jobVars, counts, Step, Actors
<1>1. TypeOK'
  <2>1. [name |-> cr.gen, result |-> "InProgress"] \in [name : JobNames, result : States]
    BY DEF TypeOK, CRs, JobNames, States
  <2>2. job' \in [Actors -> [name : JobNames, result : States]]
    BY <2>1 DEF TypeOK
  <2> QED BY <2>2 DEF TypeOK
<1>2. FreshInv' /\ ObservedInv'
  BY DEF TypeOK, FreshInv, ObservedInv, NeedsJob, Final
<1>3. NoticeInv'
  <2>1. CASE a = "C"
    BY <2>1 DEF TypeOK, NoticeInv, Noticed
  <2>2. CASE a = "M"
    BY <2>2, NoticeKept DEF TypeOK
  <2> QED BY <2>1, <2>2
<1> QED BY <1>1, <1>2, <1>3

(* The Job is there already.                                               *)
LEMMA JobExistsStep ==
  ASSUME ControllerInv, NEW a \in {"C", "M"}, JobExists(a)
  PROVE  ControllerInv'
<1> USE ControllerAssumption DEF ControllerInv, JobExists, Return, Release,
       crVars, jobVars, counts, Step, Actors
<1>1. TypeOK'
  BY NoWorkType DEF TypeOK
<1>2. FreshInv' /\ ObservedInv'
  BY CopiesKept DEF TypeOK
<1>3. NoticeInv'
  BY NoticeKept DEF TypeOK
<1> QED BY <1>1, <1>2, <1>3

(* The Job is not there yet, or cannot be looked up.                       *)
LEMMA JobMissingStep ==
  ASSUME ControllerInv, NEW a \in {"C", "M"}, JobMissing(a)
  PROVE  ControllerInv'
<1> USE ControllerAssumption DEF ControllerInv, JobMissing, crVars, jobVars, Step, Actors
<1>1. CountsOK' /\ Counted
  BY CountsKept
<1>2. TypeOK'
  BY <1>1 DEF TypeOK
<1>3. FreshInv' /\ ObservedInv'
  BY CopiesKept DEF TypeOK
<1>4. NoticeInv'
  BY <1>1, NoticeKept DEF TypeOK
<1> QED BY <1>2, <1>3, <1>4

(* Another Job of that name was there first.                               *)
LEMMA CreateRefusedStep ==
  ASSUME ControllerInv, NEW a \in {"C", "M"}, CreateRefused(a)
  PROVE  ControllerInv'
<1> USE ControllerAssumption DEF ControllerInv, CreateRefused, Fail, Exits, Error, Release,
       crVars, jobVars, counts, Step, Actors
<1>1. TypeOK'
  BY NoWorkType DEF TypeOK
<1>2. FreshInv' /\ ObservedInv'
  BY CopiesKept DEF TypeOK
<1>3. NoticeInv'
  BY NoticeKept DEF TypeOK
<1> QED BY <1>1, <1>2, <1>3

(* A Job is created.                                                       *)
LEMMA CreateAgentJobStep ==
  ASSUME ControllerInv, NEW a \in {"C", "M"}, CreateAgentJob(a)
  PROVE  ControllerInv'
<1> USE ControllerAssumption DEF ControllerInv, CreateAgentJob,
       crVars, jobVars, counts, Step, Actors
<1>1. TypeOK'
  <2>1. [NoJob EXCEPT !.phase = "created"]
          \in [phase : Phases, uid : 0 .. MaxInc, gen : 0 .. MaxGen]
    BY DEF NoJob, Phases
  <2>2. jobs' \in [JobNames -> [phase : Phases, uid : 0 .. MaxInc, gen : 0 .. MaxGen]]
    BY <2>1 DEF TypeOK, CreateJob
  <2> QED BY <2>2 DEF TypeOK
<1>2. FreshInv' /\ ObservedInv'
  BY CopiesKept DEF TypeOK
<1>3. NoticeInv'
  BY NoticeKept DEF TypeOK
<1> QED BY <1>1, <1>2, <1>3

(* Deleting Jobs, now or later, keeps the types.                           *)
LEMMA DeletionTypes ==
  ASSUME TypeOK, NEW S \in SUBSET JobNames, scheduleJobDeletion(S)
  PROVE  /\ jobs' \in [JobNames -> [phase : Phases, uid : 0 .. MaxInc, gen : 0 .. MaxGen]]
         /\ timers' \subseteq JobNames
         /\ UNCHANGED counts \/ ApiError
<1>1. NoJob \in [phase : Phases, uid : 0 .. MaxInc, gen : 0 .. MaxGen]
  BY ControllerAssumption DEF NoJob, Phases
<1> QED BY <1>1 DEF TypeOK, scheduleJobDeletion

(* Deleting other Jobs touches no CR.                                      *)
LEMMA DeleteStaleJobsStep ==
  ASSUME ControllerInv, NEW a \in {"C", "M"}, DeleteStaleJobs(a)
  PROVE  ControllerInv'
<1> USE ControllerAssumption DEF ControllerInv, DeleteStaleJobs, Return, Release,
       crVars, Step, Actors
<1> DEFINE S == {n \in JobNames : Exists(n) /\ n # job[a].name}
<1>1. /\ jobs' \in [JobNames -> [phase : Phases, uid : 0 .. MaxInc, gen : 0 .. MaxGen]]
      /\ timers' \subseteq JobNames
      /\ UNCHANGED counts \/ ApiError
  <2>1. CASE scheduleJobDeletion(S)
    BY <2>1, DeletionTypes
  <2>2. CASE ApiError /\ UNCHANGED <<jobs, timers>>
    BY <2>2 DEF TypeOK
  <2> QED BY <2>1, <2>2
<1> HIDE DEF S
<1>2. CountsOK' /\ Counted
  BY <1>1, CountsKept
<1>3. TypeOK'
  BY <1>1, <1>2, NoWorkType DEF TypeOK
<1>4. FreshInv' /\ ObservedInv'
  BY CopiesKept DEF TypeOK
<1>5. NoticeInv'
  BY <1>2, NoticeKept DEF TypeOK
<1> QED BY <1>3, <1>4, <1>5

(* The CR is marked for the generation that was read.                      *)
LEMMA MarkInProgressStep ==
  ASSUME ControllerInv, NEW a \in {"C", "M"}, MarkInProgress(a)
  PROVE  ControllerInv'
<1> USE ControllerAssumption DEF ControllerInv, MarkInProgress, Step, jobVars
<1>a. job[a].result \in States /\ job[a].name \in 0 .. MaxGen /\ a \in Actors
  BY DEF TypeOK, JobNames, Actors, CRs
<1>b. /\ a \in fresh => job[a].name <= cr.gen
      /\ a = "C" => pc["C"] = "write" /\ ("C" \in fresh => job[a].name = cr.gen)
      /\ a # "C" => pc'["C"] = pc["C"]
  BY DEF TypeOK, FreshInv, ObservedInv, Actors, CRs
<1>c. \A b \in Actors : pc'[b] \in {"write", "record"} => pc'[b] = pc[b] /\ job'[b] = job[b]
  BY DEF TypeOK
<1>1. /\ cr' \in CRs /\ crEvents' \in Seq(Events) /\ fresh' \subseteq Actors
      /\ CountsOK'
      /\ FreshInv' /\ ObservedInv' /\ NoticeInv'
  <2>1. updateCRStatus(a, job[a].result, job[a].name)
    OBVIOUS
  <2> HIDE DEF MarkInProgress
  <2> QED BY <1>a, <1>b, <1>c, <2>1, StatusWriteKeeps
<1>2. TypeOK'
  BY <1>1 DEF TypeOK, Events
<1> QED BY <1>1, <1>2

(* A result leaves the generation that was observed.                       *)
LEMMA RecordResultStep ==
  ASSUME ControllerInv, NEW a \in {"J", "M"}, RecordResult(a)
  PROVE  ControllerInv'
<1> USE ControllerAssumption DEF ControllerInv, RecordResult, Step, jobVars
<1>a. job[a].result \in States /\ cr.obs \in 0 .. MaxGen /\ a \in Actors
  BY DEF TypeOK, JobNames, Actors, CRs
<1>b. /\ a \in fresh => cr.obs <= cr.gen
      /\ a = "C" => pc["C"] = "write" /\ ("C" \in fresh => cr.obs = cr.gen)
      /\ a # "C" => pc'["C"] = pc["C"]
  BY DEF TypeOK, FreshInv, ObservedInv, Actors, CRs
<1>c. \A b \in Actors : pc'[b] \in {"write", "record"} => pc'[b] = pc[b] /\ job'[b] = job[b]
  BY DEF TypeOK
<1>1. /\ cr' \in CRs /\ crEvents' \in Seq(Events) /\ fresh' \subseteq Actors
      /\ CountsOK'
      /\ FreshInv' /\ ObservedInv' /\ NoticeInv'
  <2>1. updateCRStatus(a, job[a].result, cr.obs)
    OBVIOUS
  <2> HIDE DEF RecordResult
  <2> QED BY <1>a, <1>b, <1>c, <2>1, StatusWriteKeeps
<1>2. TypeOK'
  BY <1>1 DEF TypeOK, Events
<1> QED BY <1>1, <1>2

(* The list of interfaces is written next to the same state.               *)
LEMMA UpdateInterfaceStatesStep ==
  ASSUME ControllerInv, updateInterfaceStates
  PROVE  ControllerInv'
<1> USE ControllerAssumption DEF ControllerInv, updateInterfaceStates, Step, jobVars
<1>a. cr.st \in States /\ cr.obs \in 0 .. MaxGen /\ "M" \in Actors
  BY DEF TypeOK, JobNames, Actors, CRs
<1>b. /\ "M" \in fresh => cr.obs <= cr.gen
      /\ "M" = "C" => pc["C"] = "write" /\ ("C" \in fresh => cr.obs = cr.gen)
      /\ "M" # "C" => pc'["C"] = pc["C"]
  BY DEF TypeOK, FreshInv, ObservedInv, Actors, CRs
<1>c. \A b \in Actors : pc'[b] \in {"write", "record"} => pc'[b] = pc[b] /\ job'[b] = job[b]
  BY DEF TypeOK
<1>1. /\ cr' \in CRs /\ crEvents' \in Seq(Events) /\ fresh' \subseteq Actors
      /\ CountsOK'
      /\ FreshInv' /\ ObservedInv' /\ NoticeInv'
  <2>1. updateCRStatus("M", cr.st, cr.obs)
    OBVIOUS
  <2> HIDE DEF updateInterfaceStates
  <2> QED BY <1>a, <1>b, <1>c, <2>1, StatusWriteKeeps
<1>2. TypeOK'
  BY <1>1 DEF TypeOK, Events
<1> QED BY <1>1, <1>2

(* A list holds ended Jobs only.                                           *)
LEMMA ListJobsStep ==
  ASSUME ControllerInv, NEW a \in {"J", "M"}, ListJobs(a)
  PROVE  ControllerInv'
<1> USE ControllerAssumption DEF ControllerInv, ListJobs,
       crVars, jobVars, counts, Step, Actors
<1>1. TypeOK'
  <2>1. Listed \in SUBSET [name : JobNames \ {Cleanup}, phase : Finished]
    BY DEF Listed, Ended
  <2> QED BY <2>1 DEF TypeOK
<1>2. FreshInv' /\ ObservedInv'
  BY CopiesKept DEF TypeOK
<1>3. NoticeInv'
  BY NoticeKept DEF TypeOK
<1> QED BY <1>1, <1>2, <1>3

(* The list cannot be had.                                                 *)
LEMMA ListErrorStep ==
  ASSUME ControllerInv, NEW a \in {"J", "M"}, ListError(a)
  PROVE  ControllerInv'
<1> USE ControllerAssumption DEF ControllerInv, ListError, Fail, Exits, JobDone,
       crVars, jobVars, counts, Step, Actors
<1>1. TypeOK'
  BY ErrorCounted DEF TypeOK
<1>2. FreshInv' /\ ObservedInv'
  BY CopiesKept DEF TypeOK
<1>3. NoticeInv'
  BY ErrorCounted, NoticeKept DEF TypeOK
<1> QED BY <1>1, <1>2, <1>3

(* The end of the list.                                                    *)
LEMMA ListDoneStep ==
  ASSUME ControllerInv, NEW a \in {"J", "M"}, ListDone(a)
  PROVE  ControllerInv'
<1> USE ControllerAssumption DEF ControllerInv, ListDone, JobDone,
       crVars, jobVars, counts, Step, Actors
<1>1. TypeOK'
  BY DEF TypeOK
<1>2. FreshInv' /\ ObservedInv'
  BY CopiesKept DEF TypeOK
<1>3. NoticeInv'
  BY NoticeKept DEF TypeOK
<1> QED BY <1>1, <1>2, <1>3

(* A Job is passed over.                                                   *)
LEMMA SkipJobStep ==
  ASSUME ControllerInv, NEW a \in {"J", "M"}, SkipJob(a)
  PROVE  ControllerInv'
<1> USE ControllerAssumption DEF ControllerInv, SkipJob, crVars, jobVars, Actors
<1>1. TypeOK'
  <2>1. /\ CountsOK'
        /\ Counted
    BY CountsKept
  <2>2. \E j : seen' = [seen EXCEPT ![a] = @ \ {j}]
    OBVIOUS
  <2>3. seen' \in [Actors -> SUBSET [name : JobNames \ {Cleanup}, phase : Finished]]
    BY <2>2 DEF TypeOK
  <2> QED BY <2>1, <2>3 DEF TypeOK
<1>2. FreshInv' /\ ObservedInv'
  BY CopiesKept DEF TypeOK
<1>3. NoticeInv'
  <2>1. Counted
    BY ErrorCounted DEF counts
  <2> QED BY <2>1, NoticeKept DEF TypeOK
<1> QED BY <1>1, <1>2, <1>3

(* The interfaces cannot be read.                                          *)
LEMMA InterfaceStatesErrorStep ==
  ASSUME ControllerInv, InterfaceStatesError
  PROVE  ControllerInv'
<1> USE ControllerAssumption DEF ControllerInv, InterfaceStatesError, crVars, jobVars, Step, Actors
<1>1. TypeOK'
  <2>1. /\ CountsOK'
        /\ Counted
    BY CountsKept
  <2> QED BY <2>1 DEF TypeOK
<1>2. FreshInv' /\ ObservedInv'
  BY CopiesKept DEF TypeOK
<1>3. NoticeInv'
  <2>1. Counted
    BY ErrorCounted DEF counts
  <2> QED BY <2>1, NoticeKept DEF TypeOK
<1> QED BY <1>1, <1>2, <1>3

(* What is to be recorded is a result.                                     *)
LEMMA TakeJobStep ==
  ASSUME ControllerInv, NEW a \in {"J", "M"}, TakeJob(a)
  PROVE  ControllerInv'
<1> USE ControllerAssumption DEF ControllerInv, TakeJob, LoadCR, Step, crVars, jobVars, Actors
<1>1. TypeOK'
  <2>1. PICK j \in seen[a] :
          /\ seen' = [seen EXCEPT ![a] = @ \ {j}]
          /\ \E r \in {"Configured", "Failed"} :
               job' = [job EXCEPT ![a] = [name |-> j.name, result |-> r]]
    BY DEF Result
  <2>2. j \in [name : JobNames \ {Cleanup}, phase : Finished]
    BY DEF TypeOK
  <2>3. \A r \in {"Configured", "Failed"} :
          [name |-> j.name, result |-> r] \in [name : JobNames, result : States]
    BY <2>2 DEF States
  <2>4. job' \in [Actors -> [name : JobNames, result : States]]
    BY <2>1, <2>3 DEF TypeOK
  <2>5. seen' \in [Actors -> SUBSET [name : JobNames \ {Cleanup}, phase : Finished]]
    BY <2>1 DEF TypeOK
  <2>6. /\ CountsOK'
        /\ Counted
    BY CountsKept
  <2> QED BY <2>4, <2>5, <2>6 DEF TypeOK
<1>2. FreshInv' /\ ObservedInv'
  <2>1. \E r \in {"Configured", "Failed"} : \E n :
          job' = [job EXCEPT ![a] = [name |-> n, result |-> r]]
    BY DEF Result
  <2> QED BY <2>1 DEF TypeOK, FreshInv, ObservedInv, NeedsJob, Final
<1>3. NoticeInv'
  <2>1. Counted
    BY ErrorCounted DEF counts
  <2> QED BY <2>1, NoticeKept DEF TypeOK
<1> QED BY <1>1, <1>2, <1>3

(* The Job that was recorded is deleted.                                   *)
LEMMA DropJobStep ==
  ASSUME ControllerInv, NEW a \in {"J", "M"}, DropJob(a)
  PROVE  ControllerInv'
<1> USE ControllerAssumption DEF ControllerInv, DropJob, Release, crVars, Step, Actors
<1>1. /\ jobs' \in [JobNames -> [phase : Phases, uid : 0 .. MaxInc, gen : 0 .. MaxGen]]
      /\ timers' \subseteq JobNames
      /\ UNCHANGED counts \/ ApiError
  BY DeletionTypes, {job[a].name} \in SUBSET JobNames DEF TypeOK
<1>2. CountsOK' /\ Counted
  BY <1>1, CountsKept
<1>3. TypeOK'
  BY <1>1, <1>2, NoWorkType DEF TypeOK
<1>4. FreshInv' /\ ObservedInv'
  BY CopiesKept DEF TypeOK
<1>5. NoticeInv'
  BY <1>2, NoticeKept DEF TypeOK
<1> QED BY <1>3, <1>4, <1>5

(* The notification is taken up by the handler.                            *)
LEMMA handleCRStep ==
  ASSUME ControllerInv, handleCR
  PROVE  ControllerInv'
<1> USE ControllerAssumption DEF ControllerInv, handleCR,
       crVars, jobVars, counts, Step, Actors
<1>1. TypeOK'
  BY TakeFacts DEF TypeOK, Events
<1>2. FreshInv' /\ ObservedInv'
  BY CopiesKept DEF TypeOK
<1>3. NoticeInv'
  BY DEF TypeOK, NoticeInv, Noticed
<1> QED BY <1>1, <1>2, <1>3

(* A notification of a deletion hides no other.                            *)
LEMMA handleCRDeleteStep ==
  ASSUME ControllerInv, handleCRDelete
  PROVE  ControllerInv'
<1> USE ControllerAssumption DEF ControllerInv, handleCRDelete,
       crVars, jobVars, counts, Step, Actors
<1>1. TypeOK'
  BY TakeFacts DEF TypeOK, Events
<1>2. FreshInv' /\ ObservedInv'
  BY CopiesKept DEF TypeOK
<1>3. NoticeInv'
  <2> SUFFICES ASSUME Mode = "watch", errors = 0, mapped, cr.uid # 0, cr.obs # cr.gen
               PROVE  \E k \in DOMAIN Tail(crEvents) : Tail(crEvents)[k] = "changed"
    BY DEF NoticeInv, Noticed
  <2>1. PICK i \in DOMAIN crEvents : crEvents[i] = "changed"
    BY DEF NoticeInv, Noticed
  <2> QED BY <2>1, TakeFacts DEF TypeOK, Events
<1> QED BY <1>1, <1>2, <1>3

(* A cleanup Job is created unless there is one.                           *)
LEMMA LaunchCleanupJobStep ==
  ASSUME ControllerInv, LaunchCleanupJob
  PROVE  ControllerInv'
<1> USE ControllerAssumption DEF ControllerInv, LaunchCleanupJob,
       crVars, jobVars, counts, Step, Actors
<1>1. TypeOK'
  <2>1. [NoJob EXCEPT !.phase = "created"]
          \in [phase : Phases, uid : 0 .. MaxInc, gen : 0 .. MaxGen]
    BY DEF NoJob, Phases
  <2>2. jobs' \in [JobNames -> [phase : Phases, uid : 0 .. MaxInc, gen : 0 .. MaxGen]]
    BY <2>1 DEF TypeOK, CreateJob
  <2> QED BY <2>2 DEF TypeOK
<1>2. FreshInv' /\ ObservedInv'
  BY CopiesKept DEF TypeOK
<1>3. NoticeInv'
  BY NoticeKept DEF TypeOK
<1> QED BY <1>1, <1>2, <1>3

(* The cleanup Job cannot be created.                                      *)
LEMMA CleanupJobErrorStep ==
  ASSUME ControllerInv, CleanupJobError
  PROVE  ControllerInv'
<1> USE ControllerAssumption DEF ControllerInv, CleanupJobError,
       crVars, jobVars, counts, Step, Actors
<1>1. TypeOK'
  BY ErrorCounted DEF TypeOK
<1>2. FreshInv' /\ ObservedInv'
  BY CopiesKept DEF TypeOK
<1>3. NoticeInv'
  BY ErrorCounted, NoticeKept DEF TypeOK
<1> QED BY <1>1, <1>2, <1>3

(* An update of a Job is taken up.                                         *)
LEMMA TakeJobEventStep ==
  ASSUME ControllerInv, TakeJobEvent
  PROVE  ControllerInv'
<1> USE ControllerAssumption DEF ControllerInv, TakeJobEvent,
       crVars, jobVars, counts, Step, Actors
<1>1. TypeOK'
  BY DEF TypeOK
<1>2. FreshInv' /\ ObservedInv'
  BY CopiesKept DEF TypeOK
<1>3. NoticeInv'
  BY NoticeKept DEF TypeOK
<1> QED BY <1>1, <1>2, <1>3

(* The pass begins.                                                        *)
LEMMA ProcessAllStep ==
  ASSUME ControllerInv, ProcessAll
  PROVE  ControllerInv'
<1> USE ControllerAssumption DEF ControllerInv, ProcessAll,
       crVars, jobVars, counts, Step, Actors
<1>1. TypeOK'
  BY DEF TypeOK
<1>2. FreshInv' /\ ObservedInv'
  BY CopiesKept DEF TypeOK
<1>3. NoticeInv'
  BY NoticeKept DEF TypeOK
<1> QED BY <1>1, <1>2, <1>3

(* A copy is read to be written back.                                      *)
LEMMA ReadInterfaceStatesStep ==
  ASSUME ControllerInv, ReadInterfaceStates
  PROVE  ControllerInv'
<1> USE ControllerAssumption DEF ControllerInv, ReadInterfaceStates, LoadCR,
       crVars, jobVars, counts, Step, Actors
<1>1. TypeOK'
  BY DEF TypeOK
<1>2. FreshInv' /\ ObservedInv'
  BY DEF TypeOK, FreshInv, ObservedInv, NeedsJob, Final
<1>3. NoticeInv'
  BY NoticeKept DEF TypeOK
<1> QED BY <1>1, <1>2, <1>3

(* The informer of a controller that starts notifies of the CR there is.   *)
LEMMA RestartStep ==
  ASSUME ControllerInv, Restart
  PROVE  ControllerInv'
<1> USE ControllerAssumption DEF ControllerInv, Restart, Actors
<1>1. TypeOK'
  <2>1. crEvents' \in Seq({"changed", "deleted"})
    <3>1. CASE Mode = "watch" /\ cr.uid # 0
      <4>1. crEvents' = <<"changed">>
        BY <3>1
      <4> HIDE DEF Restart
      <4> QED BY <4>1
    <3>2. CASE ~(Mode = "watch" /\ cr.uid # 0)
      <4>1. crEvents' = << >>
        BY <3>2
      <4> HIDE DEF Restart
      <4> QED BY <4>1
    <3> QED BY <3>1, <3>2
  <2> QED BY <2>1, NoWorkType DEF TypeOK
<1>2. FreshInv' /\ ObservedInv'
  BY DEF TypeOK, FreshInv, ObservedInv
<1>3. NoticeInv'
  <2> SUFFICES ASSUME Mode = "watch", cr.uid # 0 PROVE Noticed'
    BY DEF NoticeInv
  <2>1. crEvents' = <<"changed">>
    OBVIOUS
  <2>2. 1 \in DOMAIN crEvents' /\ crEvents'[1] = "changed"
    BY <2>1
  <2> QED BY <2>2 DEF Noticed
<1> QED BY <1>1, <1>2, <1>3

(* A new CR is notified of.                                                *)
LEMMA CreateCRStep ==
  ASSUME ControllerInv, CreateCR
  PROVE  ControllerInv'
<1> USE ControllerAssumption DEF ControllerInv, CreateCR, counts
<1> DEFINE c == [uid |-> inc + 1, gen |-> 1, st |-> "", obs |-> 0]
<1>a. c \in CRs /\ c.obs <= c.gen
  <2>1. inc \in 0 .. MaxInc
    BY DEF TypeOK
  <2>2. inc < MaxInc
    OBVIOUS
  <2> HIDE DEF CreateCR, ControllerInv
  <2>3. inc + 1 \in 0 .. MaxInc /\ 1 \in 0 .. MaxGen /\ 0 \in 0 .. MaxGen
    BY <2>1, <2>2
  <2> QED BY <2>3 DEF CRs, States
<1>b. \A a \in Actors : pc'[a] = "record" => job'[a].result \in {"Configured", "Failed"}
  BY DEF FreshInv
<1>1. /\ cr' \in CRs /\ crEvents' \in Seq(Events) /\ fresh' = {}
      /\ FreshInv' /\ ObservedInv' /\ NoticeInv'
  <2>1. StoreCR(c)
    OBVIOUS
  <2> HIDE DEF c, CreateCR
  <2> QED BY <1>a, <1>b, <2>1, StoreKeeps
<1>2. TypeOK'
  <2>a. inc \in 0 .. MaxInc
    BY DEF TypeOK
  <2>b. inc < MaxInc /\ inc' = inc + 1
    OBVIOUS
  <2>c. inc' \in 0 .. MaxInc
    <3> HIDE DEF CreateCR, ControllerInv
    <3> QED BY <2>a, <2>b
  <2>1. inc' \in 0 .. MaxInc
    BY <2>c DEF TypeOK
  <2>2. /\ node' \in {"clean", "old", "current"}
        /\ UNCHANGED <<jobs, jobEvents, timers, pc, seen, job, counts>>
    BY DEF TypeOK, Outdate
  <2> HIDE DEF CreateCR
  <2> QED BY <1>1, <2>1, <2>2 DEF TypeOK, Events
<1> QED BY <1>1, <1>2

(* A new generation is notified of.                                        *)
LEMMA UpdateSpecStep ==
  ASSUME ControllerInv, UpdateSpec
  PROVE  ControllerInv'
<1> USE ControllerAssumption DEF ControllerInv, UpdateSpec, counts
<1> DEFINE c == [cr EXCEPT !.gen = @ + 1]
<1>a. c \in CRs /\ c.obs <= c.gen
  <2>1. cr.gen + 1 \in 0 .. MaxGen /\ cr \in CRs /\ cr.obs <= cr.gen
    BY DEF TypeOK, ObservedInv, CRs
  <2> HIDE DEF UpdateSpec
  <2> QED BY <2>1 DEF CRs
<1>b. \A a \in Actors : pc'[a] = "record" => job'[a].result \in {"Configured", "Failed"}
  BY DEF FreshInv
<1>1. /\ cr' \in CRs /\ crEvents' \in Seq(Events) /\ fresh' = {}
      /\ FreshInv' /\ ObservedInv' /\ NoticeInv'
  <2>1. StoreCR(c)
    OBVIOUS
  <2> HIDE DEF c, UpdateSpec
  <2> QED BY <1>a, <1>b, <2>1, StoreKeeps
<1>2. TypeOK'
  <2>1. inc' \in 0 .. MaxInc
    BY DEF TypeOK
  <2>2. /\ node' \in {"clean", "old", "current"}
        /\ UNCHANGED <<jobs, jobEvents, timers, pc, seen, job, counts>>
    BY DEF TypeOK, Outdate
  <2> HIDE DEF UpdateSpec
  <2> QED BY <1>1, <2>1, <2>2 DEF TypeOK, Events
<1> QED BY <1>1, <1>2

(* Without a CR there is nothing to notice.                                *)
LEMMA DeleteCRStep ==
  ASSUME ControllerInv, DeleteCR
  PROVE  ControllerInv'
<1> USE ControllerAssumption DEF ControllerInv, DeleteCR, counts
<1> DEFINE c == NoCR
<1>a. c \in CRs /\ c.obs <= c.gen
  <2>1. 0 \in 0 .. MaxInc /\ 0 \in 0 .. MaxGen
    OBVIOUS
  <2> HIDE DEF DeleteCR, ControllerInv
  <2> QED BY <2>1 DEF NoCR, CRs, States
<1>b. \A a \in Actors : pc'[a] = "record" => job'[a].result \in {"Configured", "Failed"}
  BY DEF FreshInv
<1>1. /\ cr' \in CRs /\ crEvents' \in Seq(Events) /\ fresh' = {}
      /\ FreshInv' /\ ObservedInv' /\ NoticeInv'
  <2>1. StoreCR(c)
    OBVIOUS
  <2> HIDE DEF c, DeleteCR
  <2> QED BY <1>a, <1>b, <2>1, StoreKeeps
<1>2. TypeOK'
  <2>1. inc' \in 0 .. MaxInc
    BY DEF TypeOK
  <2>2. /\ node' \in {"clean", "old", "current"}
        /\ UNCHANGED <<jobs, jobEvents, timers, pc, seen, job, counts>>
    BY DEF TypeOK, Outdate
  <2> HIDE DEF DeleteCR
  <2> QED BY <1>1, <2>1, <2>2 DEF TypeOK, Events
<1> QED BY <1>1, <1>2

(* A change of the Node is counted with the faults.                        *)
LEMMA NodeChangesStep ==
  ASSUME ControllerInv, NodeChanges
  PROVE  ControllerInv'
<1> USE ControllerAssumption DEF ControllerInv, NodeChanges, crVars, jobVars, actorVars
<1>1. TypeOK'
  BY DEF TypeOK
<1>2. FreshInv' /\ ObservedInv'
  BY CopiesKept DEF TypeOK
<1>3. NoticeInv'
  BY DEF TypeOK, NoticeInv
<1> QED BY <1>1, <1>2, <1>3

(* Agents leave the CR alone.                                              *)
LEMMA AgentStartStep ==
  ASSUME ControllerInv, NEW n \in JobNames, AgentStart(n)
  PROVE  ControllerInv'
<1> USE ControllerAssumption DEF ControllerInv, AgentStart, NotifyJob, crVars, actorVars, counts
<1>1. TypeOK'
  <2>1. [phase |-> IF n # Cleanup /\ cr.uid = 0 THEN "failed" ELSE "running",
         uid |-> cr.uid, gen |-> cr.gen]
          \in [phase : Phases, uid : 0 .. MaxInc, gen : 0 .. MaxGen]
    BY DEF TypeOK, CRs, Phases, Finished
  <2>2. jobs' \in [JobNames -> [phase : Phases, uid : 0 .. MaxInc, gen : 0 .. MaxGen]]
    BY <2>1 DEF TypeOK
  <2> QED BY <2>2 DEF TypeOK
<1>2. FreshInv' /\ ObservedInv'
  BY CopiesKept DEF TypeOK
<1>3. NoticeInv'
  BY NoticeKept DEF TypeOK
<1> QED BY <1>1, <1>2, <1>3

(* Agents leave the CR alone.                                              *)
LEMMA AgentFinishStep ==
  ASSUME ControllerInv, NEW n \in JobNames, AgentFinish(n)
  PROVE  ControllerInv'
<1> USE ControllerAssumption DEF ControllerInv, AgentFinish, NotifyJob, crVars, actorVars, counts
<1>1. TypeOK'
  <2>1. \A p \in Finished :
          [NoJob EXCEPT !.phase = p] \in [phase : Phases, uid : 0 .. MaxInc, gen : 0 .. MaxGen]
    BY DEF NoJob, Phases
  <2>2. jobs' \in [JobNames -> [phase : Phases, uid : 0 .. MaxInc, gen : 0 .. MaxGen]]
    BY <2>1 DEF TypeOK
  <2>3. node' \in {"clean", "old", "current"}
    BY DEF TypeOK
  <2> QED BY <2>2, <2>3 DEF TypeOK
<1>2. FreshInv' /\ ObservedInv'
  BY CopiesKept DEF TypeOK
<1>3. NoticeInv'
  BY NoticeKept DEF TypeOK
<1> QED BY <1>1, <1>2, <1>3

(* A Job is deleted later.                                                 *)
LEMMA DelayedDeletionStep ==
  ASSUME ControllerInv, NEW n \in JobNames, DelayedDeletion(n)
  PROVE  ControllerInv'
<1> USE ControllerAssumption DEF ControllerInv, DelayedDeletion, NoJob, Phases,
       crVars, actorVars, counts
<1>1. TypeOK'
  BY DEF TypeOK
<1>2. FreshInv' /\ ObservedInv'
  BY CopiesKept DEF TypeOK
<1>3. NoticeInv'
  BY NoticeKept DEF TypeOK
<1> QED BY <1>1, <1>2, <1>3

(* A Job is removed in silence, and the Job handler looks at the others.   *)
LEMMA TTLExpiredStep ==
  ASSUME ControllerInv, NEW n \in JobNames, TTLExpired(n)
  PROVE  ControllerInv'
<1> USE ControllerAssumption DEF ControllerInv, TTLExpired, Actors, crVars, counts
<1>1. TypeOK'
  <2>1. Listed \in SUBSET [name : JobNames \ {Cleanup}, phase : Finished]
    BY DEF Listed, Ended
  <2>2. NoJob \in [phase : Phases, uid : 0 .. MaxInc, gen : 0 .. MaxGen]
    BY DEF NoJob, Phases
  <2>3. jobs' \in [JobNames -> [phase : Phases, uid : 0 .. MaxInc, gen : 0 .. MaxGen]]
    BY <2>2 DEF TypeOK
  <2>4. /\ pc' \in [Actors -> {"idle", "start", "get", "write", "check", "create", "stale", "gone",
                              "ifget", "ifwrite", "list", "next", "record", "drop"}]
        /\ seen' \in [Actors -> SUBSET [name : JobNames \ {Cleanup}, phase : Finished]]
    BY <2>1 DEF TypeOK
  <2>5. UNCHANGED <<cr, inc, crEvents, node, jobEvents, timers, fresh, job, counts>>
    OBVIOUS
  <2> HIDE DEF TTLExpired
  <2> QED BY <2>3, <2>4, <2>5 DEF TypeOK, counts
<1>2. FreshInv' /\ ObservedInv'
  BY CopiesKept DEF TypeOK
<1>3. NoticeInv'
  BY NoticeKept DEF TypeOK
<1> QED BY <1>1, <1>2, <1>3
-----------------------------------------------------------------------------
(* Without a CR the invariant holds.                                       *)
LEMMA InitHolds == Init => ControllerInv
<1> SUFFICES ASSUME Init PROVE ControllerInv
  OBVIOUS
<1> USE ControllerAssumption DEF Init
<1>1. TypeOK
  <2>1. cr \in CRs
    <3>1. NoCR \in CRs
      <4>1. 0 \in 0 .. MaxInc /\ 0 \in 0 .. MaxGen
        OBVIOUS
      <4> HIDE DEF Init
      <4> QED BY <4>1 DEF NoCR, CRs, States
    <3> QED BY <3>1
  <2>2. jobs \in [JobNames -> [phase : Phases, uid : 0 .. MaxInc, gen : 0 .. MaxGen]]
    <3>1. NoJob \in [phase : Phases, uid : 0 .. MaxInc, gen : 0 .. MaxGen]
      BY DEF NoJob, Phases
    <3> QED BY <3>1
  <2>3. job \in [Actors -> [name : JobNames, result : States]]
    BY NoWorkType
  <2>4. crEvents \in Seq({"changed", "deleted"})
    OBVIOUS
  <2>5. inc \in 0 .. MaxInc /\ restarts \in Nat /\ errors \in Nat /\ restarts + errors <= MaxFaults
    OBVIOUS
  <2> QED BY <2>1, <2>2, <2>3, <2>4, <2>5 DEF TypeOK
<1>2. FreshInv
  BY DEF FreshInv
<1>3. ObservedInv /\ NoticeInv
  <2>1. cr.uid = 0 /\ cr.obs = 0 /\ cr.gen = 0
    BY DEF NoCR
  <2> HIDE DEF Init
  <2> QED BY <2>1 DEF ObservedInv, NoticeInv
<1> QED BY <1>1, <1>2, <1>3 DEF ControllerInv

(* Every step keeps the invariant.                                         *)
LEMMA StepKeeps ==
  ASSUME ControllerInv, [Next]_vars
  PROVE  ControllerInv'
<1>1. ASSUME NEW a \in {"C", "M"}, Reconcile(a) PROVE ControllerInv'
  BY <1>1, ReconcileGoneStep, ReconcileErrorStep, ReconcileSkipStep, ReconcileGetStep,
     MarkInProgressStep, ReconcileMismatchStep, JobExistsStep, JobMissingStep,
     CreateRefusedStep, CreateAgentJobStep, DeleteStaleJobsStep DEF Reconcile
<1>2. ASSUME NEW a \in {"J", "M"}, ProcessJobs(a) PROVE ControllerInv'
  BY <1>2, ListJobsStep, ListErrorStep, ListDoneStep, SkipJobStep, TakeJobStep,
     RecordResultStep, DropJobStep DEF ProcessJobs
<1>3. CASE CRHandler
  BY <1>1, <1>3, handleCRStep, handleCRDeleteStep, LaunchCleanupJobStep,
     CleanupJobErrorStep DEF CRHandler
<1>4. CASE JobHandler
  BY <1>2, <1>4, TakeJobEventStep DEF JobHandler
<1>5. CASE MainPass
  BY <1>1, <1>2, <1>5, ProcessAllStep, ReadInterfaceStatesStep, InterfaceStatesErrorStep,
     UpdateInterfaceStatesStep DEF MainPass
<1>6. CASE User
  BY <1>6, CreateCRStep, UpdateSpecStep, DeleteCRStep, NodeChangesStep DEF User
<1>7. CASE Restart
  BY <1>7, RestartStep
<1>8. CASE \E n \in JobNames : Agent(n) \/ DelayedDeletion(n) \/ TTLExpired(n)
  BY <1>8, AgentStartStep, AgentFinishStep, DelayedDeletionStep, TTLExpiredStep DEF Agent
<1>9. CASE UNCHANGED vars
  <2>1. TypeOK'
    BY <1>9 DEF ControllerInv, TypeOK, vars, crVars, jobVars, actorVars, counts
  <2>2. FreshInv' /\ ObservedInv' /\ NoticeInv'
    BY <1>9 DEF ControllerInv, FreshInv, ObservedInv, NoticeInv, Noticed, NeedsJob, Final,
                vars, crVars, jobVars, actorVars, counts
  <2> QED BY <2>1, <2>2 DEF ControllerInv
<1> QED BY <1>3, <1>4, <1>5, <1>6, <1>7, <1>8, <1>9 DEF Next

(* The invariant that the other theorems rest on holds in both modes,      *)
(* with restarts, failing calls and delayed deletions: copies of the CR    *)
(* are written only while they are the latest, and a spec that was not     *)
(* observed is on its way to the handler (reconciler.go:49-113,            *)
(* watcher.go:46-58).                                                      *)
THEOREM ControllerInvariant == Spec => []ControllerInv
<1>1. Init => ControllerInv
  BY InitHolds
<1>2. ControllerInv /\ [Next]_vars => ControllerInv'
  BY StepKeeps
<1> QED BY <1>1, <1>2, PTL DEF Spec

(* Every variable of the controller keeps its type.                        *)
THEOREM TypeCorrect == Spec => []TypeOK
<1>1. ControllerInv => TypeOK
  BY DEF ControllerInv
<1> QED BY <1>1, ControllerInvariant, PTL

(* In watch mode no spec is lost: when all notifications are handled and   *)
(* no call failed, the CR reports its latest generation as observed, with  *)
(* any number of edits, refused writes and restarts on the way             *)
(* (reconciler.go:49-57,103-113; watcher.go:46-58).                        *)
THEOREM SpecIsNoticed == Mode = "watch" => (Spec => []SpecNoticed)
<1> SUFFICES ASSUME Mode = "watch" PROVE Spec => []SpecNoticed
  OBVIOUS
<1>1. ControllerInv => SpecNoticed
  <2> SUFFICES ASSUME ControllerInv, cr.uid # 0, mapped, Quiet, errors = 0
                    PROVE  cr.obs = cr.gen
    BY DEF SpecNoticed
  <2>1. crEvents = << >> /\ pc["C"] = "idle"
    BY DEF Quiet, JobDone, Actors
  <2>2. ~Noticed
    BY <2>1 DEF Noticed
  <2> QED BY <2>2 DEF ControllerInv, NoticeInv
<1> QED BY <1>1, ControllerInvariant, PTL

(* Only the user and three writes of the status change the CR.             *)
LEMMA HowCRChanges ==
  ASSUME [Next]_vars
  PROVE  \/ cr' = cr
         \/ CreateCR \/ UpdateSpec \/ DeleteCR
         \/ \E a \in {"C", "M"} : MarkInProgress(a)
         \/ \E a \in {"J", "M"} : RecordResult(a)
         \/ updateInterfaceStates
<1> USE DEF crVars
<1>1. ASSUME NEW a \in {"C", "M"}, Reconcile(a) PROVE cr' = cr \/ MarkInProgress(a)
  BY <1>1 DEF Reconcile, ReconcileGone, ReconcileError, ReconcileSkip, ReconcileGet, JobExists,
              JobMissing, CreateAgentJob, DeleteStaleJobs, ReconcileMismatch, CreateRefused
<1>2. ASSUME NEW a \in {"J", "M"}, ProcessJobs(a) PROVE cr' = cr \/ RecordResult(a)
  BY <1>2 DEF ProcessJobs, ListJobs, ListError, ListDone, SkipJob, TakeJob, DropJob
<1>3. CASE CRHandler
  BY <1>1, <1>3 DEF CRHandler, handleCR, handleCRDelete, LaunchCleanupJob, CleanupJobError
<1>4. CASE JobHandler
  BY <1>2, <1>4 DEF JobHandler, TakeJobEvent
<1>5. CASE MainPass
  BY <1>1, <1>2, <1>5 DEF MainPass, ProcessAll, ReadInterfaceStates, InterfaceStatesError
<1>6. CASE User
  BY <1>6 DEF User, NodeChanges
<1>7. CASE Restart
  BY <1>7 DEF Restart
<1>8. CASE \E n \in JobNames : Agent(n) \/ DelayedDeletion(n) \/ TTLExpired(n)
  BY <1>8 DEF Agent, AgentStart, AgentFinish, DelayedDeletion, TTLExpired
<1>9. CASE UNCHANGED vars
  BY <1>9 DEF vars
<1> QED BY <1>3, <1>4, <1>5, <1>6, <1>7, <1>8, <1>9 DEF Next

(* A write of the status changes the state and the generation observed,    *)
(* as given, or nothing; only one with the latest copy changes anything.   *)
LEMMA StatusWriteFacts ==
  ASSUME TypeOK, NEW a, NEW st, NEW obs, updateCRStatus(a, st, obs)
  PROVE  \/ cr' = cr
         \/ /\ a \in fresh
            /\ cr'.uid = cr.uid /\ cr'.gen = cr.gen /\ cr'.st = st /\ cr'.obs = obs
<1> DEFINE new == [cr EXCEPT !.st = st, !.obs = obs]
<1>1. new.uid = cr.uid /\ new.gen = cr.gen /\ new.st = st /\ new.obs = obs
  BY DEF TypeOK, CRs
<1>2. cr' = cr \/ (a \in fresh /\ cr' = new)
  BY DEF updateCRStatus, StoreCR
<1> QED BY <1>1, <1>2

(* What the two action properties say of a step.                           *)
LEMMA StatusStep ==
  ASSUME ControllerInv, [Next]_vars, cr'.uid = cr.uid
  PROVE  /\ cr'.obs >= cr.obs /\ cr'.obs <= cr'.gen
         /\ cr'.gen = cr.gen /\ Final(cr) /\ cr.obs = cr.gen => cr'.st # "InProgress"
<1> USE ControllerAssumption
<1>a. TypeOK /\ FreshInv /\ ObservedInv
  BY DEF ControllerInv
<1>b. cr.gen \in Nat /\ cr.obs \in Nat /\ cr.obs <= cr.gen /\ cr.uid \in Nat
  BY <1>a DEF TypeOK, CRs, ObservedInv
<1>1. CASE cr' = cr
  BY <1>1, <1>b DEF Final
<1>2. CASE CreateCR
  <2>1. cr' = [uid |-> inc + 1, gen |-> 1, st |-> "", obs |-> 0]
    BY <1>2 DEF CreateCR, StoreCR
  <2>2. cr.uid = 0
    BY <1>2 DEF CreateCR
  <2>3. cr'.uid = inc + 1
    BY <2>1
  <2>4. inc \in Nat
    BY <1>a DEF TypeOK
  <2> QED BY <2>2, <2>3, <2>4
<1>3. CASE UpdateSpec
  <2>1. cr' = [cr EXCEPT !.gen = cr.gen + 1]
    BY <1>3 DEF UpdateSpec, StoreCR
  <2>2. cr'.gen = cr.gen + 1 /\ cr'.obs = cr.obs
    BY <2>1, <1>a DEF TypeOK, CRs
  <2> QED BY <2>2, <1>b
<1>4. CASE DeleteCR
  BY <1>4 DEF DeleteCR, StoreCR, NoCR
<1>5. ASSUME NEW a \in {"C", "M"}, MarkInProgress(a), cr' # cr
      PROVE  /\ cr'.obs >= cr.obs /\ cr'.obs <= cr'.gen
             /\ cr'.gen = cr.gen /\ Final(cr) /\ cr.obs = cr.gen => cr'.st # "InProgress"
  <2>1. /\ a \in fresh /\ pc[a] = "write" /\ cr'.gen = cr.gen
        /\ cr'.obs = job[a].name
    BY <1>5, <1>a, StatusWriteFacts DEF MarkInProgress, Step
  <2>2. job[a].name = cr.gen /\ NeedsJob(cr)
    BY <1>a, <2>1 DEF FreshInv, Actors
  <2> QED BY <1>b, <2>1, <2>2 DEF NeedsJob
<1>6. ASSUME NEW a \in {"J", "M"}, RecordResult(a), cr' # cr
      PROVE  /\ cr'.obs = cr.obs /\ cr'.gen = cr.gen
             /\ cr'.st # "InProgress"
  <2>1. pc[a] = "record" /\ cr'.gen = cr.gen /\ cr'.obs = cr.obs /\ cr'.st = job[a].result
    BY <1>6, <1>a, StatusWriteFacts DEF RecordResult, Step
  <2> QED BY <1>a, <2>1 DEF FreshInv, Actors
<1>7. CASE updateInterfaceStates /\ cr' # cr
  <2>1. cr'.gen = cr.gen /\ cr'.obs = cr.obs /\ cr'.st = cr.st
    BY <1>7, <1>a, StatusWriteFacts DEF updateInterfaceStates
  <2> QED BY <1>b, <2>1 DEF Final
<1> QED BY <1>b, <1>1, <1>2, <1>3, <1>4, <1>5, <1>6, <1>7, HowCRChanges

(* The observed generation of a CR never goes back and is never ahead of   *)
(* the spec, whoever writes the status and however old the copy was that   *)
(* the write began with (reconciler.go:103-105,567-576).                   *)
THEOREM ObservedNeverGoesBack == Spec => ObservedMonotone
<1>1. ControllerInv /\ [Next]_vars
        => [cr'.uid = cr.uid => cr'.obs >= cr.obs /\ cr'.obs <= cr'.gen]_vars
  BY StatusStep
<1> QED BY <1>1, ControllerInvariant, PTL DEF Spec, ObservedMonotone

(* A result that was reported for the current spec is not reopened         *)
(* (reconciler.go:53-57,567-576).                                          *)
THEOREM FinalStatesStay == Spec => FinalStateKept
<1>1. ControllerInv /\ [Next]_vars
        => [cr'.uid = cr.uid /\ cr'.gen = cr.gen /\ Final(cr) /\ cr.obs = cr.gen
              => cr'.st # "InProgress"]_vars
  BY StatusStep
<1> QED BY <1>1, ControllerInvariant, PTL DEF Spec, FinalStateKept
=============================================================================
