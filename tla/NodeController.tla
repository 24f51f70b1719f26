--------------------------- MODULE NodeController ---------------------------
(***************************************************************************)
(* The controller for one node: it turns the MultiNicNodeConfig of the     *)
(* node into an agent Job per generation of the spec, and what the Jobs    *)
(* report into the status of the CR. Three goroutines do this on shared    *)
(* API objects, without a lock between them:                               *)
(*   "C"  the handler of the CR informer (Reconcile, cleanup on delete),   *)
(*   "J"  the handler of the Job informer (ProcessJobs),                   *)
(*   "M"  the goroutine that called Start: one pass of ProcessAll and      *)
(*        ProcessJobs in watch mode, one pass per tick in poll mode.       *)
(* A fourth, the handler of the Pod informer, looks for a CR named after   *)
(* the Job instead of the node, finds none and changes nothing.            *)
(* Every API call is a step. Writes carry the resourceVersion that was     *)
(* read, so a write on an outdated copy is refused; the code ignores the   *)
(* error.                                                                  *)
(*                                                                         *)
(*   src/internal/controller/reconciler.go, watcher.go, service.go,        *)
(*   jobfactory.go                                                         *)
(***************************************************************************)
EXTENDS Naturals, Sequences, FiniteSets

CONSTANTS Mode,         \* CONTROLLER_MODE: "watch" or "poll"
          Deletions,    \* how Jobs are deleted, see deletion
          Deletes,      \* may the user delete the CR?
          Outcomes,     \* how the agents of Jobs may end
          MaxGen,       \* bound: generations of one CR
          MaxInc,       \* bound: how often the CR is created
          MaxFaults     \* bound: API calls that fail, and restarts

(* A Job succeeds with all interfaces, or with failures in its report, or  *)
(* fails.                                                                  *)
Finished == {"succeeded", "partial", "failed"}

ASSUME ControllerAssumption ==
  /\ Mode \in {"watch", "poll"}
  /\ Deletions \subseteq {"now", "delayed"} /\ Deletes \in BOOLEAN
  /\ Outcomes \subseteq Finished
  /\ MaxGen \in Nat \ {0} /\ MaxInc \in Nat \ {0} /\ MaxFaults \in Nat

Actors == {"C", "J", "M"}

(* Jobs are known by name only: one name per generation, multinic-agent-   *)
(* <node>-g<gen>, and one name for the cleanup of the node.                *)
Cleanup == 0
JobNames == 0 .. MaxGen

VARIABLES
  cr,        \* the CR: uid 0 when there is none, generation, status
  inc,       \* CRs created so far
  jobs,      \* jobs[n]: phase of the Job, and the spec its agent has read
  node,      \* configuration files on the node: of the "current" spec, of
             \* an "old" one or a part of one, or none, "clean"
  crEvents,  \* notifications the CR informer has not delivered
  jobEvents, \* does the Job informer have an update to deliver?
  timers,    \* Jobs whose deletion is scheduled
  pc,        \* where an actor is
  fresh,     \* actors whose copy of the CR is the latest version
  seen,      \* Jobs of its list it has not looked at
  job,       \* the Job it works on, and the state it stands for
  deletion,  \* "delayed" when JobDeleteDelaySeconds > 0
  restarts, errors, \* restarts of the controller, API calls that failed
  mapped     \* is there a Node of that name, with the UUID the CR gives?

crVars == <<cr, inc, crEvents>>
jobVars == <<jobs, node, jobEvents, timers>>
actorVars == <<pc, fresh, seen, job>>
counts == <<deletion, restarts, errors, mapped>>
vars == <<crVars, jobVars, actorVars, counts>>

NoCR == [uid |-> 0, gen |-> 0, st |-> "", obs |-> 0]
NoJob == [phase |-> "none", uid |-> 0, gen |-> 0]
NoWork == [name |-> 0, result |-> ""]
Exists(n) == jobs[n].phase # "none"
Final(c) == c.st \in {"Configured", "Failed"}

(* The controller is up, and its first pass has found nothing to do.       *)
Init ==
  /\ cr = NoCR
  /\ inc = 0
  /\ jobs = [n \in JobNames |-> NoJob]
  /\ node = "clean"
  /\ crEvents = << >>
  /\ jobEvents = "none"
  /\ timers = {}
  /\ pc = [a \in Actors |-> IF a = "M" /\ Mode = "poll" THEN "start" ELSE "idle"]
  /\ fresh = {}
  /\ seen = [a \in Actors |-> {}]
  /\ job = [a \in Actors |-> NoWork]
  /\ deletion \in Deletions
  /\ restarts = 0 /\ errors = 0
  /\ mapped \in BOOLEAN
-----------------------------------------------------------------------------
(* The API server and the informers                                        *)

(* The handler looks the CR up again, so notifications of the same kind    *)
(* that wait together count as one. Poll mode has no informers.            *)
Notify(e) ==
  crEvents' = IF Mode = "poll" \/ (crEvents # << >> /\ crEvents[Len(crEvents)] = e)
              THEN crEvents ELSE Append(crEvents, e)
NotifyJob == jobEvents' = IF Mode = "poll" THEN "none" ELSE "pending"

(* What was the current spec on the node is an old one now.                *)
Outdate == node' = IF node = "current" THEN "old" ELSE node

(* A write that changes the CR makes every copy of it outdated.            *)
StoreCR(c) ==
  /\ cr' = c
  /\ fresh' = {}
  /\ Notify(IF c.uid = 0 THEN "deleted" ELSE "changed")

(* An actor reads the CR. A copy is as good as the CR until the next write *)
(* of the CR by anyone, and what an outdated one says is never used.       *)
LoadCR(a) == fresh' = fresh \cup {a}

(* A call of the API fails.                                                *)
ApiError ==
  /\ restarts + errors < MaxFaults
  /\ errors' = errors + 1
  /\ UNCHANGED <<deletion, restarts, mapped>>

Step(a, from, to) ==
  /\ pc[a] = from
  /\ pc' = [pc EXCEPT ![a] = to]

(* The actor is done with the Job it had in hand.                          *)
Release(a) == job' = [job EXCEPT ![a] = NoWork]

(* Mutated form: the write does not carry the version that was read.       *)
updateCRStatusBlind(a, st, obs) ==
  /\ StoreCR([cr EXCEPT !.st = st, !.obs = obs])
  /\ UNCHANGED counts

(* Both the status write and the fallback are refused when the copy is     *)
(* outdated, or fail. A write that changes nothing but the time stamp is a *)
(* change only when the second has changed. The copy is not used again.    *)
updateCRStatus(a, st, obs) ==
  LET new == [cr EXCEPT !.st = st, !.obs = obs]
  IN  \/ a \in fresh /\ StoreCR(new) /\ UNCHANGED counts
      \/ /\ IF a \notin fresh \/ new = cr THEN UNCHANGED counts ELSE ApiError
         /\ fresh' = fresh \ {a}
         /\ UNCHANGED <<cr, crEvents>>

(* Delete now, or let a goroutine delete whatever has the name later. That *)
(* a deletion fails is ignored.                                            *)
scheduleJobDeletion(names) ==
  IF deletion = "delayed"
  THEN timers' = timers \cup names /\ UNCHANGED <<jobs, counts>>
  ELSE /\ \E kept \in SUBSET names :
            /\ jobs' = [n \in JobNames |-> IF n \in names \ kept THEN NoJob ELSE jobs[n]]
            /\ IF kept = {} THEN UNCHANGED counts ELSE ApiError
       /\ UNCHANGED timers

DelayedDeletion(n) ==
  /\ n \in timers
  /\ timers' = timers \ {n}
  /\ jobs' = [jobs EXCEPT ![n] = NoJob]
  /\ UNCHANGED <<crVars, node, jobEvents, actorVars, counts>>

CreateJob(n) == jobs' = [jobs EXCEPT ![n] = [NoJob EXCEPT !.phase = "created"]]
-----------------------------------------------------------------------------
(* Reconcile, by the CR informer ("C") and by ProcessAll ("M")             *)

(* Reconcile returned nil: ProcessAll goes on to updateInterfaceStates.    *)
Return(a) == IF a = "M" THEN "ifget" ELSE "idle"

(* It returned an error: the informer drops it; Start ignores it and goes  *)
(* on to ProcessJobs; in poll mode the controller exits and is restarted.  *)
Error(a) == IF a # "M" THEN "idle" ELSE IF Mode = "watch" THEN "list" ELSE "start"

(* The exit forgets the deletions that were scheduled.                     *)
Exits(a) == a = "M" /\ Mode = "poll"
Fail(a, from, to) ==
  /\ Step(a, from, to)
  /\ timers' = IF Exits(a) THEN {} ELSE timers
  /\ UNCHANGED <<jobs, node, jobEvents>>

(* Mutated form: a changed spec does not reopen a final state.             *)
NeedsJobUnlessFinal(c) == ~Final(c)

NeedsJob(c) == ~(Final(c) /\ c.obs = c.gen)

(* The CR is gone.                                                         *)
ReconcileGone(a) ==
  /\ cr.uid = 0
  /\ Fail(a, "get", Error(a))
  /\ UNCHANGED <<crVars, fresh, seen, job, counts>>

(* A call fails: the CRs are not listed, the CR or its Node is not looked  *)
(* up, or the Job is not created.                                          *)
ReconcileError(a) ==
  /\ \E from \in {"start", "get", "create"} : Fail(a, from, Error(a))
  /\ Release(a)
  /\ ApiError
  /\ UNCHANGED <<crVars, fresh, seen>>

(* There is no such Node, or it has another UUID than the CR gives: every  *)
(* Reconcile of a CR that needs a Job ends here, as long as that is so.    *)
ReconcileMismatch(a) ==
  /\ cr.uid # 0 /\ NeedsJob(cr) /\ ~mapped
  /\ Fail(a, "get", Error(a))
  /\ UNCHANGED <<crVars, fresh, seen, job, counts>>

ReconcileSkip(a) ==
  /\ cr.uid # 0 /\ ~NeedsJob(cr)
  /\ Step(a, "get", Return(a))
  /\ UNCHANGED <<crVars, jobVars, fresh, seen, job, counts>>

(* The Job is named after the generation that was read.                    *)
ReconcileGet(a) ==
  /\ cr.uid # 0 /\ NeedsJob(cr) /\ mapped
  /\ Step(a, "get", "write")
  /\ LoadCR(a)
  /\ job' = [job EXCEPT ![a] = [name |-> cr.gen, result |-> "InProgress"]]
  /\ UNCHANGED <<crVars, jobVars, seen, counts>>

(* Mutated form: the observed generation is not recorded.                  *)
MarkInProgressOnly(a) ==
  /\ Step(a, "write", "check")
  /\ updateCRStatus(a, job[a].result, cr.obs)
  /\ UNCHANGED <<inc, jobVars, seen, job>>

(* The CR is marked InProgress for that generation; whether the write was  *)
(* accepted does not matter for the rest.                                  *)
MarkInProgress(a) ==
  /\ Step(a, "write", "check")
  /\ updateCRStatus(a, job[a].result, job[a].name)
  /\ UNCHANGED <<inc, jobVars, seen, job>>

JobExists(a) ==
  /\ Exists(job[a].name)
  /\ Step(a, "check", Return(a))
  /\ Release(a)
  /\ UNCHANGED <<crVars, jobVars, fresh, seen, counts>>

(* A Job that cannot be looked up counts as missing.                       *)
JobMissing(a) ==
  /\ Step(a, "check", "create")
  /\ IF Exists(job[a].name) THEN ApiError ELSE UNCHANGED counts
  /\ UNCHANGED <<crVars, jobVars, fresh, seen, job>>

(* The Job was there, or has come to be there meanwhile.                   *)
CreateRefused(a) ==
  /\ Exists(job[a].name)
  /\ Fail(a, "create", Error(a))
  /\ Release(a)
  /\ UNCHANGED <<crVars, fresh, seen, counts>>

CreateAgentJob(a) ==
  /\ ~Exists(job[a].name)
  /\ Step(a, "create", "stale")
  /\ CreateJob(job[a].name)
  /\ UNCHANGED <<crVars, node, jobEvents, timers, fresh, seen,
                 job, counts>>

(* Every other Job of the node goes, the cleanup Job included; none does   *)
(* when the Jobs cannot be listed.                                         *)
DeleteStaleJobs(a) ==
  /\ Step(a, "stale", Return(a))
  /\ \/ scheduleJobDeletion({n \in JobNames : Exists(n) /\ n # job[a].name})
     \/ ApiError /\ UNCHANGED <<jobs, timers>>
  /\ Release(a)
  /\ UNCHANGED <<crVars, node, jobEvents, fresh, seen>>
-----------------------------------------------------------------------------
(* ProcessJobs, by the Job informer ("J") and after ProcessAll ("M")       *)

JobDone(a) == IF a = "M" /\ Mode = "poll" THEN "start" ELSE "idle"

Ended(n) == jobs[n].phase \in Finished

(* Mutated form: Jobs of the cleanup are looked at like any other.         *)
ListedAll == {[name |-> n, phase |-> jobs[n].phase] : n \in {k \in JobNames : Ended(k)}}

(* The list is a copy; Jobs of the cleanup are left alone, and nothing is  *)
(* done for those that have not ended.                                     *)
Listed == {[name |-> n, phase |-> jobs[n].phase] : n \in {k \in JobNames \ {Cleanup} : Ended(k)}}

ListJobs(a) ==
  /\ Step(a, "list", "next")
  /\ seen' = [seen EXCEPT ![a] = Listed]
  /\ UNCHANGED <<crVars, jobVars, fresh, job, counts>>

ListError(a) ==
  /\ Fail(a, "list", JobDone(a))
  /\ ApiError
  /\ UNCHANGED <<crVars, fresh, seen, job>>

ListDone(a) ==
  /\ seen[a] = {}
  /\ Step(a, "next", JobDone(a))
  /\ UNCHANGED <<crVars, jobVars, fresh, seen, job, counts>>

(* Mutated form: failures in the report of a Job that succeeded are not    *)
(* looked at.                                                              *)
ResultIgnoringReport(j) == IF j.phase = "failed" THEN "Failed" ELSE "Configured"

(* The report is kept by the pod of the Job, and the pod is gone when the  *)
(* Job is.                                                                 *)
getJobTerminationMessage(n) == IF jobs[n].phase = "partial" THEN "failures" ELSE ""

(* The state a finished Job stands for. A Job that succeeded with failed   *)
(* interfaces is told apart by the report only.                            *)
Result(j) ==
  IF \/ j.phase = "failed"
     \/ j.phase = "partial" /\ getJobTerminationMessage(j.name) = "failures"
  THEN "Failed" ELSE "Configured"

(* The CR decides whether the Job is news: a succeeded Job is not when the *)
(* CR is Configured, nor a failed one when it is Failed. A Job is skipped  *)
(* as well when the CR cannot be read.                                     *)
News(j) == /\ cr.uid # 0
           /\ \/ j.phase \in {"succeeded", "partial"} /\ cr.st # "Configured"
              \/ j.phase = "failed" /\ cr.st # "Failed"

SkipJob(a) ==
  /\ pc[a] = "next"
  /\ \E j \in seen[a] :
       /\ seen' = [seen EXCEPT ![a] = @ \ {j}]
       /\ IF News(j) THEN ApiError ELSE UNCHANGED counts
  /\ UNCHANGED <<crVars, jobVars, pc, fresh, job>>

(* A report that cannot be fetched counts as none.                         *)
TakeJob(a) ==
  /\ Step(a, "next", "record")
  /\ \E j \in seen[a] :
       /\ News(j)
       /\ seen' = [seen EXCEPT ![a] = @ \ {j}]
       /\ \/ /\ job' = [job EXCEPT ![a] = [name |-> j.name, result |-> Result(j)]]
             /\ UNCHANGED counts
          \/ /\ j.phase = "partial"
             /\ job' = [job EXCEPT ![a] = [name |-> j.name, result |-> "Configured"]]
             /\ ApiError
  /\ LoadCR(a)
  /\ UNCHANGED <<crVars, jobVars>>

(* The state is written next to the generation observed by Reconcile.      *)
RecordResult(a) ==
  /\ Step(a, "record", "drop")
  /\ updateCRStatus(a, job[a].result, cr.obs)
  /\ UNCHANGED <<inc, jobVars, seen, job>>

(* The Job goes, whether or not its result could be written.               *)
DropJob(a) ==
  /\ Step(a, "drop", "next")
  /\ scheduleJobDeletion({job[a].name})
  /\ Release(a)
  /\ UNCHANGED <<crVars, node, jobEvents, fresh, seen>>
-----------------------------------------------------------------------------
(* The informers' handlers and the main goroutine                          *)

(* The next notification is taken up: a CR was created or changed.         *)
handleCR ==
  /\ crEvents # << >> /\ Head(crEvents) = "changed"
  /\ Step("C", "idle", "get")
  /\ crEvents' = Tail(crEvents)
  /\ UNCHANGED <<cr, inc, jobVars, fresh, seen, job, counts>>

(* The CR was deleted.                                                     *)
handleCRDelete ==
  /\ crEvents # << >> /\ Head(crEvents) = "deleted"
  /\ Step("C", "idle", "gone")
  /\ crEvents' = Tail(crEvents)
  /\ UNCHANGED <<cr, inc, jobVars, fresh, seen, job, counts>>

(* A cleanup Job, unless one is still there.                               *)
LaunchCleanupJob ==
  /\ Step("C", "gone", "idle")
  /\ IF Exists(Cleanup) THEN UNCHANGED jobs
     ELSE CreateJob(Cleanup)
  /\ UNCHANGED <<crVars, node, jobEvents, timers, fresh, seen,
                 job, counts>>

CleanupJobError ==
  /\ ~Exists(Cleanup)
  /\ Step("C", "gone", "idle")
  /\ ApiError
  /\ UNCHANGED <<crVars, jobVars, fresh, seen, job>>

TakeJobEvent ==
  /\ jobEvents = "pending"
  /\ Step("J", "idle", "list")
  /\ jobEvents' = "none"
  /\ UNCHANGED <<crVars, jobs, node, timers, fresh, seen, job, counts>>

(* ProcessAll lists the CRs: none, or the one of this node.                *)
ProcessAll ==
  /\ Step("M", "start", IF cr.uid = 0 THEN "list" ELSE "get")
  /\ UNCHANGED <<crVars, jobVars, fresh, seen, job, counts>>

(* updateInterfaceStates writes the status it has read back, with another  *)
(* list of interfaces.                                                     *)
ReadInterfaceStates ==
  /\ cr.uid # 0
  /\ Step("M", "ifget", "ifwrite")
  /\ LoadCR("M")
  /\ UNCHANGED <<crVars, jobVars, seen, job, counts>>

(* The CR is gone, the Node is missing, or a call fails: nothing is        *)
(* written, and the pass goes on.                                          *)
InterfaceStatesError ==
  /\ Step("M", "ifget", "list")
  /\ IF cr.uid = 0 \/ ~mapped THEN UNCHANGED counts ELSE ApiError
  /\ UNCHANGED <<crVars, jobVars, fresh, seen, job>>

updateInterfaceStates ==
  /\ Step("M", "ifwrite", "list")
  /\ updateCRStatus("M", cr.st, cr.obs)
  /\ UNCHANGED <<inc, jobVars, seen, job>>

(* The controller stops at any point and starts again: scheduled deletions *)
(* are lost, and the CR informer begins with the CR as it is now.          *)
Restart ==
  /\ restarts + errors < MaxFaults
  /\ restarts' = restarts + 1
  /\ crEvents' = IF Mode = "watch" /\ cr.uid # 0 THEN <<"changed">> ELSE << >>
  /\ jobEvents' = "none"
  /\ timers' = {}
  /\ pc' = [a \in Actors |-> IF a = "M" THEN "start" ELSE "idle"]
  /\ fresh' = {}
  /\ seen' = [a \in Actors |-> {}]
  /\ job' = [a \in Actors |-> NoWork]
  /\ UNCHANGED <<cr, inc, jobs, node, deletion, errors, mapped>>
-----------------------------------------------------------------------------
(* The user of the CR                                                      *)

CreateCR ==
  /\ cr.uid = 0
  /\ inc < MaxInc
  /\ inc' = inc + 1
  /\ StoreCR([uid |-> inc + 1, gen |-> 1, st |-> "", obs |-> 0])
  /\ Outdate
  /\ UNCHANGED <<jobs, jobEvents, timers, pc, seen, job, counts>>

UpdateSpec ==
  /\ cr.uid # 0
  /\ cr.gen < MaxGen
  /\ StoreCR([cr EXCEPT !.gen = @ + 1])
  /\ Outdate
  /\ UNCHANGED <<inc, jobs, jobEvents, timers, pc, seen, job, counts>>

DeleteCR ==
  /\ Deletes
  /\ cr.uid # 0
  /\ StoreCR(NoCR)
  /\ Outdate
  /\ UNCHANGED <<inc, jobs, jobEvents, timers, pc, seen, job, counts>>

(* The Node is replaced, removed or added, or the instance-id label of the *)
(* CR changes: neither changes the generation. Counted with the faults.    *)
NodeChanges ==
  /\ restarts + errors < MaxFaults
  /\ errors' = errors + 1
  /\ mapped' = ~mapped
  /\ UNCHANGED <<crVars, jobVars, actorVars, deletion, restarts>>
-----------------------------------------------------------------------------
(* The pod of a Job. The Job has one retry: only its last attempt counts.  *)

(* The agent starts and, when it is to apply, reads the spec as it is now, *)
(* not as it was when the Job was created.                                 *)
AgentStart(n) ==
  /\ jobs[n].phase = "created"
  /\ jobs' = [jobs EXCEPT ![n] =
       [phase |-> IF n # Cleanup /\ cr.uid = 0 THEN "failed" ELSE "running",
        uid |-> cr.uid, gen |-> cr.gen]]
  /\ NotifyJob
  /\ UNCHANGED <<crVars, node, timers, actorVars, counts>>

ReadCurrent(n) == jobs[n].uid = cr.uid /\ jobs[n].gen = cr.gen

(* It applies all or some of the spec it has read, or nothing. One that    *)
(* ends after the agent of a newer spec is not held against that spec. The *)
(* Job of a cleanup that could not remove every file succeeds as well.     *)
AgentFinish(n) ==
  /\ jobs[n].phase = "running"
  /\ \E p \in Outcomes :
       /\ jobs' = [jobs EXCEPT ![n] = [NoJob EXCEPT !.phase = p]]
       /\ node' = CASE n = Cleanup /\ p = "succeeded" -> "clean"
                    [] n # Cleanup /\ p = "succeeded" /\ ReadCurrent(n) -> "current"
                    [] n # Cleanup /\ node = "clean" /\ ~(p = "succeeded" /\ ReadCurrent(n))
                         -> "old"
                    [] OTHER -> node
  /\ NotifyJob
  /\ UNCHANGED <<crVars, timers, actorVars, counts>>

(* The time to live of a finished Job is over. It is minutes long: nothing *)
(* is under way, and the poll of poll mode has found the Job. Its pods go  *)
(* first, with an update of the Job.                                       *)
Quiet == crEvents = << >> /\ jobEvents = "none" /\ \A a \in Actors : pc[a] = JobDone(a)
TTLExpired(n) ==
  /\ Ended(n)
  /\ Quiet
  /\ Mode = "poll" => \A j \in Listed : ~News(j)
  /\ jobs' = [jobs EXCEPT ![n] = NoJob]
  /\ IF Mode = "poll" THEN UNCHANGED <<pc, seen>>
     ELSE /\ pc' = [pc EXCEPT !["J"] = "next"]
          /\ seen' = [seen EXCEPT !["J"] = Listed]
  /\ UNCHANGED <<crVars, node, jobEvents, timers, fresh, job, counts>>
-----------------------------------------------------------------------------
Reconcile(a) == \/ ReconcileGone(a) \/ ReconcileError(a) \/ ReconcileMismatch(a)
                \/ ReconcileSkip(a) \/ ReconcileGet(a) \/ MarkInProgress(a)
                \/ JobExists(a) \/ JobMissing(a) \/ CreateRefused(a)
                \/ CreateAgentJob(a) \/ DeleteStaleJobs(a)
ProcessJobs(a) == \/ ListJobs(a) \/ ListError(a) \/ ListDone(a) \/ SkipJob(a) \/ TakeJob(a)
                  \/ RecordResult(a) \/ DropJob(a)

CRHandler == \/ handleCR \/ handleCRDelete \/ LaunchCleanupJob \/ CleanupJobError
             \/ Reconcile("C")
JobHandler == TakeJobEvent \/ ProcessJobs("J")
MainPass == \/ ProcessAll \/ Reconcile("M") \/ ReadInterfaceStates
            \/ InterfaceStatesError \/ updateInterfaceStates \/ ProcessJobs("M")
Agent(n) == AgentStart(n) \/ AgentFinish(n)
User == CreateCR \/ UpdateSpec \/ DeleteCR \/ NodeChanges

Next == \/ CRHandler \/ JobHandler \/ MainPass \/ User \/ Restart
        \/ \E n \in JobNames : Agent(n) \/ DelayedDeletion(n) \/ TTLExpired(n)

(* The goroutines of the controller are scheduled, the ticker ticks, and   *)
(* every pod is started and comes to an end. Nothing is assumed of users.  *)
Fairness == /\ WF_vars(CRHandler) /\ WF_vars(JobHandler) /\ WF_vars(MainPass)
            /\ \A n \in JobNames : WF_vars(Agent(n))

Spec == Init /\ [][Next]_vars
FairSpec == Spec /\ Fairness
-----------------------------------------------------------------------------
(* Properties                                                              *)

(* Every variable keeps its type.                                          *)
States == {"", "InProgress", "Configured", "Failed"}
CRs == [uid : 0 .. MaxInc, gen : 0 .. MaxGen, st : States, obs : 0 .. MaxGen]
Phases == {"none", "created", "running"} \cup Finished
TypeOK ==
  /\ cr \in CRs
  /\ inc \in 0 .. MaxInc
  /\ jobs \in [JobNames -> [phase : Phases, uid : 0 .. MaxInc, gen : 0 .. MaxGen]]
  /\ node \in {"clean", "old", "current"}
  /\ crEvents \in Seq({"changed", "deleted"})
  /\ jobEvents \in {"none", "pending"}
  /\ timers \subseteq JobNames
  /\ pc \in [Actors -> {"idle", "start", "get", "write", "check", "create", "stale", "gone",
                        "ifget", "ifwrite", "list", "next", "record", "drop"}]
  /\ fresh \subseteq Actors
  /\ job \in [Actors -> [name : JobNames, result : States]]
  /\ seen \in [Actors -> SUBSET [name : JobNames \ {Cleanup}, phase : Finished]]
  /\ deletion \in Deletions
  /\ restarts \in Nat /\ errors \in Nat /\ restarts + errors <= MaxFaults
  /\ mapped \in BOOLEAN

(* The generation a CR reports as observed never goes back, and is never   *)
(* one the user has not written: a Reconcile on an old copy, by another    *)
(* goroutine or before a restart, cannot undo a newer one                  *)
(* (reconciler.go:103-105,567-576).                                        *)
ObservedMonotone ==
  [][cr'.uid = cr.uid => cr'.obs >= cr.obs /\ cr'.obs <= cr'.gen]_vars

(* A node that was reported Configured or Failed is not reopened while its *)
(* spec stays the same: a Reconcile that began before the result was       *)
(* written does not put the CR back to InProgress (reconciler.go:53-57).   *)
FinalStateKept ==
  [][cr'.uid = cr.uid /\ cr'.gen = cr.gen /\ Final(cr) /\ cr.obs = cr.gen
       => cr'.st # "InProgress"]_vars

(* In poll mode a CR that reports Configured for its current spec is       *)
(* right: some agent has applied that spec completely, whatever happened   *)
(* to the Jobs of earlier specs and to the spec while the pass was under   *)
(* way. Not so once the controller was restarted in the middle of a pass,  *)
(* the CR was created again, an API call failed or deletions are delayed:  *)
(* the Job of an older spec may then still be there, or a Job without its  *)
(* report (reconciler.go:126-132,193-328).                                 *)
ReportedRight == cr.st = "Configured" /\ cr.obs = cr.gen => node = "current"
ConfiguredMeansApplied ==
  deletion = "now" /\ restarts = 0 /\ errors = 0 /\ inc = 1 => ReportedRight

(* When all Jobs have ended and all notifications are handled, a CR that   *)
(* reports Configured for its current spec is right. The Job names carry   *)
(* the generation "to avoid collisions with stale jobs"                    *)
(* (reconciler.go:85).                                                     *)
JobsEnded == \A n \in JobNames : jobs[n].phase \notin {"created", "running"}
SettledMeansApplied == Quiet /\ JobsEnded => ReportedRight

(* Every spec is noticed: when all notifications are handled, the CR of a  *)
(* node that is there reports its latest generation as observed, although  *)
(* any status write on the way may have been refused because another       *)
(* goroutine or the user had written meanwhile, and although the           *)
(* controller was restarted. Not so once a call failed or the Node         *)
(* changed: the notification is then used up                               *)
(* (reconciler.go:49-57,70-81,103-113; watcher.go:46-58).                  *)
SpecNoticed == cr.uid # 0 /\ mapped /\ Quiet /\ errors = 0 => cr.obs = cr.gen

(* Why these hold. An actor about to mark the CR whose copy is the latest  *)
(* has read the current generation, and one that still needs a Job; what   *)
(* an actor has to record is a result (reconciler.go:49-57,85-113).        *)
FreshInv ==
  \A a \in Actors :
    /\ pc[a] = "write" /\ a \in fresh => job[a].name = cr.gen /\ NeedsJob(cr)
    /\ pc[a] = "record" => job[a].result \in {"Configured", "Failed"}

(* No generation is observed before the user has written it.               *)
ObservedInv == cr.obs <= cr.gen

(* In watch mode a spec that was not observed yet has a notification       *)
(* waiting, or its handler has not read the CR yet, or has read it as it   *)
(* is now (watcher.go:46-58).                                              *)
Noticed == \/ \E i \in DOMAIN crEvents : crEvents[i] = "changed"
           \/ pc["C"] = "get"
           \/ pc["C"] = "write" /\ "C" \in fresh
NoticeInv ==
  Mode = "watch" /\ errors = 0 /\ mapped /\ cr.uid # 0 /\ cr.obs # cr.gen => Noticed

(* The inductive invariant: the types and the three facts above.           *)
ControllerInv == TypeOK /\ FreshInv /\ ObservedInv /\ NoticeInv

(* In poll mode every spec comes to a result: once the user leaves the CR  *)
(* alone, and there is a Node with the UUID the CR gives, the CR reports   *)
(* Configured or Failed for the latest generation and is not reopened,     *)
(* also when API calls failed, status writes were refused, the Node was    *)
(* missing for a while and the controller exited on the way. Which of the  *)
(* two it reports may still change while a Job is there. With a Node that  *)
(* stays missing or another one nothing is promised: every pass ends the   *)
(* controller (reconciler.go:70-81,156-158; service.go:23-36).             *)
SpecSettles == <>[](mapped /\ cr.uid # 0 => Final(cr) /\ cr.obs = cr.gen)
=============================================================================
