--------------------------- MODULE PollModeProofs ---------------------------
(***************************************************************************)
(* In poll mode, while nothing fails and the CR is not created again, a    *)
(* CR that says Configured for its current spec is right. The Jobs are     *)
(* those of one goroutine there, and what an older spec has left is gone   *)
(* before the results are looked at.                                       *)
(***************************************************************************)
EXTENDS NodeControllerProofs

(* No call has failed, Jobs are deleted at once, and the CR is the first.  *)
Undisturbed == deletion = "now" /\ restarts = 0 /\ errors = 0 /\ inc <= 1

mpc == pc["M"]
mjob == job["M"]

(* There are no informers, so there is nobody but the main goroutine, and  *)
(* no Job of a cleanup (service.go:23-36); generations begin with 1.       *)
MainOnly ==
  /\ crEvents = << >> /\ jobEvents = "none"
  /\ pc["C"] = "idle" /\ pc["J"] = "idle"
  /\ ~Exists(Cleanup)
  /\ cr.uid # 0 => cr.gen # Cleanup
  /\ mpc \in {"write", "check", "create", "stale"} => mjob.name # Cleanup

(* Before the CR is created there are no Jobs.                             *)
Beginning ==
  inc = 0 => /\ cr.uid = 0 /\ mpc \in {"start", "list", "next"}
             /\ \A n \in JobNames : ~Exists(n)

(* Outside of the deletion of stale Jobs there is at most one Job          *)
(* (reconciler.go:115-132).                                                *)
OneJob == mpc # "stale" => \A n, k \in JobNames : Exists(n) /\ Exists(k) => n = k

(* The Job that Reconcile works on has the generation that was read; while *)
(* the CR waits to be marked with an outdated copy, its spec is a newer    *)
(* one (reconciler.go:85-113).                                             *)
Reconciling ==
  /\ mpc = "write" => mjob.result = "InProgress"
  /\ mpc = "write" /\ "M" \notin fresh /\ cr.uid # 0 => cr.obs # cr.gen

(* Jobs that ProcessJobs has listed are still there as it has seen them,   *)
(* and a result to be written is that of a Job (reconciler.go:193-328).    *)
Recording ==
  /\ mpc \in {"next", "record", "drop"} =>
       \A j \in seen["M"] : /\ jobs[j.name].phase = j.phase
                            /\ mpc # "next" => j.name # mjob.name
  /\ mpc = "record" /\ mjob.result = "Configured" => jobs[mjob.name].phase = "succeeded"
  /\ mpc = "record" /\ "M" \in fresh => cr.uid # 0

(* No Job has a generation the user has not written. Once the current one  *)
(* was observed, its Job is the one being created, or the only one.        *)
JobsOfSpec ==
  cr.uid # 0 =>
    /\ \A n \in JobNames : Exists(n) => n <= cr.gen
    /\ mpc \in {"write", "check", "create", "stale"} => mjob.name <= cr.gen
    /\ cr.obs = cr.gen =>
         IF mpc \in {"check", "create", "stale"} THEN mjob.name = cr.gen
         ELSE \A n \in JobNames : Exists(n) => n = cr.gen

(* The Job of the current generation has read the current spec, however    *)
(* late its agent started, and has applied it when it succeeded.           *)
JobApplies ==
  cr.uid # 0 =>
    /\ jobs[cr.gen].phase = "running" => ReadCurrent(cr.gen)
    /\ jobs[cr.gen].phase = "succeeded" => node = "current"

PollFacts ==
  timers = {} /\ Beginning /\ OneJob /\ Reconciling /\ Recording /\ JobsOfSpec /\ JobApplies
PollInv == MainOnly /\ (Undisturbed => PollFacts /\ ReportedRight)
-----------------------------------------------------------------------------
(* What every lemma about a step begins with.                              *)
Calm == /\ Mode = "poll" /\ ControllerInv /\ MainOnly
        /\ Undisturbed /\ PollFacts /\ ReportedRight

(* Where the main goroutine was and is, and what else a step of it leaves. *)
LEMMA MainMoves ==
  ASSUME TypeOK, NEW from, NEW to, Step("M", from, to)
  PROVE  mpc = from /\ mpc' = to /\ pc'["C"] = pc["C"] /\ pc'["J"] = pc["J"]
  BY DEF TypeOK, Step, mpc, Actors

(* Without a failing call and a restart the past was undisturbed as well.  *)
LEMMA NoError ==
  ASSUME TypeOK, Undisturbed', ApiError PROVE FALSE
  BY ErrorCounted DEF Undisturbed

(* Without a CR the pass starts again.                                     *)
LEMMA ReconcileGoneCalm ==
  ASSUME Calm, Undisturbed', ReconcileGone("M")
  PROVE  PollFacts' /\ ReportedRight'
<1> USE DEF Calm, ControllerInv, PollFacts, ReconcileGone, Fail, Exits, crVars, jobVars, counts
<1>1. mpc = "get" /\ mpc' = "start"
  BY MainMoves DEF Error
<1>2. UNCHANGED <<cr, inc, node, timers>>
  OBVIOUS
<1> QED BY <1>1, <1>2 DEF mjob, Beginning, OneJob, Reconciling, Recording, JobsOfSpec,
                          JobApplies, ReportedRight, Exists, ReadCurrent, TypeOK, Actors

(* Without its Node the controller exits, and the pass starts again.       *)
LEMMA ReconcileMismatchCalm ==
  ASSUME Calm, Undisturbed', ReconcileMismatch("M")
  PROVE  PollFacts' /\ ReportedRight'
<1> USE DEF Calm, ControllerInv, PollFacts, ReconcileMismatch, Fail, Exits, crVars, counts
<1>1. mpc = "get" /\ mpc' = "start"
  BY MainMoves DEF Error
<1>2. UNCHANGED <<cr, inc, node, jobs, timers>>
  OBVIOUS
<1>3. Beginning'
  BY <1>1, <1>2 DEF Beginning, Exists
<1> QED BY <1>1, <1>2, <1>3 DEF mjob, OneJob, Reconciling, Recording, JobsOfSpec,
                                JobApplies, ReportedRight, Exists, ReadCurrent, TypeOK, Actors

(* A CR that has its result is left alone.                                 *)
LEMMA ReconcileSkipCalm ==
  ASSUME Calm, Undisturbed', ReconcileSkip("M")
  PROVE  PollFacts' /\ ReportedRight'
<1> USE DEF Calm, ControllerInv, PollFacts, ReconcileSkip, crVars, jobVars, counts
<1>1. mpc = "get" /\ mpc' = "ifget"
  BY MainMoves DEF Return
<1>2. UNCHANGED <<cr, inc, node, timers>>
  OBVIOUS
<1> QED BY <1>1, <1>2 DEF mjob, Beginning, OneJob, Reconciling, Recording, JobsOfSpec,
                          JobApplies, ReportedRight, Exists, ReadCurrent, TypeOK, Actors

(* The generation that is read names the Job.                              *)
LEMMA ReconcileGetCalm ==
  ASSUME Calm, Undisturbed', ReconcileGet("M")
  PROVE  PollFacts' /\ ReportedRight'
<1> USE DEF Calm, ControllerInv, PollFacts, ReconcileGet, crVars, jobVars, counts
<1>1. mpc = "get" /\ mpc' = "write"
  BY MainMoves
<1>2. UNCHANGED <<cr, inc, node, jobs, timers>>
  OBVIOUS
<1>3. mjob' = [name |-> cr.gen, result |-> "InProgress"] /\ "M" \in fresh'
  BY DEF TypeOK, Actors, mjob, LoadCR
<1>4. cr.uid # 0 /\ cr.gen \in Nat
  BY DEF TypeOK, CRs
<1>5. Reconciling' /\ Recording'
  BY <1>1, <1>3, <1>4 DEF Reconciling, Recording
<1>6. JobsOfSpec'
  BY <1>1, <1>2, <1>3, <1>4 DEF JobsOfSpec, Exists
<1> QED BY <1>1, <1>2, <1>5, <1>6
        DEF Beginning, OneJob, JobApplies, ReportedRight, Exists, ReadCurrent

(* The Job is not there yet.                                               *)
LEMMA JobMissingCalm ==
  ASSUME Calm, Undisturbed', JobMissing("M")
  PROVE  PollFacts' /\ ReportedRight'
<1> USE DEF Calm, ControllerInv, PollFacts, JobMissing, crVars, jobVars, counts
<1>1. mpc = "check" /\ mpc' = "create"
  BY MainMoves DEF Step
<1>2. UNCHANGED <<cr, inc, node, timers>>
  OBVIOUS
<1> QED BY <1>1, <1>2 DEF mjob, Beginning, OneJob, Reconciling, Recording, JobsOfSpec,
                          JobApplies, ReportedRight, Exists, ReadCurrent, TypeOK, Actors

(* A Job that is there already is the only one.                            *)
LEMMA JobExistsCalm ==
  ASSUME Calm, Undisturbed', JobExists("M")
  PROVE  PollFacts' /\ ReportedRight'
<1> USE DEF Calm, ControllerInv, PollFacts, JobExists, crVars, jobVars, counts
<1>1. mpc = "check" /\ mpc' = "ifget"
  BY MainMoves DEF Return
<1>2. UNCHANGED <<cr, inc, node, timers>>
  OBVIOUS
<1> QED BY <1>1, <1>2 DEF mjob, Beginning, OneJob, Reconciling, Recording, JobsOfSpec,
                          JobApplies, ReportedRight, Exists, ReadCurrent, TypeOK, Actors

(* So is one that came to be there since it was looked up.                 *)
LEMMA CreateRefusedCalm ==
  ASSUME Calm, Undisturbed', CreateRefused("M")
  PROVE  PollFacts' /\ ReportedRight'
<1> USE DEF Calm, ControllerInv, PollFacts, CreateRefused, Fail, Exits, crVars, counts
<1>1. mpc = "create" /\ mpc' = "start"
  BY MainMoves DEF Error
<1>2. UNCHANGED <<cr, inc, node, jobs, timers>>
  OBVIOUS
<1>3. Beginning'
  BY <1>1, <1>2 DEF Beginning, Exists
<1> QED BY <1>1, <1>2, <1>3 DEF mjob, OneJob, Reconciling, Recording, JobsOfSpec,
                                JobApplies, ReportedRight, Exists, ReadCurrent, TypeOK, Actors

(* The new Job is there next to that of an older generation.               *)
LEMMA CreateAgentJobCalm ==
  ASSUME Calm, Undisturbed', CreateAgentJob("M")
  PROVE  PollFacts' /\ ReportedRight'
<1> USE DEF Calm, ControllerInv, PollFacts, CreateAgentJob, crVars, jobVars, counts
<1>1. mpc = "create" /\ mpc' = "stale"
  BY MainMoves
<1>2. UNCHANGED <<cr, inc, node, timers>> /\ mjob' = mjob
  BY DEF mjob
<1>3. /\ mjob.name \in JobNames /\ jobs'[mjob.name].phase = "created"
      /\ \A n \in JobNames : n # mjob.name => jobs'[n] = jobs[n]
  BY DEF TypeOK, Actors, mjob, CreateJob, NoJob
<1>4. inc # 0
  BY <1>1 DEF Beginning
<1>5. Reconciling' /\ Recording' /\ OneJob' /\ Beginning'
  BY <1>1, <1>2, <1>4 DEF Reconciling, Recording, OneJob, Beginning
<1>6. JobsOfSpec'
  BY <1>1, <1>2, <1>3 DEF JobsOfSpec, Exists
<1>7. cr.uid # 0 => cr.gen \in JobNames
  BY DEF TypeOK, CRs, JobNames
<1>8. JobApplies' /\ ReportedRight'
  BY <1>2, <1>3, <1>7 DEF JobApplies, ReportedRight, ReadCurrent
<1> QED BY <1>2, <1>5, <1>6, <1>8

(* The list says what the Jobs are.                                        *)
LEMMA ListJobsCalm ==
  ASSUME Calm, Undisturbed', ListJobs("M")
  PROVE  PollFacts' /\ ReportedRight'
<1> USE DEF Calm, ControllerInv, PollFacts, ListJobs, crVars, jobVars, counts
<1>1. mpc = "list" /\ mpc' = "next"
  BY MainMoves
<1>2. UNCHANGED <<cr, inc, node, jobs, timers, fresh>> /\ mjob' = mjob
  BY DEF mjob
<1>3. \A j \in seen'["M"] : jobs[j.name].phase = j.phase
  BY DEF TypeOK, Actors, Listed
<1>4. Recording'
  BY <1>1, <1>2, <1>3 DEF Recording
<1> QED BY <1>1, <1>2, <1>4
        DEF Beginning, OneJob, Reconciling, JobsOfSpec, JobApplies, ReportedRight, Exists,
            ReadCurrent

(* All listed Jobs were looked at.                                         *)
LEMMA ListDoneCalm ==
  ASSUME Calm, Undisturbed', ListDone("M")
  PROVE  PollFacts' /\ ReportedRight'
<1> USE DEF Calm, ControllerInv, PollFacts, ListDone, crVars, jobVars, counts
<1>1. mpc = "next" /\ mpc' = "start"
  BY MainMoves DEF JobDone
<1>2. UNCHANGED <<cr, inc, node, timers>>
  OBVIOUS
<1> QED BY <1>1, <1>2 DEF mjob, Beginning, OneJob, Reconciling, Recording, JobsOfSpec,
                          JobApplies, ReportedRight, Exists, ReadCurrent, TypeOK, Actors

(* A pass begins.                                                          *)
LEMMA ProcessAllCalm ==
  ASSUME Calm, Undisturbed', ProcessAll
  PROVE  PollFacts' /\ ReportedRight'
<1> USE DEF Calm, ControllerInv, PollFacts, ProcessAll, crVars, jobVars, counts
<1>1. mpc = "start" /\ mpc' = (IF cr.uid = 0 THEN "list" ELSE "get")
  <2>1. Step("M", "start", IF cr.uid = 0 THEN "list" ELSE "get") /\ TypeOK
    OBVIOUS
  <2> QED BY <2>1, MainMoves
<1>2. UNCHANGED <<cr, inc, node, timers>>
  OBVIOUS
<1> QED BY <1>1, <1>2 DEF mjob, Beginning, OneJob, Reconciling, Recording, JobsOfSpec,
                          JobApplies, ReportedRight, Exists, ReadCurrent, TypeOK, Actors

(* The CR is read for the list of its interfaces.                          *)
LEMMA ReadInterfaceStatesCalm ==
  ASSUME Calm, Undisturbed', ReadInterfaceStates
  PROVE  PollFacts' /\ ReportedRight'
<1> USE DEF Calm, ControllerInv, PollFacts, ReadInterfaceStates, crVars, jobVars, counts
<1>1. mpc = "ifget" /\ mpc' = "ifwrite"
  BY MainMoves DEF LoadCR
<1>2. UNCHANGED <<cr, inc, node, timers>>
  OBVIOUS
<1> QED BY <1>1, <1>2 DEF mjob, Beginning, OneJob, Reconciling, Recording, JobsOfSpec,
                          JobApplies, ReportedRight, Exists, ReadCurrent, TypeOK, Actors

(* The CR is gone by then.                                                 *)
LEMMA InterfaceStatesErrorCalm ==
  ASSUME Calm, Undisturbed', InterfaceStatesError
  PROVE  PollFacts' /\ ReportedRight'
<1> USE DEF Calm, ControllerInv, PollFacts, InterfaceStatesError, crVars, jobVars, counts
<1>1. mpc = "ifget" /\ mpc' = "list"
  BY MainMoves DEF Step
<1>2. UNCHANGED <<cr, inc, node, timers>>
  OBVIOUS
<1> QED BY <1>1, <1>2 DEF mjob, Beginning, OneJob, Reconciling, Recording, JobsOfSpec,
                          JobApplies, ReportedRight, Exists, ReadCurrent, TypeOK, Actors

(* Without a failing call every Job that is to go goes.                    *)
LEMMA DeletedNow ==
  ASSUME TypeOK, Undisturbed', NEW S, scheduleJobDeletion(S)
  PROVE  /\ timers' = timers
         /\ jobs' = [n \in JobNames |-> IF n \in S THEN NoJob ELSE jobs[n]]
<1>1. ~ApiError
  BY NoError
<1>2. deletion = "now"
  BY <1>1 DEF scheduleJobDeletion, Undisturbed, counts
<1>3. PICK kept \in SUBSET S :
        /\ jobs' = [n \in JobNames |-> IF n \in S \ kept THEN NoJob ELSE jobs[n]]
        /\ IF kept = {} THEN UNCHANGED counts ELSE ApiError
  BY <1>2 DEF scheduleJobDeletion
<1>4. kept = {}
  BY <1>1, <1>3
<1> QED BY <1>2, <1>3, <1>4 DEF scheduleJobDeletion

(* The Jobs of other generations go, and what is left is the new one.      *)
LEMMA DeleteStaleJobsCalm ==
  ASSUME Calm, Undisturbed', DeleteStaleJobs("M")
  PROVE  PollFacts' /\ ReportedRight'
<1> USE DEF Calm, ControllerInv, PollFacts, DeleteStaleJobs, crVars
<1> DEFINE S == {n \in JobNames : Exists(n) /\ n # job["M"].name}
<1>1. mpc = "stale" /\ mpc' = "ifget"
  BY MainMoves DEF Return
<1>2. UNCHANGED <<cr, inc, node>>
  OBVIOUS
<1>3. /\ timers' = timers
      /\ jobs' = [n \in JobNames |-> IF n \in S THEN NoJob ELSE jobs[n]]
  <2>1. scheduleJobDeletion(S)
    BY NoError
  <2> QED BY <2>1, DeletedNow
<1>4. \A n \in JobNames : /\ jobs'[n] = jobs[n] \/ jobs'[n] = NoJob
                          /\ jobs'[n].phase # "none" => n = mjob.name /\ Exists(n)
  BY <1>3 DEF Exists, mjob, NoJob
<1>5. inc # 0
  BY <1>1 DEF Beginning
<1> HIDE DEF DeleteStaleJobs
<1>6. Reconciling' /\ Recording' /\ OneJob' /\ Beginning'
  BY <1>1, <1>2, <1>4, <1>5 DEF Reconciling, Recording, OneJob, Beginning, Exists
<1>7. JobsOfSpec'
  BY <1>1, <1>2, <1>4 DEF JobsOfSpec, Exists
<1>8. JobApplies' /\ ReportedRight'
  <2>1. cr.gen \in JobNames
    BY DEF TypeOK, CRs, JobNames
  <2> QED BY <1>2, <1>4, <2>1 DEF JobApplies, ReportedRight, ReadCurrent, NoJob
<1> QED BY <1>3, <1>6, <1>7, <1>8

(* A Job that is skipped stays as it is.                                   *)
LEMMA SkipJobCalm ==
  ASSUME Calm, Undisturbed', SkipJob("M")
  PROVE  PollFacts' /\ ReportedRight'
<1> USE DEF Calm, ControllerInv, PollFacts, SkipJob, crVars, jobVars, counts
<1>1. mpc = "next" /\ mpc' = "next" /\ mjob' = mjob
  BY DEF mpc, mjob
<1>2. UNCHANGED <<cr, inc, node, jobs, timers, fresh>>
  OBVIOUS
<1>3. seen'["M"] \subseteq seen["M"]
  BY DEF TypeOK, Actors
<1>4. Recording'
  BY <1>1, <1>2, <1>3 DEF Recording
<1> QED BY <1>1, <1>2, <1>4
        DEF Beginning, OneJob, Reconciling, JobsOfSpec, JobApplies, ReportedRight, Exists,
            ReadCurrent

(* The result that is taken from a Job without a failing call is its own.  *)
LEMMA TakeJobCalm ==
  ASSUME Calm, Undisturbed', TakeJob("M")
  PROVE  PollFacts' /\ ReportedRight'
<1> USE DEF Calm, ControllerInv, PollFacts, TakeJob, crVars, jobVars
<1>1. mpc = "next" /\ mpc' = "record"
  BY MainMoves
<1>2. UNCHANGED <<cr, inc, node, jobs, timers>>
  OBVIOUS
<1>3. ~ApiError
  BY NoError
<1>4. PICK j \in seen["M"] :
        /\ seen'["M"] = seen["M"] \ {j}
        /\ mjob' = [name |-> j.name, result |-> Result(j)]
        /\ News(j)
  BY <1>3 DEF TypeOK, Actors, mjob
<1>5. /\ seen["M"] \subseteq [name : JobNames \ {Cleanup}, phase : Finished]
      /\ \A i \in seen["M"] : jobs[i.name].phase = i.phase
  BY <1>1 DEF TypeOK, Actors, Recording
<1>6. \A i \in seen'["M"] : i.name # j.name
  BY <1>4, <1>5
<1>7. Result(j) = "Configured" => jobs[j.name].phase = "succeeded"
  BY <1>5 DEF Result, getJobTerminationMessage, Finished
<1>8. Recording'
  BY <1>1, <1>2, <1>4, <1>5, <1>6, <1>7 DEF Recording, News
<1>9. inc # 0
  BY <1>4 DEF News, Beginning
<1> QED BY <1>1, <1>2, <1>8, <1>9
        DEF Beginning, OneJob, Reconciling, JobsOfSpec, JobApplies, ReportedRight, Exists,
            ReadCurrent

(* The Job whose result was written goes, and those still to be looked at  *)
(* stay.                                                                   *)
LEMMA DropJobCalm ==
  ASSUME Calm, Undisturbed', DropJob("M")
  PROVE  PollFacts' /\ ReportedRight'
<1> USE DEF Calm, ControllerInv, PollFacts, DropJob, crVars
<1>1. mpc = "drop" /\ mpc' = "next"
  BY MainMoves
<1>2. UNCHANGED <<cr, inc, node, seen>>
  OBVIOUS
<1>3. /\ timers' = timers
      /\ jobs' = [n \in JobNames |-> IF n \in {mjob.name} THEN NoJob ELSE jobs[n]]
  BY DeletedNow DEF mjob
<1>4. \A n \in JobNames : /\ jobs'[n] = jobs[n] \/ jobs'[n] = NoJob
                          /\ jobs'[n].phase # "none" => Exists(n)
                          /\ n # mjob.name => jobs'[n] = jobs[n]
  BY <1>3 DEF Exists, NoJob
<1>5. inc # 0
  BY <1>1 DEF Beginning
<1>6. seen["M"] \subseteq [name : JobNames \ {Cleanup}, phase : Finished]
  BY DEF TypeOK, Actors
<1> HIDE DEF DropJob
<1>7. Recording'
  BY <1>1, <1>2, <1>4, <1>6 DEF Recording
<1>8. Reconciling' /\ OneJob' /\ Beginning'
  BY <1>1, <1>2, <1>4, <1>5 DEF Reconciling, OneJob, Beginning, Exists
<1>9. JobsOfSpec'
  BY <1>1, <1>2, <1>4 DEF JobsOfSpec, Exists
<1>10. JobApplies' /\ ReportedRight'
  <2>1. cr.gen \in JobNames
    BY DEF TypeOK, CRs, JobNames
  <2> QED BY <1>2, <1>4, <2>1 DEF JobApplies, ReportedRight, ReadCurrent, NoJob
<1> QED BY <1>3, <1>7, <1>8, <1>9, <1>10

(* What a write of the status, accepted or not, does without a failing     *)
(* call: a refused one has an outdated copy or nothing to say.             *)
LEMMA MainWrites ==
  ASSUME Calm, Undisturbed', NEW st, NEW obs, updateCRStatus("M", st, obs)
  PROVE  \/ /\ "M" \in fresh /\ cr'.uid = cr.uid /\ cr'.gen = cr.gen /\ cr'.st = st /\ cr'.obs = obs
         \/ cr' = cr /\ "M" \notin fresh
         \/ cr' = cr /\ cr.st = st /\ cr.obs = obs
<1> DEFINE new == [cr EXCEPT !.st = st, !.obs = obs]
<1>1. TypeOK
  BY DEF Calm, ControllerInv
<1>2. new.uid = cr.uid /\ new.gen = cr.gen /\ new.st = st /\ new.obs = obs
  BY <1>1 DEF TypeOK, CRs
<1>3. ~ApiError
  BY <1>1, NoError
<1>4. ("M" \in fresh /\ cr' = new) \/ (cr' = cr /\ ("M" \notin fresh \/ new = cr))
  BY <1>3 DEF updateCRStatus, StoreCR
<1> QED BY <1>2, <1>4

(* The CR is marked InProgress, or its spec has changed since it was read. *)
LEMMA MarkInProgressCalm ==
  ASSUME Calm, Undisturbed', MarkInProgress("M")
  PROVE  PollFacts' /\ ReportedRight'
<1> USE DEF Calm, ControllerInv, PollFacts, MarkInProgress, jobVars
<1>1. mpc = "write" /\ mpc' = "check"
  BY MainMoves
<1>2. UNCHANGED <<inc, node, jobs, timers>> /\ mjob' = mjob
  BY DEF mjob
<1>3. "M" \in fresh => mjob.name = cr.gen
  BY <1>1 DEF FreshInv, Actors, mpc, mjob
<1>4. mjob.result = "InProgress"
  BY <1>1 DEF Reconciling
<1>5. /\ cr'.uid = cr.uid /\ cr'.gen = cr.gen
      /\ cr' = cr \/ cr'.st = "InProgress"
      /\ cr.uid # 0 /\ cr'.obs = cr.gen => mjob.name = cr.gen
  <2>1. updateCRStatus("M", mjob.result, mjob.name)
    BY DEF mjob
  <2>2. "M" \notin fresh /\ cr.uid # 0 => cr.obs # cr.gen
    BY <1>1 DEF Reconciling
  <2> HIDE DEF Calm, ControllerInv, PollFacts, MarkInProgress
  <2> QED BY <1>3, <1>4, <2>1, <2>2, MainWrites
<1>6. inc # 0
  BY <1>1 DEF Beginning
<1>7. Recording' /\ Reconciling' /\ OneJob' /\ Beginning'
  BY <1>1, <1>2, <1>4, <1>6 DEF Recording, Reconciling, OneJob, Beginning, Exists
<1>8. JobsOfSpec'
  BY <1>1, <1>2, <1>5 DEF JobsOfSpec, Exists
<1>9. JobApplies' /\ ReportedRight'
  BY <1>2, <1>5 DEF JobApplies, ReportedRight, ReadCurrent
<1> QED BY <1>2, <1>7, <1>8, <1>9

(* A result Configured is that of the Job of the current spec, or its spec *)
(* is not the one that was observed.                                       *)
LEMMA RecordResultCalm ==
  ASSUME Calm, Undisturbed', RecordResult("M")
  PROVE  PollFacts' /\ ReportedRight'
<1> USE DEF Calm, ControllerInv, PollFacts, RecordResult, jobVars
<1>1. mpc = "record" /\ mpc' = "drop"
  BY MainMoves
<1>2. UNCHANGED <<inc, node, jobs, timers, seen>> /\ mjob' = mjob
  BY DEF mjob
<1>3. mjob.name \in JobNames
  BY DEF TypeOK, Actors, mjob
<1>4. /\ cr'.uid = cr.uid /\ cr'.gen = cr.gen /\ cr'.obs = cr.obs
      /\ cr' = cr \/ (cr'.st = mjob.result /\ "M" \in fresh)
  <2>1. updateCRStatus("M", mjob.result, cr.obs)
    BY DEF mjob
  <2> HIDE DEF Calm, ControllerInv, PollFacts, RecordResult
  <2> QED BY <2>1, MainWrites
<1>5. inc # 0
  BY <1>1 DEF Beginning
<1>6. Recording' /\ Reconciling' /\ OneJob' /\ Beginning'
  BY <1>1, <1>2, <1>5 DEF Recording, Reconciling, OneJob, Beginning, Exists
<1>7. JobsOfSpec'
  BY <1>1, <1>2, <1>4 DEF JobsOfSpec, Exists
<1>8. JobApplies'
  BY <1>2, <1>4 DEF JobApplies, ReadCurrent
<1>9. ReportedRight'
  <2> SUFFICES ASSUME mjob.result = "Configured", cr.obs = cr.gen, "M" \in fresh
               PROVE  node = "current"
    BY <1>2, <1>4 DEF ReportedRight
  <2>1. jobs[mjob.name].phase = "succeeded"
    BY <1>1 DEF Recording
  <2>2. mjob.name = cr.gen
    BY <1>1, <1>3, <2>1 DEF JobsOfSpec, Exists, Recording
  <2> QED BY <1>1, <2>1, <2>2 DEF JobApplies, Recording
<1> QED BY <1>2, <1>6, <1>7, <1>8, <1>9

(* The status is written back as it was read.                              *)
LEMMA UpdateInterfaceStatesCalm ==
  ASSUME Calm, Undisturbed', updateInterfaceStates
  PROVE  PollFacts' /\ ReportedRight'
<1> USE DEF Calm, ControllerInv, PollFacts, updateInterfaceStates, jobVars
<1>1. mpc = "ifwrite" /\ mpc' = "list"
  BY MainMoves
<1>2. UNCHANGED <<inc, node, jobs, timers>>
  OBVIOUS
<1>3. cr'.uid = cr.uid /\ cr'.gen = cr.gen /\ cr'.obs = cr.obs /\ cr'.st = cr.st
  <2>1. updateCRStatus("M", cr.st, cr.obs)
    OBVIOUS
  <2> HIDE DEF Calm, ControllerInv, PollFacts, updateInterfaceStates
  <2> QED BY <2>1, MainWrites
<1>4. inc # 0
  BY <1>1 DEF Beginning
<1>5. Recording' /\ Reconciling' /\ OneJob' /\ Beginning'
  BY <1>1, <1>2, <1>4 DEF Recording, Reconciling, OneJob, Beginning, Exists
<1>6. JobsOfSpec'
  BY <1>1, <1>2, <1>3 DEF JobsOfSpec, Exists
<1>7. JobApplies' /\ ReportedRight'
  BY <1>2, <1>3 DEF JobApplies, ReportedRight, ReadCurrent
<1> QED BY <1>2, <1>5, <1>6, <1>7

(* What the writes of the user have in common.                             *)
LEMMA UserWrites ==
  ASSUME Calm, NEW c, StoreCR(c), Outdate, UNCHANGED <<jobs, timers, pc, seen, job>>
  PROVE  /\ cr' = c /\ fresh' = {} /\ mpc' = mpc /\ mjob' = mjob
         /\ UNCHANGED <<jobs, timers, seen>>
         /\ node = "current" \/ node' = node
         /\ OneJob' /\ Recording' /\ timers' = {}
<1>1. /\ cr' = c /\ fresh' = {} /\ mpc' = mpc /\ mjob' = mjob
      /\ UNCHANGED <<jobs, timers, seen>>
      /\ node = "current" \/ node' = node
  BY DEF StoreCR, Outdate, mpc, mjob
<1>2. OneJob' /\ Recording' /\ timers' = {}
  BY <1>1 DEF Calm, PollFacts, OneJob, Recording, Exists
<1> QED BY <1>1, <1>2

(* The first CR comes when there are no Jobs; another one is beyond what   *)
(* is claimed.                                                             *)
LEMMA CreateCRCalm ==
  ASSUME Calm, Undisturbed', CreateCR
  PROVE  PollFacts' /\ ReportedRight'
<1> USE DEF Calm, ControllerInv, PollFacts, CreateCR
<1> DEFINE c == [uid |-> inc + 1, gen |-> 1, st |-> "", obs |-> 0]
<1>1. /\ cr' = c /\ fresh' = {} /\ mpc' = mpc /\ mjob' = mjob /\ jobs' = jobs
      /\ OneJob' /\ Recording' /\ timers' = {}
  <2>1. StoreCR(c) /\ Outdate /\ UNCHANGED <<jobs, timers, pc, seen, job>>
    OBVIOUS
  <2> HIDE DEF c, Calm, CreateCR
  <2> QED BY <2>1, UserWrites
<1>2. inc = 0 /\ inc' = 1
  <2>1. inc' = inc + 1
    OBVIOUS
  <2>2. inc' <= 1
    BY DEF Undisturbed
  <2>3. inc \in 0 .. MaxInc
    BY DEF TypeOK
  <2> HIDE DEF Calm, CreateCR
  <2> QED BY <2>1, <2>2, <2>3, ControllerAssumption
<1>3. mpc \in {"start", "list", "next"} /\ \A n \in JobNames : jobs[n].phase = "none"
  BY <1>2 DEF Beginning, Exists
<1>4. cr'.gen = 1 /\ cr'.obs = 0 /\ cr'.st = "" /\ 1 \in JobNames
  <2>1. c.gen = 1 /\ c.obs = 0 /\ c.st = ""
    OBVIOUS
  <2>2. 1 \in JobNames
    <3> HIDE DEF Calm, CreateCR
    <3> QED BY ControllerAssumption DEF JobNames
  <2> QED BY <1>1, <2>1, <2>2
<1> HIDE DEF CreateCR, c
<1>5. Beginning' /\ Reconciling'
  BY <1>1, <1>2, <1>3 DEF Beginning, Reconciling
<1>6. JobsOfSpec'
  BY <1>1, <1>3, <1>4 DEF JobsOfSpec, Exists
<1>7. JobApplies' /\ ReportedRight'
  BY <1>1, <1>3, <1>4 DEF JobApplies, ReportedRight, ReadCurrent
<1> QED BY <1>1, <1>5, <1>6, <1>7

(* A newer spec has not been observed, and has no Job yet.                 *)
LEMMA UpdateSpecCalm ==
  ASSUME Calm, Undisturbed', UpdateSpec
  PROVE  PollFacts' /\ ReportedRight'
<1> USE DEF Calm, ControllerInv, PollFacts, UpdateSpec
<1> DEFINE c == [cr EXCEPT !.gen = @ + 1]
<1>1. /\ cr' = c /\ fresh' = {} /\ mpc' = mpc /\ mjob' = mjob /\ jobs' = jobs
      /\ OneJob' /\ Recording' /\ timers' = {}
  <2>1. StoreCR(c) /\ Outdate /\ UNCHANGED <<jobs, timers, pc, seen, job>>
    OBVIOUS
  <2> HIDE DEF c, Calm, UpdateSpec
  <2> QED BY <2>1, UserWrites
<1>2. /\ cr'.uid = cr.uid /\ cr'.gen = cr.gen + 1 /\ cr'.obs = cr.obs
      /\ cr.gen \in Nat /\ cr.obs \in Nat /\ cr.obs <= cr.gen
      /\ cr.uid # 0 /\ cr.gen + 1 \in JobNames /\ inc' = inc
  <2>1. cr \in CRs /\ cr.obs <= cr.gen /\ cr.uid # 0 /\ cr.gen < MaxGen /\ inc' = inc
    BY DEF TypeOK, ObservedInv
  <2> HIDE DEF Calm, UpdateSpec
  <2>2. cr'.uid = cr.uid /\ cr'.gen = cr.gen + 1 /\ cr'.obs = cr.obs
    BY <1>1, <2>1 DEF CRs
  <2>3. cr.gen \in 0 .. MaxGen /\ cr.obs \in 0 .. MaxGen
    BY <2>1 DEF CRs
  <2> QED BY <2>1, <2>2, <2>3, ControllerAssumption DEF JobNames
<1> HIDE DEF UpdateSpec, c
<1>3. Beginning' /\ Reconciling'
  BY <1>1, <1>2 DEF Beginning, Reconciling
<1>4. /\ \A n \in JobNames : jobs[n].phase # "none" => n <= cr.gen
      /\ mpc \in {"write", "check", "create", "stale"} => mjob.name <= cr.gen
      /\ \A n \in JobNames : n \in Nat
      /\ mjob.name \in Nat
  BY <1>2 DEF JobsOfSpec, Exists, JobNames, TypeOK, Actors, mjob
<1>5. JobsOfSpec'
  BY <1>1, <1>2, <1>4 DEF JobsOfSpec, Exists
<1>6. jobs[cr.gen + 1].phase = "none"
  BY <1>2, <1>4
<1>7. JobApplies' /\ ReportedRight'
  BY <1>1, <1>2, <1>6 DEF JobApplies, ReportedRight
<1> QED BY <1>1, <1>3, <1>5, <1>7

(* Without a CR nothing is claimed.                                        *)
LEMMA DeleteCRCalm ==
  ASSUME Calm, Undisturbed', DeleteCR
  PROVE  PollFacts' /\ ReportedRight'
<1> USE DEF Calm, ControllerInv, PollFacts, DeleteCR
<1>1. /\ cr' = NoCR /\ fresh' = {} /\ mpc' = mpc /\ mjob' = mjob /\ jobs' = jobs
      /\ OneJob' /\ Recording' /\ timers' = {}
  <2>1. StoreCR(NoCR) /\ Outdate /\ UNCHANGED <<jobs, timers, pc, seen, job>>
    OBVIOUS
  <2> HIDE DEF Calm, DeleteCR
  <2> QED BY <2>1, UserWrites
<1>2. cr'.uid = 0 /\ cr'.st = "" /\ inc' = inc
  BY <1>1 DEF NoCR
<1> HIDE DEF DeleteCR
<1>3. Beginning' /\ Reconciling'
  BY <1>1, <1>2 DEF Beginning, Reconciling, Exists
<1> QED BY <1>1, <1>2, <1>3 DEF JobsOfSpec, JobApplies, ReportedRight

(* The agent of the Job of the current generation reads the current spec.  *)
LEMMA AgentStartCalm ==
  ASSUME Calm, Undisturbed', NEW n \in JobNames, AgentStart(n)
  PROVE  PollFacts' /\ ReportedRight'
<1> USE DEF Calm, ControllerInv, PollFacts, AgentStart, crVars, actorVars
<1>1. UNCHANGED <<cr, inc, node, timers, fresh, seen>> /\ mpc' = mpc /\ mjob' = mjob
  BY DEF mpc, mjob
<1>2. /\ jobs[n].phase = "created"
      /\ jobs'[n].phase \in {"failed", "running"}
      /\ jobs'[n].uid = cr.uid /\ jobs'[n].gen = cr.gen
      /\ \A k \in JobNames : k # n => jobs'[k] = jobs[k]
  BY DEF TypeOK
<1> HIDE DEF AgentStart
<1>3. \A k \in JobNames : jobs'[k].phase # "none" <=> jobs[k].phase # "none"
  BY <1>2
<1>4. Beginning' /\ OneJob' /\ Reconciling'
  BY <1>1, <1>3 DEF Beginning, OneJob, Reconciling, Exists
<1>5. JobsOfSpec'
  BY <1>1, <1>3 DEF JobsOfSpec, Exists
<1>6. Recording'
  <2>1. /\ seen["M"] \subseteq [name : JobNames \ {Cleanup}, phase : Finished]
        /\ mjob.name \in JobNames
    BY DEF TypeOK, Actors, mjob
  <2> QED BY <1>1, <1>2, <2>1 DEF Recording, Finished
<1>7. JobApplies' /\ ReportedRight'
  <2>1. cr.gen \in JobNames
    BY DEF TypeOK, CRs, JobNames
  <2> QED BY <1>1, <1>2, <2>1 DEF JobApplies, ReportedRight, ReadCurrent
<1> QED BY <1>1, <1>4, <1>5, <1>6, <1>7

(* The agent of the Job of the current generation applies the current      *)
(* spec; that of another Job does not undo it.                             *)
LEMMA AgentFinishCalm ==
  ASSUME Calm, Undisturbed', NEW n \in JobNames, AgentFinish(n)
  PROVE  PollFacts' /\ ReportedRight'
<1> USE DEF Calm, ControllerInv, PollFacts, AgentFinish, crVars, actorVars
<1>1. UNCHANGED <<cr, inc, timers, fresh, seen>> /\ mpc' = mpc /\ mjob' = mjob
  BY DEF mpc, mjob
<1>2. n # Cleanup
  BY DEF MainOnly, Exists
<1>3. /\ jobs[n].phase = "running" /\ jobs'[n].phase \in Finished
      /\ \A k \in JobNames : k # n => jobs'[k] = jobs[k]
      /\ node = "current" => node' = "current"
      /\ jobs'[n].phase = "succeeded" /\ ReadCurrent(n) => node' = "current"
  <2>1. PICK p \in Outcomes :
          /\ jobs' = [jobs EXCEPT ![n] = [NoJob EXCEPT !.phase = p]]
          /\ node' = CASE n = Cleanup /\ p = "succeeded" -> "clean"
                       [] n # Cleanup /\ p = "succeeded" /\ ReadCurrent(n) -> "current"
                       [] n # Cleanup /\ node = "clean" /\ ~(p = "succeeded" /\ ReadCurrent(n))
                            -> "old"
                       [] OTHER -> node
    OBVIOUS
  <2>2. jobs[n].phase = "running" /\ DOMAIN jobs = JobNames /\ p \in Finished
    BY ControllerAssumption DEF TypeOK
  <2> HIDE DEF AgentFinish, Calm
  <2>3. jobs'[n].phase = p /\ \A k \in JobNames : k # n => jobs'[k] = jobs[k]
    BY <2>1, <2>2 DEF NoJob
  <2>4. /\ node = "current" => node' = "current"
        /\ p = "succeeded" /\ ReadCurrent(n) => node' = "current"
    BY <1>2, <2>1
  <2> QED BY <2>2, <2>3, <2>4
<1> HIDE DEF AgentFinish
<1>4. \A k \in JobNames : jobs'[k].phase # "none" <=> jobs[k].phase # "none"
  BY <1>3 DEF Finished
<1>5. Beginning' /\ OneJob' /\ Reconciling'
  BY <1>1, <1>4 DEF Beginning, OneJob, Reconciling, Exists
<1>6. JobsOfSpec'
  BY <1>1, <1>4 DEF JobsOfSpec, Exists
<1>7. Recording'
  <2>1. /\ seen["M"] \subseteq [name : JobNames \ {Cleanup}, phase : Finished]
        /\ mjob.name \in JobNames
    BY DEF TypeOK, Actors, mjob
  <2> QED BY <1>1, <1>3, <2>1 DEF Recording, Finished
<1>8. JobApplies' /\ ReportedRight'
  <2>1. cr.gen \in JobNames
    BY DEF TypeOK, CRs, JobNames
  <2> QED BY <1>1, <1>3, <2>1 DEF JobApplies, ReportedRight, ReadCurrent, Finished
<1> QED BY <1>1, <1>5, <1>6, <1>7, <1>8

(* Between two passes a Job may go.                                        *)
LEMMA TTLExpiredCalm ==
  ASSUME Calm, Undisturbed', NEW n \in JobNames, TTLExpired(n)
  PROVE  PollFacts' /\ ReportedRight'
<1> USE DEF Calm, ControllerInv, PollFacts, TTLExpired, crVars
<1>1. UNCHANGED <<cr, inc, node, timers>> /\ mpc' = "start" /\ mpc = "start"
  BY DEF mpc, Quiet, JobDone, Actors
<1>2. \A k \in JobNames : jobs'[k] = jobs[k] \/ jobs'[k] = NoJob
  BY DEF TypeOK
<1> HIDE DEF TTLExpired
<1>3. \A k \in JobNames : jobs'[k].phase # "none" => jobs[k].phase # "none"
  BY <1>2 DEF NoJob
<1>4. Beginning' /\ OneJob' /\ Reconciling' /\ Recording'
  BY <1>1, <1>3 DEF Beginning, OneJob, Reconciling, Recording, Exists
<1>5. JobsOfSpec'
  BY <1>1, <1>3 DEF JobsOfSpec, Exists
<1>6. JobApplies' /\ ReportedRight'
  <2>1. cr.gen \in JobNames
    BY DEF TypeOK, CRs, JobNames
  <2> QED BY <1>1, <1>2, <2>1 DEF JobApplies, ReportedRight, ReadCurrent, NoJob
<1> QED BY <1>1, <1>4, <1>5, <1>6

(* The informers are silent, so their handlers do not move.                *)
LEMMA OthersRest ==
  ASSUME Mode = "poll", TypeOK, MainOnly
  PROVE  ~CRHandler /\ ~JobHandler
<1>1. ~handleCR /\ ~handleCRDelete /\ ~TakeJobEvent
  BY DEF MainOnly, handleCR, handleCRDelete, TakeJobEvent
<1>2. ~LaunchCleanupJob /\ ~CleanupJobError
  BY DEF MainOnly, LaunchCleanupJob, CleanupJobError, Step
<1>3. ~Reconcile("C")
  BY DEF MainOnly, Reconcile, ReconcileGone, ReconcileError, ReconcileMismatch, ReconcileSkip,
         ReconcileGet, MarkInProgress, JobExists, JobMissing, CreateRefused, CreateAgentJob,
         DeleteStaleJobs, Fail, Step
<1>4. ~ProcessJobs("J")
  BY DEF MainOnly, ProcessJobs, ListJobs, ListError, ListDone, SkipJob, TakeJob,
         RecordResult, DropJob, Fail, Step
<1> QED BY <1>1, <1>2, <1>3, <1>4 DEF CRHandler, JobHandler

(* In poll mode a write of the CR notifies nobody.                         *)
LEMMA NobodyNotified ==
  ASSUME Mode = "poll", NEW c, StoreCR(c) PROVE crEvents' = crEvents /\ cr' = c
  BY DEF StoreCR, Notify

(* Nor does a write of the status, whose CR stays the same one.            *)
LEMMA StatusWriteSilent ==
  ASSUME Mode = "poll", TypeOK, NEW a, NEW st, NEW obs, updateCRStatus(a, st, obs)
  PROVE  crEvents' = crEvents /\ cr'.uid = cr.uid /\ cr'.gen = cr.gen
<1>1. cr'.uid = cr.uid /\ cr'.gen = cr.gen
  BY StatusWriteFacts
<1>2. crEvents' = crEvents
  BY NobodyNotified DEF updateCRStatus
<1> QED BY <1>1, <1>2

(* Deleting Jobs makes none.                                               *)
LEMMA CleanupGoes ==
  ASSUME NEW S, scheduleJobDeletion(S)
  PROVE  jobs'[Cleanup] = jobs[Cleanup] \/ jobs'[Cleanup] = NoJob
  BY ControllerAssumption DEF scheduleJobDeletion, Cleanup, JobNames

(* A step that makes no Job, takes no Job in hand and leaves the           *)
(* notifications alone keeps the main goroutine alone.                     *)
LEMMA MainOnlyKept ==
  ASSUME TypeOK, MainOnly, crEvents' = crEvents, jobEvents' = jobEvents,
         pc'["C"] = pc["C"], pc'["J"] = pc["J"],
         jobs'[Cleanup].phase = jobs[Cleanup].phase \/ jobs'[Cleanup] = NoJob,
         cr'.uid # 0 => cr'.gen = cr.gen /\ cr.uid # 0,
         mpc' \in {"write", "check", "create", "stale"} =>
           mpc \in {"write", "check", "create", "stale"} /\ mjob' = mjob
  PROVE  MainOnly'
  BY DEF MainOnly, Exists, NoJob

(* A step of Reconcile by the main goroutine.                              *)
LEMMA MainOnlyReconcile ==
  ASSUME Mode = "poll", TypeOK, MainOnly, Reconcile("M") PROVE MainOnly'
<1> USE DEF crVars, jobVars
<1>1. CASE ReconcileSkip("M")
  BY <1>1, MainMoves, MainOnlyKept DEF ReconcileSkip, Return
<1>2. CASE ReconcileGone("M") \/ ReconcileError("M") \/ ReconcileMismatch("M")
           \/ CreateRefused("M")
  BY <1>2, MainMoves, MainOnlyKept
     DEF ReconcileGone, ReconcileError, ReconcileMismatch, CreateRefused, Fail, Error
<1>3. CASE ReconcileGet("M")
  <2>1. mjob'.name = cr.gen /\ cr.uid # 0
    BY <1>3 DEF ReconcileGet, TypeOK, Actors, mjob
  <2> QED BY <1>3, <2>1, MainMoves DEF ReconcileGet, MainOnly, Exists
<1>4. CASE MarkInProgress("M")
  <2>1. crEvents' = crEvents /\ cr'.uid = cr.uid /\ cr'.gen = cr.gen
    <3>1. updateCRStatus("M", job["M"].result, job["M"].name)
      BY <1>4 DEF MarkInProgress
    <3> QED BY <3>1, StatusWriteSilent
  <2> QED BY <1>4, <2>1, MainMoves, MainOnlyKept DEF MarkInProgress, mjob
<1>5. CASE JobExists("M")
  BY <1>5, MainMoves, MainOnlyKept DEF JobExists, Return
<1>6. CASE JobMissing("M")
  BY <1>6, MainMoves, MainOnlyKept DEF JobMissing, mjob
<1>7. CASE CreateAgentJob("M")
  <2>1. mpc = "create" /\ mjob.name # Cleanup
    BY <1>7, MainMoves DEF CreateAgentJob, MainOnly
  <2>2. jobs'[Cleanup] = jobs[Cleanup]
    BY <1>7, <2>1 DEF CreateAgentJob, CreateJob, mjob, TypeOK
  <2> QED BY <1>7, <2>1, <2>2, MainMoves, MainOnlyKept DEF CreateAgentJob, mjob
<1>8. CASE DeleteStaleJobs("M")
  <2>1. jobs'[Cleanup] = jobs[Cleanup] \/ jobs'[Cleanup] = NoJob
    BY <1>8, CleanupGoes DEF DeleteStaleJobs
  <2> QED BY <1>8, <2>1, MainMoves, MainOnlyKept DEF DeleteStaleJobs, Return
<1> QED BY <1>1, <1>2, <1>3, <1>4, <1>5, <1>6, <1>7, <1>8 DEF Reconcile

(* A step of ProcessJobs by the main goroutine.                            *)
LEMMA MainOnlyProcess ==
  ASSUME Mode = "poll", TypeOK, MainOnly, ProcessJobs("M") PROVE MainOnly'
<1> USE DEF crVars, jobVars
<1>1. CASE ListJobs("M")
  BY <1>1, MainMoves, MainOnlyKept DEF ListJobs
<1>2. CASE ListError("M") \/ ListDone("M")
  BY <1>2, MainMoves, MainOnlyKept DEF ListError, ListDone, Fail, JobDone
<1>3. CASE SkipJob("M")
  BY <1>3, MainOnlyKept DEF SkipJob, mpc
<1>4. CASE TakeJob("M")
  BY <1>4, MainMoves, MainOnlyKept DEF TakeJob
<1>5. CASE RecordResult("M")
  <2>1. crEvents' = crEvents /\ cr'.uid = cr.uid /\ cr'.gen = cr.gen
    <3>1. updateCRStatus("M", job["M"].result, cr.obs)
      BY <1>5 DEF RecordResult
    <3> QED BY <3>1, StatusWriteSilent
  <2> QED BY <1>5, <2>1, MainMoves, MainOnlyKept DEF RecordResult
<1>6. CASE DropJob("M")
  <2>1. jobs'[Cleanup] = jobs[Cleanup] \/ jobs'[Cleanup] = NoJob
    BY <1>6, CleanupGoes DEF DropJob
  <2> QED BY <1>6, <2>1, MainMoves, MainOnlyKept DEF DropJob
<1> QED BY <1>1, <1>2, <1>3, <1>4, <1>5, <1>6 DEF ProcessJobs

(* Nobody but the main goroutine ever moves in poll mode.                  *)
LEMMA MainOnlyStep ==
  ASSUME Mode = "poll", TypeOK, MainOnly, [Next]_vars PROVE MainOnly'
<1> USE DEF crVars, jobVars, actorVars
<1>1. ~CRHandler /\ ~JobHandler
  BY OthersRest
<1>2. CASE Reconcile("M") \/ ProcessJobs("M")
  BY <1>2, MainOnlyReconcile, MainOnlyProcess
<1>3. CASE ProcessAll
  <2>1. mpc' = (IF cr.uid = 0 THEN "list" ELSE "get") /\ pc'["C"] = pc["C"] /\ pc'["J"] = pc["J"]
    <3>1. Step("M", "start", IF cr.uid = 0 THEN "list" ELSE "get")
      BY <1>3 DEF ProcessAll
    <3> QED BY <3>1, MainMoves
  <2> QED BY <1>3, <2>1, MainOnlyKept DEF ProcessAll
<1>4. CASE ReadInterfaceStates \/ InterfaceStatesError
  BY <1>4, MainMoves, MainOnlyKept DEF ReadInterfaceStates, InterfaceStatesError
<1>5. CASE updateInterfaceStates
  <2>1. crEvents' = crEvents /\ cr'.uid = cr.uid /\ cr'.gen = cr.gen
    <3>1. updateCRStatus("M", cr.st, cr.obs)
      BY <1>5 DEF updateInterfaceStates
    <3> QED BY <3>1, StatusWriteSilent
  <2> QED BY <1>5, <2>1, MainMoves, MainOnlyKept DEF updateInterfaceStates
<1>6. CASE CreateCR
  <2>1. crEvents' = crEvents /\ cr' = [uid |-> inc + 1, gen |-> 1, st |-> "", obs |-> 0]
    BY <1>6, NobodyNotified DEF CreateCR
  <2>2. cr'.gen = 1
    BY <2>1
  <2>3. cr'.gen # Cleanup
    BY <2>2 DEF Cleanup
  <2>4. UNCHANGED <<jobs, jobEvents, pc, job>>
    BY <1>6 DEF CreateCR
  <2> QED BY <2>1, <2>3, <2>4 DEF MainOnly, Exists, mpc, mjob
<1>7. CASE UpdateSpec
  <2>1. crEvents' = crEvents /\ cr' = [cr EXCEPT !.gen = cr.gen + 1]
    BY <1>7, NobodyNotified DEF UpdateSpec
  <2>2. cr'.gen = cr.gen + 1 /\ cr.gen \in Nat
    BY <2>1 DEF TypeOK, CRs
  <2>3. cr'.gen # Cleanup
    BY <2>2 DEF Cleanup
  <2> QED BY <1>7, <2>1, <2>3 DEF UpdateSpec, MainOnly, Exists, mpc, mjob
<1>8. CASE DeleteCR
  <2>1. crEvents' = crEvents /\ cr' = NoCR
    BY <1>8, NobodyNotified DEF DeleteCR
  <2>2. cr'.uid = 0
    BY <2>1 DEF NoCR
  <2> QED BY <1>8, <2>1, <2>2 DEF DeleteCR, MainOnly, Exists, mpc, mjob
<1>9. CASE Restart
  BY <1>9 DEF Restart, MainOnly, Exists, mpc, Actors
<1>10. ASSUME NEW n \in JobNames, AgentStart(n) \/ AgentFinish(n) \/ DelayedDeletion(n)
                                 \/ TTLExpired(n)
       PROVE  MainOnly'
  <2>1. jobs'[Cleanup].phase = jobs[Cleanup].phase \/ jobs'[Cleanup] = NoJob
    <3>1. CASE AgentStart(n)
      <4>1. n # Cleanup
        BY <3>1 DEF AgentStart, MainOnly, Exists
      <4> QED BY <3>1, <4>1 DEF AgentStart, TypeOK
    <3>2. CASE AgentFinish(n)
      <4>1. n # Cleanup
        BY <3>2 DEF AgentFinish, MainOnly, Exists
      <4>2. PICK j : jobs' = [jobs EXCEPT ![n] = j]
        BY <3>2 DEF AgentFinish
      <4> QED BY <4>1, <4>2 DEF TypeOK
    <3>3. CASE DelayedDeletion(n) \/ TTLExpired(n)
      <4>1. jobs' = [jobs EXCEPT ![n] = NoJob]
        BY <3>3 DEF DelayedDeletion, TTLExpired
      <4> QED BY <4>1 DEF TypeOK
    <3> QED BY <1>10, <3>1, <3>2, <3>3
  <2>2. crEvents' = crEvents /\ cr' = cr /\ pc' = pc /\ job' = job /\ jobEvents' = jobEvents
    BY <1>10 DEF AgentStart, AgentFinish, DelayedDeletion, TTLExpired, NotifyJob, MainOnly
  <2> QED BY <2>1, <2>2, MainOnlyKept DEF mpc, mjob
<1>11. CASE UNCHANGED vars
  BY <1>11 DEF vars, MainOnly, Exists, mpc, mjob
<1>12. CASE NodeChanges
  BY <1>12 DEF NodeChanges, MainOnly, Exists, mpc, mjob
<1> QED BY <1>1, <1>2, <1>3, <1>4, <1>5, <1>6, <1>7, <1>8, <1>9, <1>10, <1>11, <1>12
        DEF Next, MainPass, User, Agent

-----------------------------------------------------------------------------
(* A step of the main goroutine without a failing call.                    *)
LEMMA MainPassCalm ==
  ASSUME Calm, Undisturbed', MainPass PROVE PollFacts' /\ ReportedRight'
<1>1. TypeOK
  BY DEF Calm, ControllerInv
<1>2. ~ReconcileError("M") /\ ~ListError("M")
  BY <1>1, NoError DEF ReconcileError, ListError
<1>3. CASE Reconcile("M")
  BY <1>2, <1>3, ReconcileGoneCalm, ReconcileMismatchCalm, ReconcileSkipCalm,
     ReconcileGetCalm, MarkInProgressCalm, JobExistsCalm, JobMissingCalm, CreateRefusedCalm,
     CreateAgentJobCalm, DeleteStaleJobsCalm DEF Reconcile
<1>4. CASE ProcessJobs("M")
  BY <1>2, <1>4, ListJobsCalm, ListDoneCalm, SkipJobCalm, TakeJobCalm, RecordResultCalm,
     DropJobCalm DEF ProcessJobs
<1> QED BY <1>3, <1>4, ProcessAllCalm, ReadInterfaceStatesCalm, InterfaceStatesErrorCalm,
           UpdateInterfaceStatesCalm DEF MainPass

(* A step counts a failing call, is a restart or a change of the Node, or  *)
(* leaves the counters.                                                    *)
LEMMA HowCountsChange ==
  ASSUME [Next]_vars
  PROVE  /\ UNCHANGED counts \/ ApiError \/ Restart \/ NodeChanges
         /\ inc' = inc \/ inc' = inc + 1
<1> USE DEF crVars, updateCRStatus, scheduleJobDeletion
<1>1. ASSUME NEW a \in {"C", "M"}, Reconcile(a)
      PROVE  (UNCHANGED counts \/ ApiError) /\ inc' = inc
  BY <1>1 DEF Reconcile, ReconcileGone, ReconcileError, ReconcileMismatch, ReconcileSkip,
              ReconcileGet, JobExists, JobMissing, CreateRefused, CreateAgentJob,
              DeleteStaleJobs, MarkInProgress
<1>2. ASSUME NEW a \in {"J", "M"}, ProcessJobs(a)
      PROVE  (UNCHANGED counts \/ ApiError) /\ inc' = inc
  BY <1>2 DEF ProcessJobs, ListJobs, ListError, ListDone, SkipJob, TakeJob, DropJob, RecordResult
<1>3. CASE CRHandler
  BY <1>1, <1>3 DEF CRHandler, handleCR, handleCRDelete, LaunchCleanupJob, CleanupJobError
<1>4. CASE JobHandler
  BY <1>2, <1>4 DEF JobHandler, TakeJobEvent
<1>5. CASE MainPass
  BY <1>1, <1>2, <1>5 DEF MainPass, ProcessAll, ReadInterfaceStates, InterfaceStatesError,
                          updateInterfaceStates
<1>6. CASE User
  BY <1>6 DEF User, CreateCR, UpdateSpec, DeleteCR, NodeChanges
<1>7. CASE Restart
  BY <1>7 DEF Restart
<1>8. CASE \E n \in JobNames : Agent(n) \/ DelayedDeletion(n) \/ TTLExpired(n)
  BY <1>8 DEF Agent, AgentStart, AgentFinish, DelayedDeletion, TTLExpired
<1>9. CASE UNCHANGED vars
  BY <1>9 DEF vars
<1> QED BY <1>3, <1>4, <1>5, <1>6, <1>7, <1>8, <1>9 DEF Next

(* What disturbs stays: failed calls, restarts and CRs are never forgotten.*)
LEMMA WasUndisturbed ==
  ASSUME TypeOK, [Next]_vars, Undisturbed'
  PROVE  Undisturbed /\ ~Restart /\ ~NodeChanges
<1>1. ~ApiError
  BY NoError
<1>2. ~Restart
  <2> SUFFICES ASSUME Restart PROVE FALSE
    OBVIOUS
  <2>1. restarts' = restarts + 1 /\ restarts \in Nat
    BY DEF Restart, TypeOK
  <2>2. restarts' = 0
    BY DEF Undisturbed
  <2> QED BY <2>1, <2>2
<1>3. ~NodeChanges
  <2> SUFFICES ASSUME NodeChanges PROVE FALSE
    OBVIOUS
  <2>1. errors' = errors + 1 /\ errors \in Nat
    BY DEF NodeChanges, TypeOK
  <2>2. errors' = 0
    BY DEF Undisturbed
  <2> QED BY <2>1, <2>2
<1>4. counts' = counts
  BY <1>1, <1>2, <1>3, HowCountsChange
<1>5. inc <= 1
  <2>1. inc' <= 1
    BY DEF Undisturbed
  <2>2. inc \in 0 .. MaxInc
    BY DEF TypeOK
  <2> QED BY <2>1, <2>2, HowCountsChange, ControllerAssumption
<1> QED BY <1>2, <1>3, <1>4, <1>5 DEF Undisturbed, counts

(* Every step keeps the invariant.                                         *)
LEMMA PollStep ==
  ASSUME Mode = "poll", ControllerInv, PollInv, [Next]_vars PROVE PollInv'
<1>1. TypeOK /\ MainOnly
  BY DEF ControllerInv, PollInv
<1>2. MainOnly'
  BY <1>1, MainOnlyStep
<1>3. ASSUME Undisturbed' PROVE PollFacts' /\ ReportedRight'
  <2>1. Calm /\ ~Restart /\ ~NodeChanges
    BY <1>1, <1>3, WasUndisturbed DEF Calm, PollInv
  <2>2. ~CRHandler /\ ~JobHandler
    BY <1>1, OthersRest
  <2>3. CASE MainPass
    BY <1>3, <2>1, <2>3, MainPassCalm
  <2>4. CASE User
    BY <1>3, <2>1, <2>4, CreateCRCalm, UpdateSpecCalm, DeleteCRCalm DEF User
  <2>5. ASSUME NEW n \in JobNames, Agent(n) \/ DelayedDeletion(n) \/ TTLExpired(n)
        PROVE  PollFacts' /\ ReportedRight'
    <3>1. ~DelayedDeletion(n)
      BY <2>1 DEF Calm, PollFacts, DelayedDeletion
    <3> QED BY <1>3, <2>1, <2>5, <3>1, AgentStartCalm, AgentFinishCalm, TTLExpiredCalm DEF Agent
  <2>6. CASE UNCHANGED vars
    BY <2>1, <2>6 DEF vars, crVars, jobVars, actorVars, counts, Calm, PollFacts, Beginning, OneJob,
       Reconciling, Recording, JobsOfSpec, JobApplies, ReportedRight, Exists, ReadCurrent, mpc, mjob
  <2> QED BY <2>1, <2>2, <2>3, <2>4, <2>5, <2>6 DEF Next
<1> QED BY <1>2, <1>3 DEF PollInv

(* In poll mode, for any number of generations, a CR that says Configured  *)
(* for its current spec has been applied completely, at every moment until *)
(* a call fails, the controller is restarted or the CR is created again,   *)
(* when Jobs are deleted at once: the Jobs of older specs are gone before  *)
(* results are looked at, and the Job of the current spec has read that    *)
(* spec (reconciler.go:49-132,193-328).                                    *)
THEOREM ConfiguredIsApplied == Mode = "poll" => (Spec => []ConfiguredMeansApplied)
<1> SUFFICES ASSUME Mode = "poll" PROVE Spec => []ConfiguredMeansApplied
  OBVIOUS
<1>1. Init => PollInv
  <2> SUFFICES ASSUME Init PROVE PollInv
    OBVIOUS
  <2>1. /\ mpc = "start" /\ pc["C"] = "idle" /\ pc["J"] = "idle"
        /\ \A n \in JobNames : jobs[n].phase = "none"
        /\ cr.uid = 0 /\ cr.st = ""
        /\ crEvents = << >> /\ jobEvents = "none" /\ timers = {}
    BY DEF Init, mpc, Actors, NoJob, NoCR
  <2>2. Cleanup \in JobNames
    BY ControllerAssumption DEF Cleanup, JobNames
  <2>3. MainOnly
    BY <2>1, <2>2 DEF MainOnly, Exists
  <2>4. PollFacts /\ ReportedRight
    BY <2>1 DEF PollFacts, Beginning, OneJob, Reconciling, Recording, JobsOfSpec, JobApplies,
                ReportedRight, Exists
  <2> QED BY <2>3, <2>4 DEF PollInv
<1>2. ControllerInv /\ PollInv /\ [Next]_vars => PollInv'
  BY PollStep
<1>3. ControllerInv /\ PollInv => ConfiguredMeansApplied
  BY DEF PollInv, Undisturbed, ConfiguredMeansApplied
<1> QED BY <1>1, <1>2, <1>3, ControllerInvariant, PTL DEF Spec
=============================================================================
