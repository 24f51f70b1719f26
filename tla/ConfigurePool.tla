--------------------------- MODULE ConfigurePool ----------------------------
(***************************************************************************)
(* One call of ConfigureNetworkUseCase.Execute: the calling goroutine      *)
(* submits every interface of the node to a WorkerPool, workers run the    *)
(* handler (preflight, naming, apply, validate), failed interfaces are put *)
(* back into the same bounded channel by the worker that failed, and the   *)
(* caller waits on a WaitGroup before it closes the channel and reports.   *)
(*                                                                         *)
(*   src/internal/application/usecases/worker_pool.go                      *)
(*   src/internal/application/usecases/configure_network.go                *)
(*   src/internal/application/usecases/orchestrator.go                     *)
(***************************************************************************)
EXTENDS Naturals, Sequences, FiniteSets

CONSTANTS Ifaces,      \* interfaces read from the repository (allInterfaces)
          Workers,     \* worker goroutines (maxConcurrentTasks, at least 1)
          MaxRetries,  \* retries per interface (uc.maxRetries)
          Cancellable, \* may the context be cancelled while Execute runs?
          NoIface      \* "holds no interface"

ASSUME PoolAssumption ==
  /\ IsFiniteSet(Ifaces)
  /\ IsFiniteSet(Workers) /\ Workers # {}
  /\ MaxRetries \in Nat \ {0}
  /\ Cancellable \in BOOLEAN
  /\ NoIface \notin Ifaces

VARIABLES
  mpc,       \* the goroutine that called Execute
  unsent,    \* interfaces its loop has not reached
  sending,   \* the interface it is about to submit
  wg,        \* counter of the WaitGroup
  queue,     \* the channel p.jobs: envelopes [job, attempt]
  wpc,       \* wpc[w]: where worker w is
  env,       \* env[w]: the envelope it received
  status,    \* status[w]: outcome of its handler call
  results,   \* results[i]: entries for i in the result list
  failures,  \* failures[i]: entries for i in the failure list
  processed, failed,  \* processedCount, failedCount
  ctx        \* the context passed to Execute: "active" or "cancelled"

mainVars == <<mpc, unsent, sending>>
reportVars == <<results, failures, processed, failed>>
vars == <<mpc, unsent, sending, wg, queue, wpc, env, status,
          results, failures, processed, failed, ctx>>

Envelope == [job : Ifaces, attempt : 0 .. MaxRetries]
NoEnvelope == [job |-> NoIface, attempt |-> 0]

(* Mutated form: the channel holds one job per worker.                     *)
QueueSizePerWorker == Cardinality(Workers)

(* Capacity of the channel: len(allInterfaces), the number of workers when *)
(* the node has no interface at all.                                       *)
QueueSize == IF Ifaces = {} THEN Cardinality(Workers) ELSE Cardinality(Ifaces)

(* The channel is closed once Execute reports: stop() is its last step.    *)
closed == mpc = "returned"

(* An error is retried while attempts remain and its type says that it may *)
(* go away; a plain (non-domain) error is final.                           *)
RetryableTypes == {"timeout", "network", "system", "resource"}

(* Mutated form: one retry too many.                                       *)
retryPolicyOffByOne(errType, attempt) ==
  attempt <= MaxRetries /\ errType \in RetryableTypes

retryPolicy(errType, attempt) ==
  attempt < MaxRetries /\ errType \in RetryableTypes

Init ==
  /\ mpc = "start"
  /\ unsent = Ifaces
  /\ sending = NoIface
  /\ wg = 0
  /\ queue = << >>
  /\ wpc = [w \in Workers |-> "recv"]
  /\ env = [w \in Workers |-> NoEnvelope]
  /\ status = [w \in Workers |-> "success"]
  /\ results = [i \in Ifaces |-> 0]
  /\ failures = [i \in Ifaces |-> 0]
  /\ processed = 0
  /\ failed = 0
  /\ ctx = "active"
-----------------------------------------------------------------------------
(* The goroutine that called Execute                                       *)

(* DetectOS or GetAllNodeInterfaces fails: nothing has been started.       *)
ExecuteError ==
  /\ mpc = "start"
  /\ mpc' = "error"
  /\ UNCHANGED <<unsent, sending, wg, queue, wpc, env, status,
                 reportVars, ctx>>

(* The interfaces are known, the pool is built and its workers run.        *)
StartPool ==
  /\ mpc = "start"
  /\ mpc' = "loop"
  /\ UNCHANGED <<unsent, sending, wg, queue, wpc, env, status,
                 reportVars, ctx>>

(* wg.Add(1) for the next interface of the list.                           *)
AddToGroup(i) ==
  /\ mpc = "loop"
  /\ i \in unsent
  /\ unsent' = unsent \ {i}
  /\ sending' = i
  /\ wg' = wg + 1
  /\ mpc' = "submit"
  /\ UNCHANGED <<queue, wpc, env, status, reportVars, ctx>>

(* pool.Submit: blocks while the channel is full.                          *)
Submit ==
  /\ mpc = "submit"
  /\ Len(queue) < QueueSize
  /\ queue' = Append(queue, [job |-> sending, attempt |-> 0])
  /\ sending' = NoIface
  /\ mpc' = "loop"
  /\ UNCHANGED <<unsent, wg, wpc, env, status, reportVars, ctx>>

(* Mutated form: the report is built without waiting for the group.        *)
WaitAndStopEarly ==
  /\ mpc = "loop"
  /\ unsent = {}
  /\ mpc' = "returned"
  /\ UNCHANGED <<unsent, sending, wg, queue, wpc, env, status, reportVars,
                 ctx>>

(* wg.Wait returns, stop() closes the channel, the report is built.        *)
WaitAndStop ==
  /\ mpc = "loop"
  /\ unsent = {}
  /\ wg = 0
  /\ mpc' = "returned"
  /\ UNCHANGED <<unsent, sending, wg, queue, wpc, env, status, reportVars,
                 ctx>>
-----------------------------------------------------------------------------
(* A worker                                                                *)

Goto(w, from, to) ==
  /\ wpc[w] = from
  /\ wpc' = [wpc EXCEPT ![w] = to]

(* The worker takes the next envelope. When the context is cancelled too   *)
(* the select statement may still pick this case.                          *)
Receive(w) ==
  /\ mpc # "start"
  /\ mpc # "error"
  /\ queue # << >>
  /\ Goto(w, "recv", "preflight")
  /\ env' = [env EXCEPT ![w] = Head(queue)]
  /\ queue' = Tail(queue)
  /\ UNCHANGED <<mainVars, wg, status, reportVars, ctx>>

(* Mutated form: the worker does not notice that the channel is closed.    *)
WorkerReturnCancelOnly(w) ==
  /\ mpc \notin {"start", "error"}
  /\ ctx = "cancelled"
  /\ Goto(w, "recv", "exit")
  /\ UNCHANGED <<mainVars, wg, queue, env, status, reportVars, ctx>>

(* The worker returns: the channel is closed and drained, or the context   *)
(* is cancelled.                                                           *)
WorkerReturn(w) ==
  /\ mpc \notin {"start", "error"}
  /\ ctx = "cancelled" \/ (closed /\ queue = << >>)
  /\ Goto(w, "recv", "exit")
  /\ UNCHANGED <<mainVars, wg, queue, env, status, reportVars, ctx>>

(* The handler returned an error: retry after a backoff, or give up.       *)
HandlerError(w, errType) ==
  LET again == retryPolicy(errType, env[w].attempt)
  IN  /\ wpc' = [wpc EXCEPT ![w] = IF again THEN "backoff" ELSE "hook"]
      /\ status' = [status EXCEPT ![w] = IF again THEN "retried" ELSE "failed"]

(* Preflight refuses the interface (validation error), or no name is left  *)
(* for it (plain error), before anything is applied.                       *)
Refuse(w) ==
  /\ wpc[w] = "preflight"
  /\ \E errType \in {"validation", "plain"} : HandlerError(w, errType)
  /\ UNCHANGED <<mainVars, wg, queue, env, reportVars, ctx>>

(* Preflight passed, the interface has a name and needs processing: the    *)
(* worker enters processor.Process, where links and routes change.         *)
BeginProcess(w) ==
  /\ Goto(w, "preflight", "apply")
  /\ UNCHANGED <<mainVars, wg, queue, env, status, reportVars, ctx>>

(* Configure or validation failed and was rolled back (network error), or  *)
(* the status could not be stored (system error; not found, final, when    *)
(* the row has gone).                                                      *)
ProcessError(w) ==
  /\ wpc[w] = "apply"
  /\ \E errType \in {"network", "system", "notfound"} : HandlerError(w, errType)
  /\ UNCHANGED <<mainVars, wg, queue, env, reportVars, ctx>>

(* The interface is configured, or needed no processing: one result.       *)
HandlerSuccess(w) ==
  /\ wpc[w] \in {"preflight", "apply"}
  /\ wpc' = [wpc EXCEPT ![w] = "hook"]
  /\ status' = [status EXCEPT ![w] = "success"]
  /\ results' = [results EXCEPT ![env[w].job] = @ + 1]
  /\ UNCHANGED <<mainVars, wg, queue, env, failures, processed, failed,
                 ctx>>

(* Mutated form: a panic skips the after-hook.                             *)
HandlerPanicNoHook(w) ==
  /\ wpc[w] \in {"preflight", "apply"}
  /\ wpc' = [wpc EXCEPT ![w] = "recv"]
  /\ status' = [status EXCEPT ![w] = "panic"]
  /\ env' = [env EXCEPT ![w] = NoEnvelope]
  /\ UNCHANGED <<mainVars, wg, queue, reportVars, ctx>>

(* The handler panics; the worker recovers and does not retry.             *)
HandlerPanic(w) ==
  /\ wpc[w] \in {"preflight", "apply"}
  /\ wpc' = [wpc EXCEPT ![w] = "hook"]
  /\ status' = [status EXCEPT ![w] = "panic"]
  /\ UNCHANGED <<mainVars, wg, queue, env, reportVars, ctx>>

(* Mutated form: a retried attempt leaves the group like a finished one.   *)
EndBackoffDone(w) ==
  /\ wpc[w] = "backoff"
  /\ wpc' = [wpc EXCEPT ![w] = "requeue"]
  /\ env' = [env EXCEPT ![w] = [job |-> @.job, attempt |-> @.attempt + 1]]
  /\ wg' = wg - 1
  /\ UNCHANGED <<mainVars, queue, status, reportVars, ctx>>

(* The backoff timer fires or the context is cancelled; a cancelled        *)
(* interface is not put back and its hook does not run.                    *)
EndBackoff(w) ==
  /\ wpc[w] = "backoff"
  /\ IF ctx = "cancelled"
     THEN /\ wpc' = [wpc EXCEPT ![w] = "recv"]
          /\ env' = [env EXCEPT ![w] = NoEnvelope]
     ELSE /\ wpc' = [wpc EXCEPT ![w] = "requeue"]
          /\ env' = [env EXCEPT ![w] = [job |-> @.job, attempt |-> @.attempt + 1]]
  /\ UNCHANGED <<mainVars, wg, queue, status, reportVars, ctx>>

(* Mutated form: the hook also runs for the attempt that was put back.     *)
RequeueAndHook(w) ==
  /\ Len(queue) < QueueSize
  /\ Goto(w, "requeue", "hook")
  /\ queue' = Append(queue, env[w])
  /\ UNCHANGED <<mainVars, wg, env, status, reportVars, ctx>>

(* p.jobs <- env: the worker itself blocks while the channel is full.      *)
Requeue(w) ==
  /\ Len(queue) < QueueSize
  /\ Goto(w, "requeue", "recv")
  /\ queue' = Append(queue, env[w])
  /\ env' = [env EXCEPT ![w] = NoEnvelope]
  /\ UNCHANGED <<mainVars, wg, status, reportVars, ctx>>

(* The after-hook counts the final outcome and records a failure.          *)
AfterHook(w) ==
  /\ Goto(w, "hook", "done")
  /\ IF status[w] = "success"
     THEN /\ processed' = processed + 1
          /\ UNCHANGED <<failed, failures>>
     ELSE /\ failed' = failed + 1
          /\ failures' = [failures EXCEPT ![env[w].job] = @ + 1]
          /\ UNCHANGED processed
  /\ UNCHANGED <<mainVars, wg, queue, env, status, results, ctx>>

(* wg.Done() at the end of the hook; the worker goes back to its select.   *)
GroupDone(w) ==
  /\ Goto(w, "done", "recv")
  /\ wg' = wg - 1
  /\ env' = [env EXCEPT ![w] = NoEnvelope]
  /\ UNCHANGED <<mainVars, queue, status, reportVars, ctx>>

(* The agent is told to stop.                                              *)
Cancel ==
  /\ Cancellable
  /\ ctx = "active"
  /\ ctx' = "cancelled"
  /\ UNCHANGED <<mainVars, wg, queue, wpc, env, status, reportVars>>
-----------------------------------------------------------------------------
Main == \/ ExecuteError \/ StartPool \/ Submit \/ WaitAndStop
        \/ \E i \in Ifaces : AddToGroup(i)

Worker(w) == \/ Receive(w) \/ WorkerReturn(w) \/ Refuse(w) \/ BeginProcess(w)
             \/ ProcessError(w) \/ HandlerSuccess(w) \/ HandlerPanic(w)
             \/ EndBackoff(w) \/ Requeue(w) \/ AfterHook(w) \/ GroupDone(w)

Next == Main \/ Cancel \/ \E w \in Workers : Worker(w)

(* Every goroutine that can run is scheduled by the Go runtime; commands   *)
(* run under a timeout and backoffs are timers, so every handler returns.  *)
Fairness == WF_vars(Main) /\ \A w \in Workers : WF_vars(Worker(w))

SafetySpec == Init /\ [][Next]_vars
Spec == SafetySpec /\ Fairness
-----------------------------------------------------------------------------
(* Properties                                                              *)

(* Where a worker holds an interface, and where it works for its batch.    *)
Holding == {"preflight", "apply", "backoff", "requeue", "hook", "done"}
Held(i) == \E w \in Workers : wpc[w] \in Holding /\ env[w].job = i
Queued(i) == \E k \in DOMAIN queue : queue[k].job = i

(* Interfaces the group still waits for: handed to the pool, and not yet   *)
(* settled with a finished hook. An interface dropped by a cancelled       *)
(* backoff stays outstanding.                                              *)
Settled(i) == results[i] + failures[i] > 0
Outstanding == {i \in Ifaces \ unsent : ~Settled(i) \/ Held(i)}

(* Every variable keeps its type: attempts stay within the retries the     *)
(* policy allows, and an idle worker holds nothing.                        *)
TypeOK ==
  /\ mpc \in {"start", "error", "loop", "submit", "returned"}
  /\ unsent \subseteq Ifaces
  /\ sending \in Ifaces \cup {NoIface}
  /\ wg \in Nat
  /\ queue \in Seq(Envelope)
  /\ wpc \in [Workers -> Holding \cup {"recv", "exit"}]
  /\ env \in [Workers -> Envelope \cup {NoEnvelope}]
  /\ status \in [Workers -> {"success", "failed", "panic", "retried"}]
  /\ results \in [Ifaces -> Nat]
  /\ failures \in [Ifaces -> Nat]
  /\ processed \in Nat
  /\ failed \in Nat
  /\ ctx \in {"active", "cancelled"}

(* Neither Submit nor a worker that puts an interface back ever finds the  *)
(* channel full (worker_pool.go:107,143). A worker blocked there could     *)
(* never receive again, and with every worker blocked the pool deadlocks.  *)
SendersNeverBlock ==
  (mpc = "submit" \/ \E w \in Workers : wpc[w] = "requeue")
    => Len(queue) < QueueSize

(* An interface is in one place only: not submitted, being submitted, in   *)
(* one slot of the channel, or in the hands of one worker. Two workers     *)
(* never configure the same interface at the same time.                    *)
OneHolder ==
  /\ \A w \in Workers : wpc[w] \in Holding =>
       /\ env[w].job \in Ifaces \ (unsent \cup {sending})
       /\ ~Queued(env[w].job)
       /\ \A v \in Workers : wpc[v] \in Holding /\ env[v].job = env[w].job
                               => v = w
  /\ \A k \in DOMAIN queue :
       /\ queue[k].job \notin unsent \cup {sending}
       /\ \A l \in DOMAIN queue : queue[l].job = queue[k].job => l = k

(* stop() closes the channel only when nobody will send to it and nothing  *)
(* is left in it (configure_network.go:255-257): a late requeue would      *)
(* panic on the closed channel.                                            *)
ClosedIsQuiet ==
  closed => /\ queue = << >>
            /\ \A w \in Workers : wpc[w] \in {"recv", "exit"}

(* What Execute returns accounts for every interface once: it is in the    *)
(* results or in the failures, never in both, and the two counters are the *)
(* lengths of the two lists (configure_network.go:259-265).                *)
ReportComplete ==
  mpc = "returned" =>
    /\ \A i \in Ifaces : results[i] + failures[i] = 1
    /\ processed = Cardinality({i \in Ifaces : results[i] = 1})
    /\ failed = Cardinality({i \in Ifaces : failures[i] = 1})

(* The inductive invariant behind the properties above.                    *)
(* Where the calling goroutine is decides what it still holds; nothing     *)
(* moves before the pool is started.                                       *)
MainInv ==
  /\ sending \notin unsent
  /\ mpc = "submit" <=> sending # NoIface
  /\ mpc \in {"start", "error"} =>
       /\ unsent = Ifaces /\ queue = << >>
       /\ \A w \in Workers : wpc[w] = "recv"
  /\ mpc = "returned" => unsent = {} /\ Outstanding = {}

(* An attempt that will be put back has retries left; a worker in its hook *)
(* works for an interface whose outcome is settled by it alone.            *)
WorkerInv ==
  \A w \in Workers :
    /\ wpc[w] = "backoff" => env[w].attempt < MaxRetries
    /\ wpc[w] = "hook" => IF status[w] = "success"
                          THEN results[env[w].job] = 1
                          ELSE ~Settled(env[w].job)
    /\ wpc[w] = "done" => Settled(env[w].job)

(* A settled interface has one entry and is out of the pool but for its    *)
(* own hook.                                                               *)
SettledInv ==
  \A i \in Ifaces :
    /\ results[i] + failures[i] <= 1
    /\ Settled(i) =>
         /\ i \notin unsent /\ i # sending /\ ~Queued(i)
         /\ \A w \in Workers : wpc[w] \in Holding /\ env[w].job = i
                               => wpc[w] \in {"hook", "done"}

(* The group counts the outstanding interfaces, so it reaches zero exactly *)
(* when the last hook has run; the counters count the finished hooks.      *)
InHook(i) == \E w \in Workers : wpc[w] = "hook" /\ env[w].job = i
CountedOK == {i \in Ifaces : results[i] = 1 /\ ~InHook(i)}
CountedFailed == {i \in Ifaces : failures[i] = 1}
CountInv ==
  /\ wg = Cardinality(Outstanding)
  /\ processed = Cardinality(CountedOK)
  /\ failed = Cardinality(CountedFailed)

(* All of it together, with the type of every variable and the single      *)
(* holder of every interface, is preserved by every step of the pool.      *)
PoolInv == TypeOK /\ OneHolder /\ MainInv /\ WorkerInv /\ SettledInv /\ CountInv

(* Execute implements InterfaceBatch: every interface is settled once, in  *)
(* one step, and never changes its outcome; and Execute returns, unless    *)
(* its context is cancelled (configure_network.go:131-265).                *)
outcomeOf(i) == IF failures[i] > 0 THEN "failed"
                ELSE IF results[i] > 0 THEN "configured" ELSE "pending"
Batch == INSTANCE InterfaceBatch
           WITH outcome <- [i \in Ifaces |-> outcomeOf(i)],
                returned <- mpc \in {"returned", "error"},
                cancelled <- ctx = "cancelled"
ImplementsBatch == Batch!BatchSpec
ImplementsBatchSafety == Batch!BatchSafety

(* No goroutine is left behind: once Execute has reported, its workers     *)
(* return.                                                                 *)
WorkersReturn == mpc = "returned" ~> \A w \in Workers : wpc[w] = "exit"

(* A call whose context is cancelled still comes to an end                 *)
(* (docs/SESSION_PROGRESS.md:346 and the shutdown path of                  *)
(* cmd/agent/main.go:163).                                                 *)
CancelledCallReturns == ctx = "cancelled" ~> mpc \in {"returned", "error"}
=============================================================================
