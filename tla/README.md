# A TLA+ verification of the multi-network-interface agent

The repository configures additional network interfaces of Kubernetes nodes. A
controller turns one custom resource per node (`MultiNicNodeConfig`, "the CR")
into agent Jobs; an agent renames the links of its node to `multinic0` ..
`multinic9`, gives them addresses and writes the files that make this survive a
reboot. An agent may also run as a service that takes its interfaces from a
database. This directory models that system in TLA+, checks the models with TLC
on small instances, and proves their safety properties with TLAPS for every
instance.

- [Inventory](#1-inventory)
- [Modules and what they model](#2-modules-and-what-they-model)
- [Runs](#3-runs)
- [Bounds](#4-bounds-and-why-they-are-enough) and [fairness](#5-fairness)
- [Proofs](#6-proofs)
- [Findings and observations](#7-findings-and-observations)
- [Left out, and the plan](#8-left-out-and-the-plan)

Source paths below are relative to `src/`.

## 1. Inventory

| component | state | operations | hard behaviour | correct when |
|---|---|---|---|---|
| Configure use case and worker pool (`internal/application/usecases/configure_network.go`, `worker_pool.go`, `orchestrator.go`) | bounded channel, worker goroutines, WaitGroup, result and failure lists, counters | `Execute`, `Submit`, worker loop, retry policy, panic handler, after-hook, `stop` | a worker sends to the channel it reads from; hook exactly once per interface over all attempts; close while a backoff runs; cancellation | no send blocks or hits a closed channel; every interface is reported once; the call returns and its goroutines end |
| Interface naming (`internal/domain/services/interface_naming.go`) | `reservedByMac`, `reservedNames` under a mutex, names on the links | `ReserveNamesForInterfaces` (three loops), `GenerateNextNameForMAC`, `isNameTaken` | links change while the loops run; a name is used long after the mutex was released; names run out; the maps are lost in a restart; every command may fail | names are unique, free for their owner, and stay |
| Controller (`internal/controller`, `cmd/controller`) | CR with generation and status, Jobs, informer queues, scheduled deletions | `Reconcile`, `ProcessJobs`, `ProcessAll`, `updateInterfaceStates`, `handleCRDelete`, `scheduleJobDeletion` | three goroutines without a lock, optimistic status writes whose refusal is ignored, Jobs known by name only, restarts between API calls | the status of the CR is that of its latest spec, and it gets one |
| Delete use case (`delete_network.go`) | files in `/etc/netplan` (RHEL: `network-scripts`) | search for orphans, deletion, full cleanup, names given back | list, spec and files read at different times; one deletion of several fails | exactly the files of unlisted interfaces go |
| OS adapters (`internal/infrastructure/network`) | links, addresses, one file per name | `Configure`, `Validate`, `Rollback` for netplan and RHEL | several commands per interface, any of which may fail; the agent may be killed between two | what is reported is on the link and in the file |
| Agent main (`cmd/agent/main.go`) | the polling loop of service mode | one apply or cleanup in job mode, exit code and report; cycles in service mode | signals are not read in job mode, so agents of two Jobs may overlap; a cycle may stop anywhere | the exit code and the report tell what happened; a service converges |
| CR repository (`internal/infrastructure/persistence/nodecr_*.go`), entities and value objects | none (every interface is `Pending`) | read the spec, give every entry an id, skip entries that are not acceptable | the CR changes or goes between two reads; ids come from names, from the spec and from the list | an entry and its interface are matched |
| MySQL repository (`mysql_repository.go`) | rows with settings and `netplan_success` | all rows of a node, active rows, mark a row | rows are edited while a cycle runs; marks are written by id later | rows and node agree in the end |
| Processing decision and drift detector (`processing_decision.go`, `drift_detector.go`) | none | process or skip an interface | row, mark, file and link are read at different times | nothing that differs is skipped |
| Polling strategies (`internal/application/polling/strategy.go`) | backoff level, ticker | next interval after success and failure | float arithmetic, limits | between one and the maximum interval; back to normal after success |
| Health service, metrics | result of the last cycle, counters | answer of the health server | the liveness probe stops an agent that is unhealthy | |
| Routing coordinator | a mutex and counters | `ExecuteWithLock` | called by no production code | see 7 |
| Configuration, container, adapters | | wiring, I/O | | not modelled |

How they interact: the user writes the CR; the controller reads it, writes its
status and creates and deletes Jobs; a Job's pod runs one agent, which reads
the CR again by itself, runs the delete use case and then the configure use
case, and leaves a summary in its termination message; the controller reads
that summary from the pod. The configure use case calls the naming service and
the adapters from several workers at once. Nothing but the API server and the
files of the node connects two agents. A service agent does the same cycle after
cycle, with a database in place of the CR; whether a cycle failed decides about
the next interval and about what the health server says.

`PROJECT.json` lists, under `hazards`, what of this is hard to test, at the
line where it bites, with the property that would show it going wrong.

## 2. Modules and what they model

Every definition that stands for code has its lines in `PROJECT.json`, `map`.
Each component module has a thin `MC...` module with the symmetry sets of its
runs. A definition whose comment begins with "Mutated form" is a plausible
mistake; replacing the definition it varies by it violates the property it is
listed with under `mutants`, so every property can tell right from wrong code.

**InterfaceBatch** is the promise of one `Execute` call, without workers:
interfaces are settled one by one, once, and the call returns when all are, or
before any is touched.

**ConfigurePool** is one call of `Execute`. `mpc` is the calling goroutine
(list, `wg.Add`, `Submit`, `wg.Wait`, `stop`), `wpc[w]` a worker between its
`select`, the handler (preflight and naming, then `apply`), the backoff, the
send that puts an interface back, the after-hook and `wg.Done`. Handlers fail
with the error types the code produces, succeed or panic; the context may be
cancelled at any time. Its refinement mapping to InterfaceBatch reads the
outcome of an interface off the two lists.

**InterfaceNaming** is the naming service of one node. The mutex is `pc`: while
it is not `"free"` only the holder moves in the maps, but links still change,
because renames of other workers, ports that are attached and detached, and the
cleanup of names do not take the mutex. Each `ip` command is a read at its own
step; `CmdFails` lets it fail, `Explicit` lets the spec ask for names.

**NodeController** is the controller for one node. One step per API call: the CR
informer's handler `"C"`, the Job informer's handler `"J"` and the main
goroutine `"M"` (poll mode: a pass per tick; watch mode: one pass after a start)
read a copy of the CR, and a write is refused when the copy is outdated
(`fresh`); any call may fail (`ApiError`), and the controller may stop between
any two (`Restart`). `mapped` says whether there is a Node of that name with the
UUID the CR gives; while there is not, every `Reconcile` of a CR that needs a
Job fails (`ReconcileMismatch`), as often as it is tried, and in poll mode an
error of a pass ends the process (`Exits`). Calls that fail, restarts and
changes of the Node are bounded by `MaxFaults` together. Jobs have only a name,
a phase, and the spec their agent has read. The Pod informer's handler changes
nothing (see 7) and has no actor. `node` says whether the files on the node are
those of the current spec, of another one, or none. The API server, pods and
users are environment.

**NodeFiles** is the node as agents change it: names of links, the settings
(`conf`) on them, and one file per name. An agent lists files, reads the spec,
collects orphans, deletes them, reads the spec again, reserves names, and then
takes all interfaces through rename, address, file and validation side by side;
errors lead to a rollback and possibly another attempt. Agents may be killed at
any step, also in the middle of a write, which truncates the file first
(`Cut`, filesystem.go:58); directories and files may not be readable, writable
or removable, and what an agent has only logged is in `left`. Users change the
spec and ports come and go meanwhile. `os` says where files are looked for;
`conf[m]` is the set of MACs whose addresses are on the link of `m`.

**StatusReport** is one Job seen from its CR: which entries of the spec the
agent accepts and with which ids (`loadAll`, `NewNetworkInterface`), what it
leaves in its termination message, and how `ProcessJobs` and
`updateInterfaceStates` turn that into `status.state` and
`status.interfaceStatuses`, matched with a spec that may have changed. A Job is
taken in one pass after the other until it is deleted, and each time its
message may be there or not (`read`). Outcomes (`status`) and what
`updateInterfaceStates` makes up from the Node (`actualState`) are kept apart,
as in the code. NodeController has the goroutines and Jobs of several
generations, and only says whether a report has failures.

**Polling** is the interval arithmetic and the ticker; the base is positive,
which `config.go` checks, and nothing else is assumed of the configuration.
**ServiceAgent** extends it: one agent in service mode over rows of a database.
A cycle deletes orphans, reads the rows, and takes every interface through
preflight, the decision whether to process it, rename, address, file, validation
and mark, or rollback and another attempt, with as many at a time as the pool
has workers. Rows are edited, ports come and go, commands, queries, writes and
updates fail and the process stops at any point, in the middle of a write too;
each of these is an *event*, and there are `MaxEvents` of them.
`completeOnPartial` is `JOB_COMPLETE_ON_PARTIAL_FAILURE`, and decides whether a
cycle in which only some interfaces fail has failed.

Abstractions that matter for reading the results:

- *ConfigurePool*: what a handler does to the node is NodeFiles' business.
- *InterfaceNaming*: one MAC is one interface; a link is one of our names, some
  other name (`Kernel`) or missing.
- *NodeController*: the system starts with the controller up and its first pass
  over an empty cluster done, so `"M"` moves in watch mode only after a restart.
  Waiting notifications of one kind count as one, since the handler reads the
  CR again. A Job that is deleted takes its agent with it; the overlap is
  NodeFiles' subject. A cleanup that could not remove all files still succeeds.
  The time to live of finished Jobs (600 s) is longer than a poll interval
  (15 s) and than any handler takes. The process that exits in poll mode is
  started again at once. The per-interface entries of the status
  are in StatusReport.
- *StatusReport*: every entry has a MAC of its own, and messages either fit or
  are cut; whether address, CIDR and MTU are acceptable is one bit.
- *ServiceAgent*: a MAC has at most one row; an interface has one name as long
  as it is listed (names are InterfaceNaming's subject), so a file is known by
  its MAC. A process never gives a reservation back (interface_naming.go:212),
  so one that has seen ten other MACs has no name for the next; that is not in
  this module. An update that changes nothing in a row, for which MySQL counts no
  row (two updates within a second), is one of the events. A probe is slower
  than a cycle of a new agent: the DaemonSet waits 30 s and then for three
  failures 30 s apart.
- *Cut files* (NodeFiles, ServiceAgent): a file that is cut after its MAC counts
  as whole; a cut one is there, but nothing finds a MAC in it.
- *NodeFiles*: routes, MTU and sysctls follow the address and are left out; the
  `.link` and the `.nmconnection` of RHEL are one file; reading the spec and
  reserving names are one step (InterfaceNaming has the steps in between);
  whether a link is up is unknown, so both outcomes are possible wherever it
  matters; the number of retries is not bounded (ConfigurePool bounds it);
  names asked for by the spec are left to InterfaceNaming.

## 3. Runs

Each is `tlc -config <cfg> <module>`.

| run | module, cfg | checks | shows |
|---|---|---|---|
| pool | MCConfigurePool, `_pool` | TypeOK, SendersNeverBlock, OneHolder, ClosedIsQuiet, ReportComplete, PoolInv, ImplementsBatchSafety, ImplementsBatch, WorkersReturn | with retries, panics and cancellation the channel is never full for a sender and never closed too early, an interface is in one place, the report is complete; every step is a step of InterfaceBatch; a call that is not cancelled returns, and no call leaves a goroutine behind |
| pool_cancel | `_cancel` | CancelledCallReturns (violated) | a cancelled call may wait for ever |
| naming_auto | MCInterfaceNaming, `_auto` | TypeOK, UniqueNames, NameFreeForOwner, NamingInv, LinkKeepsName | names chosen by the service are unique and are never on another link, and links keep theirs, with more MACs than names and with restarts, as long as commands work |
| naming_explicit | `_explicit` | ReservationKept, ChosenNameIsFresh | with names in the spec and failing commands, reservations are kept and what the service picks itself is still nobody else's |
| controller_watch | MCNodeController, `_watch` | TypeOK, ControllerInv, SpecNoticed, ObservedMonotone, FinalStateKept | refused writes, failing calls, a Node that is missing or another one, restarts between any two calls and races between the handlers, the first pass and the user reopen no result; refused writes, restarts and races lose no generation either |
| controller_poll | `_poll` | ConfiguredMeansApplied, SpecSettles | in poll mode, with Jobs deleted at once, "Configured" is true at every moment until a fault or a second CR of the node; and every spec whose Node is there gets a result and is not reopened, with failing calls, exits and restarts, a Node missing for a while, delayed deletions and new CRs |
| controller_stale_job | `_stalejob` | SettledMeansApplied (violated) | in watch mode an old Job's result is recorded for the new spec |
| files | MCNodeFiles, `_node` | TypeOK, ConfiguredIsPersisted, AddressOnOwnLink, OrphansRemoved, CleanupRemovesAll | one agent at a time, on Ubuntu or RHEL, with more interfaces than names, killed anywhere, with writes that are cut and files that cannot be read or removed: what is configured is in its file, addresses are on their links; on Ubuntu a search leaves no orphan but those it has logged a failure for, and neither does a cleanup |
| files_overlap | `_overlap` | OnlyOrphansDeleted (violated) | an agent that is still running deletes the file its successor has written |
| status | MCStatusReport, `_report` | TypeOK, FailureReported, ConfiguredMeansAll, OutcomesMatch | with any mixture of ids, names and order, rejected entries, a spec that changes on the way and a Job that is taken again and again: as long as the summary is read, no failure is lost and, ids being unambiguous, nothing else is reported as failed |
| service | MCServiceAgent, `_events` | TypeOK, CountedIsWritten, MarkedWhenWritten, Converges, OrphansGo, PaceRecovers | what a cycle counts is in the file, and a row is marked only while it is; after the last of two events of any kind rows, files, links and marks agree for good, orphans are gone but for cut files, and the agent is healthy and at its normal pace, unless what is left makes every cycle fail (`Failing`) |
| backoff_overflow | MCPolling, `_overflow` | WithinMaxInterval (violated) | enough failures in a row make the interval overflow before it is limited |

Deadlock is not checked where the system stops by design: a call of `Execute`
ends, and the controller and its user may have nothing left to do within the
bounds; a Job ends, and so does an agent whose ticker panics. The naming, file
and service models never stop (ports, agents and cycles come and go), and are
checked for deadlock.

`SpecNoticed` is a safety property about quiet moments rather than "eventually
observed": in watch mode the two handlers can refuse each other's writes again
and again, so no fairness of the scheduler gives the eventual form.

## 4. Bounds and why they are enough

- Pool: 3 interfaces, 2 workers, 1 retry, so that the channel is shared, an
  interface waits while two are worked on, and an interface fails for good
  after another attempt. The theorems need no bound.
- Naming: 3 MACs and 2 names, so names run out and one MAC is left without.
  The theorems need no bound.
- Controller: 2 generations (a stale and a current Job) and 1 fault, a Node that
  is there or not from the start and a change of it as a fault; in poll mode,
  which has no handlers, also 2 creations of the CR, both kinds of Job deletion
  and Jobs that succeed in part. The theorems need no bound. `MaxGen`, `MaxInc`
  and `MaxFaults` guard what users and faults do: what the controller does is
  never cut off.
- Files: 3 MACs on 2 names as long as nothing changes, so that one is left
  without a name; 2 MACs with 2 changes of the spec or of the ports on Ubuntu
  (list and unlist again, or unlist and detach) and 1 on RHEL (constraint
  `Small`); one version of the settings, since what a file or a link says is
  told apart by its MAC. For the overlap 2 agents of which none cleans up and
  for which nothing fails (`Smooth`): the violation needs no more. The
  theorems need no bound. An
  older RHEL only adds a directory in which nothing is found (with `OSes =
  {"rhel8"}` the run passes as well).
- Status: 2 entries and 3 ids and names, so that ids given, ids from names and
  places in the list coincide and miss each other, and the largest id given is
  one that no interface can have, as 10 is in the code; 1 change of the spec at
  any time.
- Service: 2 MACs, 2 settings, 2 workers (which may also work one after the
  other, as the default of 1 does) and 2 events: enough to edit a row under a
  cycle and lose its mark, or crash in a write. Partial failures that count are
  explored on Ubuntu only: what a cycle counts for is the same code on both
  systems. Durations go up to 3 and
  the maximum interval is 2, so three failures in a row overflow.
- Polling: Durations of 8 bits, a base of 3 and a maximum of 30; the ratios,
  not the numbers, decide.

Symmetry is used for MACs, interfaces and workers in runs that check invariants
and action properties, never for liveness.

## 5. Fairness

ConfigurePool assumes that the caller and each worker take a step when they can:
the Go runtime schedules goroutines, every command runs under a timeout, and
backoffs are timers. Cancellation is not fair: it may never come.
NodeController's `FairSpec` assumes that the two handlers and the main loop are
scheduled (the ticker ticks) and that the pod of every Job starts and ends:
Kubernetes starts it, and the agent in it ends because its commands run under
timeouts and `Execute` returns (pool); the Job itself has no deadline. Nothing
is assumed of users, of restarts, of delayed deletions or of the time to live. A
controller that has exited is started again, which is the next move of its main
loop. Failing API calls are bounded, since the code cannot promise anything
against an API server that always fails. InterfaceBatch is fair only while the
call is not cancelled. ServiceAgent assumes that the agent goes on
(`WF_vars(Agent)`): the ticker ticks, commands have timeouts, queries end, and a
container that has stopped is started again; nothing is assumed of events and of
probes. A Node that is missing, or another one than the CR names, is no fault
that goes by: `SpecSettles` speaks of CRs whose Node is there (`mapped`), and
`PaceRecovers` and `Converges` say in the same way what makes every cycle fail
(`Failing`). The other modules have safety properties only.

## 6. Proofs

Checked by `tlapm` for every value of the constants.

`ConfigurePoolProofs`, from `PoolAssumption` (finite sets of interfaces and
workers, at least one worker, at least one retry): `PoolInvariant`,
`TypeCorrect`, `SingleHolder`, `NoBlockedSend`, `NoSendAfterClose`,
`CompleteReport` and `BatchRefinement`. The properties are not inductive as
they stand. That no sender blocks follows from counting: the channel has as
many slots as there are interfaces, and a sender holds one interface itself, so
at most one less is in the channel. This needs every interface to be in one
place (`OneHolder`). That the channel is quiet when it is closed needs the
WaitGroup to count exactly the interfaces that are not finished (`CountInv`:
`wg = Cardinality(Outstanding)`, an interface dropped by a cancellation staying
outstanding), which needs to know where a settled interface can still be
(`SettledInv`) and what a worker in its hook has recorded (`WorkerInv`).
`PoolInv` is their conjunction. There is a lemma per action; a step of the
batch specification is a result that is added or a failure the hook records.

`InterfaceNamingProofs`, from `NamingAssumption`: `NamingInvariant`,
`TypeCorrect` and `ReservationsAreKept` without further hypotheses, and
`ChosenNamesAreFresh`, also without any: a name found free by `isNameTaken` is
nobody's, because every reservation is in the set of names that it looks at
(`MarkedInv`). `NamesAreUnique` and `RenameTargetIsFree` hold when the spec asks
for no names (`~Explicit`), failing commands included; `LinksKeepTheirNames`
when in addition commands work (`~CmdFails`). `NamingInv` adds to the properties
that the two maps agree, that a scan is for a MAC without a reservation, and,
for the last theorem, how far the loops have come: a listed MAC without a
reservation whose link has one of our names has that name still ahead of it.
Without the hypotheses the last three are false, see 7.

`NodeControllerProofs`, from `ControllerAssumption`: `ControllerInvariant`,
`TypeCorrect`, `ObservedNeverGoesBack` and `FinalStatesStay` in both modes, and
`SpecIsNoticed` in watch mode; for any number of generations, CRs, restarts and
failing calls. None of the three properties is inductive: a write is harmless
only because of what its copy said when it was read. `ControllerInv` therefore
says of an actor about to mark the CR that, while its copy is the latest, the
generation it has read is still the current one and still needs a Job
(`FreshInv`); every write of the CR, by whomever, empties the set of latest
copies (`StoreKeeps`), and only one with the latest copy is accepted
(`StatusWriteKeeps`). For `SpecNoticed` it says where the notice of a spec is
that was not observed yet (`NoticeInv`), while no call has failed and the Node is
there: in the queue of the informer, with the handler before it reads the CR, or
with the handler that has the latest copy. A
refused write of the handler is no loss, since the write that outdated its copy
has put a new notification in the queue. The two action properties follow from
a lemma that lists the steps that change the CR (`HowCRChanges`).

`PollModeProofs` extends it to `ConfiguredIsApplied`: in poll mode, for any
number of generations, `ConfiguredMeansApplied`. That "Configured" is true
depends on the whole life of the Jobs, and `PollInv` follows them: there is
nobody but the main goroutine and no cleanup Job (`MainOnly`); outside of the
deletion of stale Jobs there is at most one Job (`OneJob`), of a generation the
user has written, and once the current generation was observed it is that one's
(`JobsOfSpec`); a write that is refused means a newer spec (`Reconciling`); Jobs
that were listed stay as they were seen until their result is written
(`Recording`); and the Job of the current generation has read the current spec,
however late its agent started (`JobApplies`). All of it is claimed only while
no call has failed, the controller was not restarted, Jobs are deleted at once
and the CR is the first, which is what `ConfiguredMeansApplied` says too; without
these it is false, see 7. The proof found an ambiguity in the model: two arms of
the `CASE` in `AgentFinish` overlapped, and only TLC's order of evaluation made
it right. The arms are disjoint now. `PollInv` was checked with TLC for 3
generations, 2 CRs and 1 fault (15 million states) as well.

`StatusReportProofs`, for any list of entries, any number of changes of the
spec and any ids: `StatusTypeCorrect`, `FailuresAreReported`,
`ConfiguredIsComplete` and `OutcomesAreMatched`. All are about a summary that the
controller has read; without one the exit code is all it has, and a Job that was
found to have failures may be reported as configured in a later pass (see 7).
`ReportInv` adds to the properties that nothing is reported before the agent
exits (`Untouched`) and what can be told from exit code and message together
(`MessageTells`): a failed Job with a summary has failures in it, and the
controller goes by that summary or by none.

`PollingProofs`, from no more than what `config.go` checks: `NeverBeyondMaximum`
(`PaceOK`: after a failure the interval is within the maximum or refused by the
ticker, overflow or not, and otherwise it is the base, which has no limit) and
`WithinMaximumUntilOverflow`: if the maximum is at least the base, an interval
that is not within 1 and the maximum comes from a product that does not fit a
`Duration`. Under that condition, which nothing checks, the overflow that run
backoff_overflow shows is the only way out of the limits; without it a maximum
that is not positive is another one (see 7). The powers of numerator and
denominator are recursive functions; that there are such functions, what their
values are and that no product is below 1 is proved by induction from the least
element of a set of numbers (`LeastNumber`, `SetInduction`), since the library's
induction theorems take an operator and cannot be used with these provers.
`MaxBackoff` bounds the failures that are told apart and may be any number.

`ServiceAgentProofs` builds on it: `ServiceTypeCorrect`, `CountedIsInFile` and
`MarksAreWritten`, for any sets of MACs and settings and any number of events,
writes that are cut included.
`ServiceInv` says that the pool is empty outside of a cycle (`Idle`), only has
interfaces that were read from an acceptable row (`ViewKnown`), and that a file
has the settings that were read from its write to the end of the cycle
(`Written`), whatever happens to rows and links meanwhile.

`NodeFilesProofs`: `FilesTypeCorrect` for any number of agents, and
`ConfiguredIsInFile`, `AddressesAreOwn`, `OrphansAreRemoved`,
`CleanupIsComplete` and `DeletedWereOrphans` under `Alone`, one agent at a time,
for any MACs, names, versions and changes of the spec. `OrphansAreRemoved` does
not say that every orphan goes, but that nothing stays besides what the agent
has logged as not readable or not removable. `Alone` is needed: an agent knows
only what it has read itself, and the run files_overlap shows one of them
undoing the other's work; `DeletedWereOrphans` says that one agent by itself
deletes, as an orphan, only what its list did not have. The invariant has two
parts. `LocalInv` says of every agent that what it knows is consistent in itself
(interfaces in work have a name and settings, no name is given twice, nothing is
in work before the spec was read). `SharedInv` relates the one agent to its
node: names it has reserved are on no other link (`NamesOwn`), which keeps
addresses on their links; what it has written is in the files (`Persisted`);
every file is still to be looked at, about to be deleted, of a listed interface,
or was logged (`Accounted`); and what it is about to delete is no file of a
listed interface (`Chosen`).

Only model-checked is liveness (`ImplementsBatch`, `WorkersReturn`,
`SpecSettles`, `Converges`, `OrphansGo`, `PaceRecovers`): liveness under
fairness and `ENABLED` are out of this prover's reach. Every other property of
a passing run has a theorem, some under hypotheses that are named above. No
module uses a RECURSIVE operator.

## 7. Findings and observations

Four disagreements between the code and what is said about it have a run:

- **pool_cancel**: `wg.Wait()` (configure_network.go:255) waits for hooks that
  a cancelled backoff (worker_pool.go:103-111) and cancelled workers never run.
- **controller_stale_job**: `ProcessJobs` (reconciler.go:195) never compares a
  Job's generation with the one the CR reports as observed.
- **files_overlap**: orphans are deleted by name from an older list
  (delete_network.go:114); in job mode the agent does not react to SIGTERM.
- **backoff_overflow**: `NextInterval` converts the product to a `Duration`
  before it limits it (strategy.go:66-72). With 30 s and a factor of 2 the 30th
  failure in a row leaves int64; on amd64 the result is negative, and
  `Ticker.Reset` panics. A DaemonSet with its liveness probe restarts the agent
  earlier; one without, or an agent that runs outside Kubernetes, gets there in
  about two and a half hours without its database.

Others came up while the models were written. Where a formula is given, TLC
finds it violated as an invariant of the module with the constants of the runs
above, changed as named:

- Two workers are in `processor.Process` at once; the README promises
  serialisation by a global mutex that nothing takes. ConfigurePool:
  `\A v, w \in Workers : wpc[v] = "apply" /\ wpc[w] = "apply" => v = w`.
- A name the spec asks for is reserved even if it is reserved for another MAC
  whose link does not carry it yet (interface_naming.go:154): `UniqueNames`
  with `Explicit = TRUE`.
- A refused result write is dropped and the Job deleted (reconciler.go:322,330):
  in watch mode the CR can stay InProgress with nothing left to wait for.
  NodeController: `cr.uid # 0 /\ cr.st = "InProgress" /\ Quiet => \E n \in
  JobNames \ {Cleanup} : Exists(n)`.
- A CR deleted while its apply Job runs: the cleanup may end first
  (watcher.go:130). `cr.uid = 0 /\ Quiet /\ JobsEnded /\ jobs[Cleanup].phase =
  "succeeded" => node = "clean"`.
- On RHEL orphans are looked for as `ifcfg-multinic*` (delete_network.go:143)
  while the adapter writes `.nmconnection` files elsewhere: `OrphansRemoved`
  for `os = "rhel9"`.
- `Rollback` (netplan_adapter.go:158) removes the file also when the attempt
  had not written one, and restores nothing.
- An interface that comes back under another name keeps its old file
  (delete_network.go:240), so two files with `set-name` match one MAC.
  NodeFiles: `\A a \in Agents, m \in Macs, n \in Names : ag[a].phase[m] = "ok"
  /\ files[n] \in Config /\ files[n].mac = m => n = ag[a].name[m]`.
- The handler of the Pod informer takes the name of the CR from the name of the
  Job, `multinic-agent-<node>-g<generation>` (watcher.go:117-121), so it asks
  for a CR `<node>-g<generation>`, which does not exist, and
  `ApplyTerminationSummary` never writes anything.
- With restarts, failing calls, delayed deletions or a CR created again under
  the same name, poll mode has the stale-Job problem too: `ReportedRight`.
- With delayed deletions (1800 s in `helm/values.yaml:65`) a Job that succeeded
  in part is taken again in every pass until it is deleted, since its CR says
  Failed and not Configured (reconciler.go:195-196), and becomes Configured as
  soon as its report cannot be read: the pods cannot be listed, or are gone
  (reconciler.go:429-432). StatusReport: `state = "Configured" /\ msg = "summary"
  => failures = {}`. A result that `SpecSettles` promises is not reopened, but
  Failed may so turn into Configured.
- A CR that names a UUID its Node does not have, or whose Node is missing, never
  settles: every `Reconcile` returns an error (reconciler.go:70-81). In poll
  mode the error ends `ProcessAll` (156-158) and the process (service.go:17-36)
  in every pass, before the CRs that come later in the list and before
  `ProcessJobs`. In watch mode the notification is used up, and nothing looks at
  the CR again when the Node is there. NodeController: `SpecSettles` without
  `mapped` (`_poll`), `SpecNoticed` without `errors = 0` (`_watch`).
- `updateInterfaceStates` writes `actualState: Configured` for every entry of a
  CR whose Node is ready and has an InternalIP (reconciler.go:855-866,878-908),
  also for interfaces that have failed. StatusReport: `\A s \in statuses, f \in
  failures : s.mac = f.mac => s.actual # "Configured"`.
- A file that is empty or cut before its MAC, as a kill in `os.WriteFile`
  (filesystem.go:58) leaves it, is skipped with a warning by every search for
  orphans (delete_network.go:233-240) and stays, also when its interface is no
  longer listed. NodeFiles: `OrphansRemoved` without `n \notin ag[a].left`;
  ServiceAgent: `OrphansGo` without `Cut`.
- While commands fail a MAC may get another name than the one its link has
  (interface_naming.go:178): `LinkKeepsName` with `CmdFails = TRUE`.
- The names of a process are used up by ten different MACs
  (interface_naming.go:212, configure_network.go:227-231); an agent that runs as
  a service needs a restart for an eleventh, also when the others are gone.
- `BACKOFF_MAX_INTERVAL` is not validated (config.go:131-175): one that is zero
  or negative makes `Ticker.Reset` panic at the first failure, and one below
  `POLL_INTERVAL` makes a failing agent quicker than one that succeeds.
  Polling: `WithinMaxInterval` with `MaxInterval = 0` or `MaxInterval = 2`.
- Entries the agent skips (address or MTU not acceptable, the tenth without a
  name) fail no Job; when another interface fails they are reported as
  Configured (reconciler.go:248,390). StatusReport: `read = "summary" => \A s
  \in statuses : s.status = "Configured" => \E n \in loaded : n.mac = s.mac`.
- Ids may collide: an entry without id and name gets its place in the list, an
  entry with a name the number in it. Failures and results are matched by id
  first (reconciler.go:226,298), so another entry may be reported as failed, or
  a result gets another entry's address: `OutcomesMatch` without `UniqueIds`.
- A termination message above 4096 bytes is cut and no longer parses, and an
  error of its write is ignored (main.go:311): a partly failed Job is then
  reported as Configured. `state = "Configured" => failures = {}` with
  `msg = "cut"` or `msg = "none"`.
- `updateInterfaceStates` (reconciler.go:809) writes over the outcomes in
  `interfaceStatuses`, in every pass of poll mode.
- Service mode on Ubuntu: a link that is down, with a file and a mark that
  agree with its row, is skipped (processing_decision.go:43-46,
  drift_detector.go:270): a port that was detached and attached again, or set
  down, is never brought up. ServiceAgent: `Converges` without `os = "rhel" =>`
  in its last line. A link that is up, on the other hand, counts as drift and is
  configured again in every cycle, if the preflight lets it.
- The address of a row that was changed is added to the link; the old one stays
  (netplan_adapter.go:88-122, `ip addr replace`). `conf[m]` is a set for that.
- A row no entity can be built from, such as one whose id is above 9, which the
  agent takes for the number of an interface (value_objects.go:182), loses its
  file as an orphan on Ubuntu (mysql_repository.go:268).
- An update that leaves a row as it is, within one second, is taken for a
  missing row (mysql_repository.go:176) and fails an interface that is
  configured; the next cycle repairs it.
- A cycle counts as failed, and makes the agent unhealthy, when all its
  interfaces fail: a node whose ports are all detached restarts its agent for
  ever (health_service.go:151). With `JOB_COMPLETE_ON_PARTIAL_FAILURE=false` one
  detached port is enough (main.go:258-266), and the probe may then stop the
  agent in the middle of any later write: `PaceRecovers` and `Converges` without
  `Failing`.

## 8. Left out, and the plan

Done in this order: ConfigurePool with InterfaceBatch and its proofs,
InterfaceNaming and its proofs, NodeController, NodeFiles, StatusReport, Polling
and ServiceAgent, NodeControllerProofs, then the proofs of StatusReport,
Polling, ServiceAgent, NodeFiles and of poll mode. Next:

1. An abstract specification of a node (which interfaces are configured, and
   with what) that NodeFiles implements for one agent, from `SharedInv`.
2. What may be said of two agents that overlap: which of the theorems about
   NodeFiles hold when the older one is past the deletion of orphans.
3. An abstract specification of the status of a CR that NodeController
   implements in both modes, from `StatusStep`.

Not modelled, and why: routes, rules and sysctls of the adapters, which follow
the address and are not read again by any decision; the parsers of addresses,
of MACs and of command output, which keep no state; the adaptive polling
strategy, `GetPendingInterfaces`, `GetInterfaceByID`, the ifcfg half of the
drift detector and the routing coordinator, which the agent never reaches;
names that run out over the life of a service; configuration, dependency
wiring, metrics and file I/O.
