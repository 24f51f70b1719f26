---------------------------- MODULE ServiceAgent ----------------------------
(***************************************************************************)
(* An agent that runs as a service (RUN_MODE=service, DATA_SOURCE=db, the  *)
(* defaults): cycle after cycle it deletes the files of interfaces whose   *)
(* row is gone, reads the rows of its node and brings every interface to   *)
(* the settings of its row, side by side. What it has done is marked in    *)
(* the row, which others may change at any time. How long it waits between *)
(* two cycles is said by Polling.                                          *)
(*                                                                         *)
(*   src/cmd/agent/main.go:162-330                                         *)
(*   src/internal/infrastructure/persistence/mysql_repository.go           *)
(*   src/internal/application/usecases/configure_network.go,               *)
(*     processing_decision.go, orchestrator.go, delete_network.go          *)
(*   src/internal/domain/services/drift_detector.go                        *)
(*                                                                         *)
(* A MAC has at most one row, and names are left to InterfaceNaming: an    *)
(* interface has one name, and one file, as long as its row is there.      *)
(* Disturbances (edits, faults, crashes, ports that come and go) are       *)
(* counted by events; liveness is about what follows the last of them.     *)
(***************************************************************************)
EXTENDS Polling, FiniteSets

CONSTANTS Macs,       \* MAC addresses of interfaces
          Settings,   \* address, CIDR and MTU that an entity accepts
          Rejected,   \* a row no entity can be built from
          NoRow, NoFile,
          Cut,        \* a file without its MAC, which a stop in a write leaves
          MaxConcurrentTasks,  \* workers of the pool
          MaxEvents   \* bound: disturbances

ASSUME ServiceAssumption ==
  /\ NoRow \notin Settings /\ NoFile \notin Settings /\ Rejected \notin Settings
  /\ Cut \notin Settings /\ Cut # NoFile
  /\ MaxConcurrentTasks \in Nat \ {0} /\ MaxEvents \in Nat

VARIABLES
  os,      \* "ubuntu" or "rhel"
  completeOnPartial,  \* JOB_COMPLETE_ON_PARTIAL_FAILURE: true, or not set
  want,    \* want[m]: settings in the row of m
  ok,      \* ok[m]: its column netplan_success
  gone,    \* MACs whose row was deleted after it was read
  link,    \* link[m]: "absent", also when in use under a name of its own;
           \* "idle", "unused": under such a name, down or up;
           \* "down", "up": under the name the agent has given it
  conf,    \* conf[m]: addresses set on that link
  files,   \* files[m]: settings in the configuration file, or Cut
  pc,      \* "wait", "delete", "read", "work", "dead"
  view,    \* view[m]: settings in the row when it was read
  marked,  \* marked[m]: netplan_success when it was read
  phase,   \* phase[m]: how far the worker pool is with m
  health,  \* what the health server says: "unhealthy" after a cycle that
           \* failed; before the first one nobody asks
  events   \* disturbances left

rowVars == <<want, ok, gone>>
nodeVars == <<link, conf, files>>
agentVars == <<pc, view, marked, phase>>
setup == <<os, completeOnPartial>>
vars == <<setup, rowVars, nodeVars, agentVars, pollVars, health, events>>

Listed == {m \in Macs : want[m] \in Settings}

(* The agent is installed on a node that has rows in the database.         *)
Init ==
  /\ os \in {"ubuntu", "rhel"} /\ completeOnPartial \in BOOLEAN
  /\ want \in [Macs -> Settings \cup {NoRow}]
  /\ ok = [m \in Macs |-> 0]
  /\ link \in [Macs -> {"absent", "idle"}]
  /\ conf = [m \in Macs |-> {}]
  /\ files = [m \in Macs |-> NoFile]
  /\ pc = "wait"
  /\ view = [m \in Macs |-> NoRow]
  /\ marked = [m \in Macs |-> 0]
  /\ phase = [m \in Macs |-> "none"]
  /\ gone = {}
  /\ health = "healthy"
  /\ events = MaxEvents
  /\ PollInit

(* Execute is over: what it knows of the rows is forgotten.                *)
Forget ==
  /\ view' = [m \in Macs |-> NoRow]
  /\ marked' = [m \in Macs |-> 0]
  /\ phase' = [m \in Macs |-> "none"]
  /\ gone' = {}

Event == events > 0 /\ events' = events - 1
Calm == UNCHANGED events
-----------------------------------------------------------------------------
(* A cycle                                                                 *)

(* A database that is well or not; how many interfaces failed so far makes *)
(* no difference to who asks for the HTTP status only.                     *)
UpdateDBHealth(h) == health' = h

(* What the task of the poller does after a cycle, and what the poller     *)
(* does then. The process ends when the ticker refuses its interval.       *)
CycleOver(failed) ==
  /\ IF failed THEN UpdateDBHealth("unhealthy") /\ IntervalAfterFailure
     ELSE UpdateDBHealth("healthy") /\ IntervalAfterSuccess
  /\ pc' = IF interval' = 0 THEN "dead" ELSE "wait"

Tick ==
  /\ pc = "wait"
  /\ pc' = "delete"
  /\ Calm
  /\ UNCHANGED <<setup, rowVars, nodeVars, view, marked, phase, pollVars, health>>

(* Mutated form: rows that no entity can be built from keep their files.   *)
OrphansOfNoRow == {m \in Macs : files[m] \notin {NoFile, Cut} /\ want[m] = NoRow}

(* Files of interfaces without a row, or with one that is rejected. A file *)
(* in which no MAC is found is skipped in every cycle.                     *)
Orphans == {m \in Macs : files[m] \notin {NoFile, Cut} /\ m \notin Listed}

(* On RHEL there is nothing to be found, and links that are down may get   *)
(* an alternative name back. A query, a deletion or the reading of a file  *)
(* that fails is logged, and tried again in the next cycle.                *)
DeleteOrphans ==
  /\ pc = "delete"
  /\ pc' = "read"
  /\ \E del \in IF os = "ubuntu" THEN SUBSET Orphans ELSE {{}} :
       /\ files' = [m \in Macs |-> IF m \in del THEN NoFile ELSE files[m]]
       /\ IF os = "ubuntu" /\ del # Orphans THEN Event ELSE Calm
  /\ \E ren \in IF os = "rhel" THEN SUBSET {m \in Macs : link[m] = "down"} ELSE {{}} :
       link' = [m \in Macs |-> IF m \in ren THEN "idle" ELSE link[m]]
  /\ UNCHANGED <<setup, rowVars, conf, view, marked, phase, pollVars, health>>

(* Mutated form: only rows that are not marked are read.                   *)
GetPendingInterfaces ==
  /\ pc = "read"
  /\ pc' = "work"
  /\ view' = [m \in Macs |-> IF m \in Listed /\ ok[m] = 0 THEN want[m] ELSE NoRow]
  /\ marked' = ok
  /\ phase' = [m \in Macs |-> IF m \in Listed /\ ok[m] = 0 THEN "todo" ELSE "none"]
  /\ Calm
  /\ UNCHANGED <<setup, rowVars, nodeVars, pollVars, health>>

(* Rows that are rejected are skipped.                                     *)
GetAllNodeInterfaces ==
  /\ pc = "read"
  /\ pc' = "work"
  /\ view' = [m \in Macs |-> IF m \in Listed THEN want[m] ELSE NoRow]
  /\ marked' = ok
  /\ phase' = [m \in Macs |-> IF m \in Listed THEN "todo" ELSE "none"]
  /\ Calm
  /\ UNCHANGED <<setup, rowVars, nodeVars, pollVars, health>>

QueryError ==
  /\ pc = "read"
  /\ CycleOver(TRUE)
  /\ Event
  /\ UNCHANGED <<setup, rowVars, nodeVars, view, marked, phase>>

(* Mutated form: every failure counts as a failure of the cycle.           *)
CycleFailedAny == \E m \in Macs : phase[m] = "failed"

(* A cycle in which some interfaces were configured is no failure, unless  *)
(* partial failures are to count.                                          *)
CycleFailed == /\ \E m \in Macs : phase[m] = "failed"
               /\ completeOnPartial => \A m \in Macs : phase[m] # "ok"

EndCycle ==
  /\ pc = "work"
  /\ \A m \in Macs : phase[m] \in {"none", "ok", "failed"}
  /\ CycleOver(CycleFailed)
  /\ Forget
  /\ Calm
  /\ UNCHANGED <<setup, want, ok, nodeVars>>
-----------------------------------------------------------------------------
(* The handler of the worker pool                                          *)

Phase(m, from, to) ==
  /\ pc = "work"
  /\ phase[m] = from
  /\ phase' = [phase EXCEPT ![m] = to]
  /\ UNCHANGED <<setup, pc, view, marked, pollVars, health>>

(* A worker is free to take m from the queue.                              *)
Take(m, to) ==
  /\ Cardinality({k \in Macs : phase[k] \notin {"none", "todo", "ok", "failed"}})
       < MaxConcurrentTasks
  /\ Phase(m, "todo", to)

(* No link has the MAC, or it is in use: nothing is tried.                 *)
preflightCheck(m) ==
  /\ link[m] = "absent"
  /\ Take(m, "bad")
  /\ Calm
  /\ UNCHANGED <<rowVars, nodeVars>>

(* The address, the CIDR or the MTU in the file is not the one of the row, *)
(* or it is the file of another MAC.                                       *)
checkConfigDrift(m) == files[m] # view[m]

(* The link is up, or not there.                                           *)
checkSystemInterfaceDrift(m) == link[m] \in {"unused", "up", "absent"}

(* A link that is up is configured again in every cycle.                   *)
IsNetplanDrift(m) == checkSystemInterfaceDrift(m) \/ checkConfigDrift(m)

(* Mutated form: a file that is there is right.                            *)
checkNeedProcessingNoDrift(m) == os = "rhel" \/ files[m] = NoFile \/ marked[m] = 0

(* On RHEL the file is looked for under a name it never has.               *)
checkNeedProcessing(m) ==
  os = "rhel" \/ files[m] = NoFile \/ IsNetplanDrift(m) \/ marked[m] = 0

Skip(m) ==
  /\ link[m] # "absent"
  /\ ~checkNeedProcessing(m)
  /\ Take(m, "good")
  /\ Calm
  /\ UNCHANGED <<rowVars, nodeVars>>

Begin(m) ==
  /\ link[m] # "absent"
  /\ checkNeedProcessing(m)
  /\ Take(m, "rename")
  /\ Calm
  /\ UNCHANGED <<rowVars, nodeVars>>

Rename(m) ==
  /\ link[m] # "absent"
  /\ Phase(m, "rename", "address")
  /\ link' = [link EXCEPT ![m] = IF @ = "idle" THEN "down" ELSE IF @ = "unused" THEN "up" ELSE @]
  /\ Calm
  /\ UNCHANGED <<rowVars, conf, files>>

(* The address is added to those the link has.                             *)
SetAddress(m) ==
  /\ link[m] # "absent"
  /\ Phase(m, "address", "write")
  /\ conf' = [conf EXCEPT ![m] = @ \cup {view[m]}]
  /\ link' = [link EXCEPT ![m] = "up"]
  /\ Calm
  /\ UNCHANGED <<rowVars, files>>

WriteFile(m) ==
  /\ Phase(m, "write", "validate")
  /\ files' = [files EXCEPT ![m] = view[m]]
  /\ Calm
  /\ UNCHANGED <<rowVars, link, conf>>

Validate(m) ==
  /\ link[m] \in {"unused", "up"}
  /\ Phase(m, "validate", "mark")
  /\ Calm
  /\ UNCHANGED <<rowVars, nodeVars>>

(* The link has gone, or is down when it is looked at again.               *)
LinkError(m) ==
  /\ \/ link[m] = "absent" /\ \E from \in {"rename", "address"} : Phase(m, from, "undo")
     \/ link[m] \notin {"unused", "up"} /\ Phase(m, "validate", "undo")
  /\ Calm
  /\ UNCHANGED <<rowVars, nodeVars>>

(* A command fails or times out, or a write fails with the file truncated, *)
(* partly written, or not opened.                                          *)
ApplyError(m) ==
  /\ \/ /\ \E from \in {"rename", "address", "write", "validate"} : Phase(m, from, "undo")
        /\ files' = files
     \/ Phase(m, "write", "undo") /\ files' = [files EXCEPT ![m] = Cut]
  /\ Event
  /\ UNCHANGED <<rowVars, link, conf>>

(* The file goes, if it can be removed. The error is one that is tried     *)
(* again, unless there were too many.                                      *)
Rollback(m) ==
  /\ \E to \in {"todo", "bad"} : Phase(m, "undo", to)
  /\ \/ files' = [files EXCEPT ![m] = NoFile] /\ Calm
     \/ files' = files /\ Event
  /\ UNCHANGED <<rowVars, link, conf>>

(* The row that was read is updated by its id.                             *)
UpdateInterfaceStatus(m, status) ==
  ok' = IF m \in gone THEN ok ELSE [ok EXCEPT ![m] = status]

(* NotFound, when the row has gone, is not tried again.                    *)
MarkConfigured(m) ==
  /\ Phase(m, "mark", IF m \in gone THEN "bad" ELSE "good")
  /\ UpdateInterfaceStatus(m, 1)
  /\ Calm
  /\ UNCHANGED <<want, gone, nodeVars>>

(* The update fails, or is made and the answer is lost, or changes nothing *)
(* in the row, so that MySQL counts no row. Nothing is rolled back.        *)
MarkError(m) ==
  /\ \E to \in {"todo", "bad"} : Phase(m, "mark", to)
  /\ UpdateInterfaceStatus(m, 1) \/ UNCHANGED ok
  /\ Event
  /\ UNCHANGED <<want, gone, nodeVars>>

(* The after-hook marks the outcome in the row; an error is ignored.       *)
AfterHook(m) ==
  /\ \/ Phase(m, "good", "ok") /\ UpdateInterfaceStatus(m, 1) /\ Calm
     \/ Phase(m, "bad", "failed") /\ UpdateInterfaceStatus(m, 0) /\ Calm
     \/ Phase(m, "good", "ok") /\ ok' = ok /\ Event
     \/ Phase(m, "bad", "failed") /\ ok' = ok /\ Event
  /\ UNCHANGED <<want, gone, nodeVars>>
-----------------------------------------------------------------------------
(* Disturbances                                                            *)

(* Others insert, change or delete the row of m; a change may or may not   *)
(* reset its mark.                                                         *)
EditRow(m) ==
  /\ \E s \in Settings \cup {Rejected, NoRow} : s # want[m] /\ want' = [want EXCEPT ![m] = s]
  /\ \E mark \in {0, ok[m]} :
       ok' = [ok EXCEPT ![m] = IF NoRow \in {want[m], want'[m]} THEN 0 ELSE mark]
  /\ gone' = IF view[m] # NoRow /\ want'[m] = NoRow THEN gone \cup {m} ELSE gone
  /\ Event
  /\ UNCHANGED <<setup, nodeVars, agentVars, pollVars, health>>

Plug(m) ==
  /\ link[m] = "absent"
  /\ \E l \in {"idle", "unused"} : link' = [link EXCEPT ![m] = l]
  /\ Event
  /\ UNCHANGED <<setup, rowVars, conf, files, agentVars, pollVars, health>>

Unplug(m) ==
  /\ link[m] # "absent"
  /\ link' = [link EXCEPT ![m] = "absent"]
  /\ conf' = [conf EXCEPT ![m] = {}]
  /\ Event
  /\ UNCHANGED <<setup, rowVars, files, agentVars, pollVars, health>>

LinkDown(m) ==
  /\ link[m] = "up"
  /\ link' = [link EXCEPT ![m] = "down"]
  /\ Event
  /\ UNCHANGED <<setup, rowVars, conf, files, agentVars, pollVars, health>>

(* The process ends, and with it all it knows. A write it is in the middle *)
(* of leaves a cut file: os.WriteFile truncates before it writes.          *)
Stop ==
  /\ pc # "dead"
  /\ \E cut \in SUBSET {m \in Macs : phase[m] = "write"} :
       files' = [m \in Macs |-> IF m \in cut THEN Cut ELSE files[m]]
  /\ pc' = "dead"
  /\ Forget
  /\ backoff' = 0 /\ interval' = Base
  /\ health' = "healthy"
  /\ UNCHANGED <<setup, want, ok, link, conf>>

Crash == Stop /\ Event

(* The liveness probe of the DaemonSet finds an agent whose last cycle has *)
(* failed and stops it, in the middle of the next cycle or not. Probes are *)
(* slow enough to let a new agent finish a cycle.                          *)
LivenessProbe == health = "unhealthy" /\ Stop /\ Calm

(* The container is started again.                                         *)
Restart ==
  /\ pc = "dead"
  /\ pc' = "wait"
  /\ backoff' = 0 /\ interval' = Base
  /\ health' = "healthy"
  /\ Calm
  /\ UNCHANGED <<setup, rowVars, nodeVars, view, marked, phase>>
-----------------------------------------------------------------------------
Process(m) == \/ preflightCheck(m) \/ Skip(m) \/ Begin(m) \/ Rename(m) \/ SetAddress(m)
              \/ WriteFile(m) \/ Validate(m) \/ LinkError(m) \/ ApplyError(m)
              \/ Rollback(m) \/ MarkConfigured(m) \/ MarkError(m) \/ AfterHook(m)
Agent == \/ Tick \/ DeleteOrphans \/ GetAllNodeInterfaces \/ QueryError \/ EndCycle
         \/ Restart \/ \E m \in Macs : Process(m)
Disturbance == \/ Crash \/ LivenessProbe
               \/ \E m \in Macs : EditRow(m) \/ Plug(m) \/ Unplug(m) \/ LinkDown(m)
Next == Agent \/ Disturbance

(* The agent runs: its ticker ticks, commands and queries come to an end,  *)
(* and a container that has stopped is started again.                      *)
Spec == Init /\ [][Next]_vars /\ WF_vars(Agent)
-----------------------------------------------------------------------------
(* Properties                                                              *)

(* Every variable keeps its type.                                          *)
Phases == {"none", "todo", "rename", "address", "write", "validate", "undo", "mark",
           "good", "bad", "ok", "failed"}
TypeOK ==
  /\ os \in {"ubuntu", "rhel"} /\ completeOnPartial \in BOOLEAN
  /\ want \in [Macs -> Settings \cup {Rejected, NoRow}]
  /\ ok \in [Macs -> {0, 1}]
  /\ gone \subseteq Macs
  /\ link \in [Macs -> {"absent", "idle", "unused", "down", "up"}]
  /\ conf \in [Macs -> SUBSET Settings]
  /\ files \in [Macs -> Settings \cup {NoFile, Cut}]
  /\ pc \in {"wait", "delete", "read", "work", "dead"}
  /\ view \in [Macs -> Settings \cup {NoRow}]
  /\ marked \in [Macs -> {0, 1}]
  /\ phase \in [Macs -> Phases]
  /\ health \in {"healthy", "unhealthy"}
  /\ events \in 0 .. MaxEvents
  /\ backoff \in 0 .. MaxBackoff
  /\ interval \in {0, Base} \cup 1 .. MaxInterval

(* What a cycle counts as configured, and marks in the row, is in the file *)
(* with the settings the cycle has read, whether it was written in this    *)
(* cycle, tried again after a rollback, or skipped as unchanged            *)
(* (processing_decision.go:12-48, drift_detector.go:60-100).               *)
CountedIsWritten == \A m \in Macs : phase[m] \in {"mark", "good", "ok"} => files[m] = view[m]

(* A row is only ever marked as configured while the file of its interface *)
(* has the settings the cycle has read: by the update after an apply, by   *)
(* one whose answer is lost, and by the after-hook, also for what was      *)
(* skipped while others took the mark away (orchestrator.go:28-47,         *)
(* configure_network.go:184-250).                                          *)
MarkedWhenWritten ==
  [][\A m \in Macs : ok[m] # 1 /\ ok'[m] = 1 => files[m] = view[m]]_vars

(* Some listed interface has no link, and that is a failure of every cycle.*)
Failing == /\ Listed # {}
           /\ IF completeOnPartial THEN \A k \in Listed : link[k] = "absent"
              ELSE \E k \in Listed : link[k] = "absent"

(* After the last disturbance every interface that has an acceptable row   *)
(* and a link gets to the settings of the row for good: they are in its    *)
(* file, on its link if that is up, and marked in the row. It is so        *)
(* although a mark may be written over the edit of a row that was not      *)
(* applied yet, a mark may be lost, and cycles may end at any point, in    *)
(* the middle of a write too (configure_network.go:184-250,                *)
(* processing_decision.go:12-48). It is not for good while every cycle     *)
(* fails because of another interface, as with partial failures that       *)
(* count: the liveness probe then may stop the agent in any later write.   *)
Converges ==
  <>[](\A m \in Macs : want[m] \in Settings /\ link[m] # "absent" /\ ~Failing =>
         /\ files[m] = want[m]
         /\ ok[m] = 1
         /\ link[m] = "up" => want[m] \in conf[m]
         /\ os = "rhel" => link[m] = "up")

(* On Ubuntu no file stays behind for an interface without an acceptable   *)
(* row, although a search for orphans may fail and cycles may stop at any  *)
(* point (delete_network.go:198-252). What may stay for ever is a file     *)
(* that a stop in the middle of a write has left without its MAC           *)
(* (filesystem.go:44-58): each search warns and skips it.                  *)
OrphansGo ==
  <>[](os = "ubuntu" => \A m \in Macs : files[m] \notin {NoFile, Cut} => want[m] \in Settings)

(* An agent that had to back off returns to its normal pace and is healthy *)
(* again, as soon as nothing makes every cycle fail any more: some listed  *)
(* interface has a link or none is listed, and with partial failures that  *)
(* count all listed ones have (main.go:164-175,254-272,                    *)
(* strategy.go:50-81). Until then the agent is restarted again and again.  *)
PaceRecovers == <>[](interval # Base \/ health = "unhealthy" => Failing)
=============================================================================
