------------------------- MODULE ServiceAgentProofs -------------------------
(***************************************************************************)
(* Proofs about ServiceAgent, for every set of MACs and of settings, any   *)
(* number of workers and of disturbances. The invariant follows an         *)
(* interface through the worker pool: what a cycle has read of a row is    *)
(* kept as long as the pool works on it, and from the writing of its file  *)
(* to the end of the cycle the file is not touched by anybody else.        *)
(***************************************************************************)
EXTENDS ServiceAgent, PollingProofs

RowsOK == /\ want \in [Macs -> Settings \cup {Rejected, NoRow}]
          /\ ok \in [Macs -> {0, 1}]
          /\ gone \subseteq Macs
NodeOK == /\ link \in [Macs -> {"absent", "idle", "unused", "down", "up"}]
          /\ conf \in [Macs -> SUBSET Settings]
          /\ files \in [Macs -> Settings \cup {NoFile, Cut}]
ViewOK == view \in [Macs -> Settings \cup {NoRow}] /\ marked \in [Macs -> {0, 1}]
PoolOK == pc \in {"wait", "delete", "read", "work", "dead"} /\ phase \in [Macs -> Phases]
RestOK == /\ os \in {"ubuntu", "rhel"} /\ completeOnPartial \in BOOLEAN
          /\ health \in {"healthy", "unhealthy"}
          /\ events \in 0 .. MaxEvents

LEMMA TypeParts == RowsOK /\ NodeOK /\ ViewOK /\ PoolOK /\ RestOK /\ PaceOK => TypeOK
BY DEF TypeOK, RowsOK, NodeOK, ViewOK, PoolOK, RestOK, PaceOK

(* Outside of a cycle's work the pool has nothing (main.go:162-330).       *)
Idle == pc # "work" => \A m \in Macs : phase[m] = "none"

(* The pool only has interfaces that were read from an acceptable row.     *)
ViewKnown == \A m \in Macs : phase[m] # "none" => view[m] \in Settings

(* After the write the file has the settings that were read.               *)
WrittenPhases == {"validate", "mark", "good", "ok"}
Written == \A m \in Macs : phase[m] \in WrittenPhases => files[m] = view[m]

ServiceInv ==
  /\ RowsOK /\ NodeOK /\ ViewOK /\ PoolOK /\ RestOK /\ PaceOK
  /\ Idle /\ ViewKnown /\ Written
-----------------------------------------------------------------------------
(* Parts that steps have in common                                         *)

LEMMA EventTyped == ASSUME events \in 0 .. MaxEvents, Event PROVE events' \in 0 .. MaxEvents
BY ServiceAssumption DEF Event

(* A step of the pool for m that leaves the files of others alone.         *)
LEMMA PhaseInv ==
  ASSUME ServiceInv, NEW m \in Macs, NEW from \in Phases \ {"none"}, NEW to \in Phases \ {"none"},
         Phase(m, from, to),
         \A k \in Macs \ {m} : files'[k] = files[k],
         to \in WrittenPhases => files'[m] = view[m],
         RowsOK', NodeOK', events' \in 0 .. MaxEvents
  PROVE  ServiceInv'
<1>1. /\ pc = "work" /\ phase[m] = from /\ phase' = [phase EXCEPT ![m] = to]
      /\ UNCHANGED <<os, completeOnPartial, pc, view, marked, backoff, interval, health>>
  BY DEF Phase, setup, pollVars
<1>2. PoolOK' /\ phase \in [Macs -> Phases]
  BY <1>1 DEF ServiceInv, PoolOK
<1>3. ViewOK' /\ RestOK' /\ PaceOK'
  BY <1>1 DEF ServiceInv, ViewOK, RestOK, PaceOK
<1>4. Idle'
  BY <1>1 DEF Idle
<1>5. ViewKnown'
  BY <1>1, <1>2 DEF ServiceInv, ViewKnown
<1>6. Written'
  BY <1>1, <1>2 DEF ServiceInv, Written
<1>7. QED BY <1>2, <1>3, <1>4, <1>5, <1>6 DEF ServiceInv

(* A step that leaves pool, views and files alone, or finds the pool idle  *)
(* and leaves it so.                                                       *)
LEMMA OtherInv ==
  ASSUME ServiceInv, RowsOK', NodeOK', RestOK', PaceOK', PoolOK',
         UNCHANGED <<view, marked, phase>>,
         \/ UNCHANGED <<pc, files>>
         \/ pc # "work" /\ pc' # "work"
  PROVE  ServiceInv'
<1>1. ViewOK'
  BY DEF ServiceInv, ViewOK
<1>2. Idle' /\ ViewKnown' /\ Written'
  BY DEF ServiceInv, Idle, ViewKnown, Written, WrittenPhases
<1>3. QED BY <1>1, <1>2 DEF ServiceInv

LEMMA ForgetInv ==
  ASSUME ServiceInv, Forget, want' = want, ok' = ok, NodeOK', RestOK', PaceOK',
         pc' \in {"wait", "dead"}
  PROVE  ServiceInv'
<1>1. RowsOK' /\ ViewOK'
  BY DEF ServiceInv, Forget, RowsOK, ViewOK
<1>2. PoolOK'
  BY DEF Forget, PoolOK, Phases
<1>3. Idle' /\ ViewKnown' /\ Written'
  BY DEF Forget, Idle, ViewKnown, Written, WrittenPhases
<1>4. QED BY <1>1, <1>2, <1>3 DEF ServiceInv

LEMMA CycleOverTyped ==
  ASSUME PaceOK, NEW failed, CycleOver(failed)
  PROVE  PaceOK' /\ pc' \in {"wait", "dead"} /\ health' \in {"healthy", "unhealthy"}
BY PaceAfterSuccess, PaceAfterFailure DEF CycleOver, UpdateDBHealth

LEMMA RestartTyped == ASSUME backoff' = 0, interval' = Base PROVE PaceOK'
BY PollingAssumption DEF PaceOK
-----------------------------------------------------------------------------
(* The cycle                                                               *)

LEMMA TickInv == ASSUME ServiceInv, Tick PROVE ServiceInv'
<1>1. /\ pc = "wait" /\ pc' = "delete"
      /\ UNCHANGED <<os, completeOnPartial, want, ok, gone, link, conf, files, view, marked, phase,
                     backoff,
                     interval, health, events>>
  BY DEF Tick, setup, Calm, rowVars, nodeVars, pollVars
<1>2. RowsOK' /\ NodeOK' /\ RestOK' /\ PaceOK' /\ PoolOK'
  BY <1>1 DEF ServiceInv, RowsOK, NodeOK, RestOK, PaceOK, PoolOK
<1>3. QED BY <1>1, <1>2, OtherInv

LEMMA DeleteOrphansInv == ASSUME ServiceInv, DeleteOrphans PROVE ServiceInv'
<1>1. /\ pc = "delete" /\ pc' = "read"
      /\ UNCHANGED <<os, completeOnPartial, want, ok, gone, conf, view, marked, phase, backoff,
                     interval, health>>
  BY DEF DeleteOrphans, setup, rowVars, pollVars
<1>2. events' \in 0 .. MaxEvents
  BY EventTyped DEF DeleteOrphans, ServiceInv, RestOK, Calm
<1>3. NodeOK'
  <2>1. PICK del : files' = [m \in Macs |-> IF m \in del THEN NoFile ELSE files[m]]
    BY DEF DeleteOrphans
  <2>2. PICK ren : link' = [m \in Macs |-> IF m \in ren THEN "idle" ELSE link[m]]
    BY DEF DeleteOrphans
  <2>3. QED BY <1>1, <2>1, <2>2 DEF ServiceInv, NodeOK
<1>4. RowsOK' /\ RestOK' /\ PaceOK' /\ PoolOK'
  BY <1>1, <1>2 DEF ServiceInv, RowsOK, RestOK, PaceOK, PoolOK
<1>5. QED BY <1>1, <1>3, <1>4, OtherInv

LEMMA ReadInv == ASSUME ServiceInv, GetAllNodeInterfaces PROVE ServiceInv'
<1>1. /\ pc' = "work" /\ marked' = ok
      /\ view' = [m \in Macs |-> IF m \in Listed THEN want[m] ELSE NoRow]
      /\ phase' = [m \in Macs |-> IF m \in Listed THEN "todo" ELSE "none"]
      /\ UNCHANGED <<os, completeOnPartial, want, ok, gone, link, conf, files, backoff, interval,
                     health, events>>
  BY DEF GetAllNodeInterfaces, setup, Calm, rowVars, nodeVars, pollVars
<1>2. RowsOK' /\ NodeOK' /\ RestOK' /\ PaceOK' /\ PoolOK'
  BY <1>1 DEF ServiceInv, RowsOK, NodeOK, RestOK, PaceOK, PoolOK, Phases
<1>3. ViewOK'
  BY <1>1 DEF ServiceInv, RowsOK, ViewOK, Listed
<1>4. Idle' /\ ViewKnown' /\ Written'
  BY <1>1 DEF Idle, ViewKnown, Written, WrittenPhases, Listed
<1>5. QED BY <1>2, <1>3, <1>4 DEF ServiceInv

LEMMA QueryErrorInv == ASSUME ServiceInv, QueryError PROVE ServiceInv'
<1>1. /\ pc = "read" /\ CycleOver(TRUE) /\ Event
      /\ UNCHANGED <<os, completeOnPartial, want, ok, gone, link, conf, files, view, marked, phase>>
  BY DEF QueryError, setup, rowVars, nodeVars
<1>2. PaceOK' /\ pc' \in {"wait", "dead"} /\ health' \in {"healthy", "unhealthy"}
  BY <1>1, CycleOverTyped DEF ServiceInv
<1>3. events' \in 0 .. MaxEvents
  BY <1>1, EventTyped DEF ServiceInv, RestOK
<1>4. RowsOK' /\ NodeOK' /\ RestOK' /\ PoolOK'
  BY <1>1, <1>2, <1>3 DEF ServiceInv, RowsOK, NodeOK, RestOK, PoolOK
<1>5. QED BY <1>1, <1>2, <1>4, OtherInv

LEMMA EndCycleInv == ASSUME ServiceInv, EndCycle PROVE ServiceInv'
<1>1. CycleOver(CycleFailed) /\ Forget /\ UNCHANGED <<os, completeOnPartial, want, ok, link, conf,
                                                      files, events>>
  BY DEF EndCycle, setup, Calm, nodeVars
<1>2. PaceOK' /\ pc' \in {"wait", "dead"} /\ health' \in {"healthy", "unhealthy"}
  BY <1>1, CycleOverTyped DEF ServiceInv
<1>3. NodeOK' /\ RestOK'
  BY <1>1, <1>2 DEF ServiceInv, NodeOK, RestOK
<1>4. QED BY <1>1, <1>2, <1>3, ForgetInv

LEMMA StopInv == ASSUME ServiceInv, Stop, events' \in 0 .. MaxEvents PROVE ServiceInv'
<1>1. /\ pc' = "dead" /\ Forget /\ backoff' = 0 /\ interval' = Base /\ health' = "healthy"
      /\ UNCHANGED <<os, completeOnPartial, want, ok, link, conf>>
  BY DEF Stop, setup
<1>2. PaceOK'
  BY <1>1, RestartTyped
<1>3. NodeOK' /\ RestOK'
  <2>1. PICK cut : files' = [m \in Macs |-> IF m \in cut THEN Cut ELSE files[m]]
    BY DEF Stop
  <2>2. QED BY <1>1, <2>1 DEF ServiceInv, NodeOK, RestOK
<1>4. QED BY <1>1, <1>2, <1>3, ForgetInv

LEMMA RestartInv == ASSUME ServiceInv, Restart PROVE ServiceInv'
<1>1. /\ pc = "dead" /\ pc' = "wait" /\ backoff' = 0 /\ interval' = Base /\ health' = "healthy"
      /\ UNCHANGED <<os, completeOnPartial, want, ok, gone, link, conf, files, view, marked, phase,
                     events>>
  BY DEF Restart, setup, Calm, rowVars, nodeVars
<1>2. PaceOK'
  BY <1>1, RestartTyped
<1>3. RowsOK' /\ NodeOK' /\ RestOK' /\ PoolOK'
  BY <1>1 DEF ServiceInv, RowsOK, NodeOK, RestOK, PoolOK
<1>4. QED BY <1>1, <1>2, <1>3, OtherInv
-----------------------------------------------------------------------------
(* The handler of the worker pool                                          *)

LEMMA StillTyped ==
  ASSUME ServiceInv
  PROVE  /\ UNCHANGED rowVars => RowsOK'
         /\ UNCHANGED nodeVars => NodeOK'
         /\ Calm \/ Event => events' \in 0 .. MaxEvents
<1>1. UNCHANGED rowVars => RowsOK'
  BY DEF ServiceInv, rowVars, RowsOK
<1>2. UNCHANGED nodeVars => NodeOK'
  BY DEF ServiceInv, nodeVars, NodeOK
<1>3. Calm \/ Event => events' \in 0 .. MaxEvents
  BY EventTyped DEF ServiceInv, RestOK, Calm
<1>4. QED BY <1>1, <1>2, <1>3

(* Steps that change nothing but the phase, to one before the write.       *)
LEMMA PlainPhaseInv ==
  ASSUME ServiceInv, NEW m \in Macs, NEW from \in Phases \ {"none"}, NEW to \in Phases \ {"none"},
         Phase(m, from, to), UNCHANGED <<rowVars, nodeVars>>, Calm \/ Event,
         to \in WrittenPhases => files[m] = view[m]
  PROVE  ServiceInv'
<1>1. RowsOK' /\ NodeOK' /\ events' \in 0 .. MaxEvents
  BY StillTyped
<1>2. files' = files
  BY DEF nodeVars
<1>3. QED BY <1>1, <1>2, PhaseInv

LEMMA PreflightInv == ASSUME ServiceInv, NEW m \in Macs, preflightCheck(m) PROVE ServiceInv'
<1>1. Phase(m, "todo", "bad") /\ Calm /\ UNCHANGED <<rowVars, nodeVars>>
  BY DEF preflightCheck, Take
<1>2. QED BY <1>1, PlainPhaseInv DEF Phases, WrittenPhases

(* What is skipped needs no processing: its file has what was read.        *)
LEMMA SkipInv == ASSUME ServiceInv, NEW m \in Macs, Skip(m) PROVE ServiceInv'
<1>1. Phase(m, "todo", "good") /\ Calm /\ UNCHANGED <<rowVars, nodeVars>>
  BY DEF Skip, Take
<1>2. files[m] = view[m]
  BY DEF Skip, checkNeedProcessing, IsNetplanDrift, checkConfigDrift
<1>3. QED BY <1>1, <1>2, PlainPhaseInv DEF Phases

LEMMA BeginInv == ASSUME ServiceInv, NEW m \in Macs, Begin(m) PROVE ServiceInv'
<1>1. Phase(m, "todo", "rename") /\ Calm /\ UNCHANGED <<rowVars, nodeVars>>
  BY DEF Begin, Take
<1>2. QED BY <1>1, PlainPhaseInv DEF Phases, WrittenPhases

LEMMA RenameInv == ASSUME ServiceInv, NEW m \in Macs, Rename(m) PROVE ServiceInv'
<1>1. /\ Phase(m, "rename", "address") /\ Calm /\ UNCHANGED <<rowVars, conf, files>>
      /\ link' = [link EXCEPT ![m] = IF @ = "idle" THEN "down"
                                     ELSE IF @ = "unused" THEN "up" ELSE @]
  BY DEF Rename
<1>2. NodeOK'
  BY <1>1 DEF ServiceInv, NodeOK
<1>3. RowsOK' /\ events' \in 0 .. MaxEvents
  BY <1>1, StillTyped
<1>4. QED BY <1>1, <1>2, <1>3, PhaseInv DEF Phases, WrittenPhases

LEMMA SetAddressInv == ASSUME ServiceInv, NEW m \in Macs, SetAddress(m) PROVE ServiceInv'
<1>1. /\ Phase(m, "address", "write") /\ Calm /\ UNCHANGED <<rowVars, files>>
      /\ conf' = [conf EXCEPT ![m] = @ \cup {view[m]}]
      /\ link' = [link EXCEPT ![m] = "up"]
  BY DEF SetAddress
<1>2. view[m] \in Settings
  BY <1>1 DEF ServiceInv, ViewKnown, Phase
<1>3. NodeOK'
  BY <1>1, <1>2 DEF ServiceInv, NodeOK
<1>4. RowsOK' /\ events' \in 0 .. MaxEvents
  BY <1>1, StillTyped
<1>5. QED BY <1>1, <1>3, <1>4, PhaseInv DEF Phases, WrittenPhases

LEMMA WriteFileInv == ASSUME ServiceInv, NEW m \in Macs, WriteFile(m) PROVE ServiceInv'
<1>1. /\ Phase(m, "write", "validate") /\ Calm /\ UNCHANGED <<rowVars, link, conf>>
      /\ files' = [files EXCEPT ![m] = view[m]]
  BY DEF WriteFile
<1>2. view[m] \in Settings
  BY <1>1 DEF ServiceInv, ViewKnown, Phase
<1>3. NodeOK' /\ files'[m] = view[m] /\ \A k \in Macs \ {m} : files'[k] = files[k]
  BY <1>1, <1>2 DEF ServiceInv, NodeOK
<1>4. RowsOK' /\ events' \in 0 .. MaxEvents
  BY <1>1, StillTyped
<1>5. QED BY <1>1, <1>3, <1>4, PhaseInv DEF Phases, WrittenPhases

LEMMA ValidateInv == ASSUME ServiceInv, NEW m \in Macs, Validate(m) PROVE ServiceInv'
<1>1. Phase(m, "validate", "mark") /\ Calm /\ UNCHANGED <<rowVars, nodeVars>>
  BY DEF Validate
<1>2. files[m] = view[m]
  BY <1>1 DEF ServiceInv, Written, WrittenPhases, Phase
<1>3. QED BY <1>1, <1>2, PlainPhaseInv DEF Phases

LEMMA LinkErrorInv == ASSUME ServiceInv, NEW m \in Macs, LinkError(m) PROVE ServiceInv'
<1>1. PICK from \in {"rename", "address", "validate"} : Phase(m, from, "undo")
  BY DEF LinkError
<1>2. Calm /\ UNCHANGED <<rowVars, nodeVars>>
  BY DEF LinkError
<1>3. QED BY <1>1, <1>2, PlainPhaseInv DEF Phases, WrittenPhases

(* A write that fails changes the file of m only, which is rolled back.    *)
LEMMA ApplyErrorInv == ASSUME ServiceInv, NEW m \in Macs, ApplyError(m) PROVE ServiceInv'
<1>1. PICK from \in {"rename", "address", "write", "validate"} : Phase(m, from, "undo")
  BY DEF ApplyError
<1>2. /\ files' \in {[files EXCEPT ![m] = Cut], files}
      /\ Event
      /\ UNCHANGED <<rowVars, link, conf>>
  BY DEF ApplyError
<1>3. NodeOK' /\ \A k \in Macs \ {m} : files'[k] = files[k]
  BY <1>2 DEF ServiceInv, NodeOK
<1>4. RowsOK' /\ events' \in 0 .. MaxEvents
  BY <1>2, StillTyped
<1>5. QED BY <1>1, <1>3, <1>4, PhaseInv DEF Phases, WrittenPhases

LEMMA RollbackInv == ASSUME ServiceInv, NEW m \in Macs, Rollback(m) PROVE ServiceInv'
<1>1. PICK to \in {"todo", "bad"} : Phase(m, "undo", to)
  BY DEF Rollback
<1>2. /\ files' \in {[files EXCEPT ![m] = NoFile], files}
      /\ Calm \/ Event
      /\ UNCHANGED <<rowVars, link, conf>>
  BY DEF Rollback
<1>3. NodeOK' /\ \A k \in Macs \ {m} : files'[k] = files[k]
  BY <1>2 DEF ServiceInv, NodeOK
<1>4. RowsOK' /\ events' \in 0 .. MaxEvents
  BY <1>2, StillTyped
<1>5. QED BY <1>1, <1>3, <1>4, PhaseInv DEF Phases, WrittenPhases

LEMMA MarkTyped ==
  ASSUME ServiceInv, NEW m \in Macs, NEW status \in {0, 1},
         UpdateInterfaceStatus(m, status) \/ UNCHANGED ok, UNCHANGED <<want, gone>>
  PROVE  RowsOK'
BY DEF ServiceInv, RowsOK, UpdateInterfaceStatus

LEMMA MarkConfiguredInv == ASSUME ServiceInv, NEW m \in Macs, MarkConfigured(m) PROVE ServiceInv'
<1>1. PICK to \in {"bad", "good"} : Phase(m, "mark", to)
  BY DEF MarkConfigured
<1>2. UpdateInterfaceStatus(m, 1) /\ Calm /\ UNCHANGED <<want, gone, nodeVars>>
  BY DEF MarkConfigured
<1>3. RowsOK' /\ NodeOK' /\ events' \in 0 .. MaxEvents
  BY <1>2, MarkTyped, StillTyped
<1>4. files[m] = view[m] /\ files' = files
  BY <1>1, <1>2 DEF ServiceInv, Written, WrittenPhases, Phase, nodeVars
<1>5. QED BY <1>1, <1>3, <1>4, PhaseInv DEF Phases

LEMMA MarkErrorInv == ASSUME ServiceInv, NEW m \in Macs, MarkError(m) PROVE ServiceInv'
<1>1. PICK to \in {"todo", "bad"} : Phase(m, "mark", to)
  BY DEF MarkError
<1>2. /\ UpdateInterfaceStatus(m, 1) \/ UNCHANGED ok
      /\ Event /\ UNCHANGED <<want, gone, nodeVars>>
  BY DEF MarkError
<1>3. RowsOK' /\ NodeOK' /\ events' \in 0 .. MaxEvents
  BY <1>2, MarkTyped, StillTyped
<1>4. files' = files
  BY <1>2 DEF nodeVars
<1>5. QED BY <1>1, <1>3, <1>4, PhaseInv DEF Phases, WrittenPhases

LEMMA AfterHookInv == ASSUME ServiceInv, NEW m \in Macs, AfterHook(m) PROVE ServiceInv'
<1>1. /\ UpdateInterfaceStatus(m, 1) \/ UpdateInterfaceStatus(m, 0) \/ UNCHANGED ok
      /\ Calm \/ Event
      /\ UNCHANGED <<want, gone, nodeVars>>
  BY DEF AfterHook
<1>2. RowsOK' /\ NodeOK' /\ events' \in 0 .. MaxEvents
  BY <1>1, MarkTyped, StillTyped
<1>3. files' = files
  BY <1>1 DEF nodeVars
<1>4. CASE Phase(m, "good", "ok")
  <2>1. files[m] = view[m]
    BY <1>4 DEF ServiceInv, Written, WrittenPhases, Phase
  <2>2. QED BY <1>2, <1>3, <1>4, <2>1, PhaseInv DEF Phases
<1>5. CASE Phase(m, "bad", "failed")
  BY <1>2, <1>3, <1>5, PhaseInv DEF Phases, WrittenPhases
<1>6. QED BY <1>4, <1>5 DEF AfterHook
-----------------------------------------------------------------------------
(* Disturbances                                                            *)

LEMMA EditRowInv == ASSUME ServiceInv, NEW m \in Macs, EditRow(m) PROVE ServiceInv'
<1>1. /\ Event
      /\ UNCHANGED <<os, completeOnPartial, link, conf, files, pc, view, marked, phase, backoff,
                     interval, health>>
  BY DEF EditRow, setup, nodeVars, agentVars, pollVars
<1>2. RowsOK'
  <2>1. PICK s \in Settings \cup {Rejected, NoRow} : want' = [want EXCEPT ![m] = s]
    BY DEF EditRow
  <2>2. PICK mark \in {0, ok[m]} :
          ok' = [ok EXCEPT ![m] = IF NoRow \in {want[m], want'[m]} THEN 0 ELSE mark]
    BY DEF EditRow
  <2>3. mark \in {0, 1}
    BY DEF ServiceInv, RowsOK
  <2>4. ok' \in [Macs -> {0, 1}]
    BY <2>2, <2>3 DEF ServiceInv, RowsOK
  <2>5. gone' \subseteq Macs
    BY DEF EditRow, ServiceInv, RowsOK
  <2>6. want' \in [Macs -> Settings \cup {Rejected, NoRow}]
    BY <2>1 DEF ServiceInv, RowsOK
  <2>7. QED BY <2>4, <2>5, <2>6 DEF RowsOK
<1>3. events' \in 0 .. MaxEvents
  BY <1>1, EventTyped DEF ServiceInv, RestOK
<1>4. NodeOK' /\ RestOK' /\ PaceOK' /\ PoolOK'
  BY <1>1, <1>3 DEF ServiceInv, NodeOK, RestOK, PaceOK, PoolOK
<1>5. QED BY <1>1, <1>2, <1>4, OtherInv

LEMMA PortInv ==
  ASSUME ServiceInv, NEW m \in Macs, Plug(m) \/ Unplug(m) \/ LinkDown(m) PROVE ServiceInv'
<1>1. /\ Event
      /\ UNCHANGED <<os, completeOnPartial, want, ok, gone, files, pc, view, marked, phase,
                     backoff, interval, health>>
  BY DEF Plug, Unplug, LinkDown, setup, rowVars, agentVars, pollVars
<1>2. NodeOK'
  <2>1. link' \in [Macs -> {"absent", "idle", "unused", "down", "up"}]
    BY DEF ServiceInv, NodeOK, Plug, Unplug, LinkDown
  <2>2. conf' \in [Macs -> SUBSET Settings]
    BY DEF ServiceInv, NodeOK, Plug, Unplug, LinkDown
  <2>3. QED BY <1>1, <2>1, <2>2 DEF ServiceInv, NodeOK
<1>3. events' \in 0 .. MaxEvents
  BY <1>1, EventTyped DEF ServiceInv, RestOK
<1>4. RowsOK' /\ RestOK' /\ PaceOK' /\ PoolOK'
  BY <1>1, <1>3 DEF ServiceInv, RowsOK, RestOK, PaceOK, PoolOK
<1>5. QED BY <1>1, <1>2, <1>4, OtherInv
-----------------------------------------------------------------------------
(* The theorems                                                            *)

LEMMA ServiceInitially == Init => ServiceInv
<1> SUFFICES ASSUME Init PROVE ServiceInv
  OBVIOUS
<1>1. RowsOK /\ NodeOK /\ ViewOK
  BY DEF Init, RowsOK, NodeOK, ViewOK
<1>2. PoolOK /\ RestOK
  BY ServiceAssumption DEF Init, PoolOK, RestOK, Phases
<1>3. PaceOK
  BY PollingAssumption DEF Init, PollInit, PaceOK
<1>4. Idle /\ ViewKnown /\ Written
  BY DEF Init, Idle, ViewKnown, Written, WrittenPhases
<1>5. QED BY <1>1, <1>2, <1>3, <1>4 DEF ServiceInv

LEMMA ProcessInv == ASSUME ServiceInv, NEW m \in Macs, Process(m) PROVE ServiceInv'
BY PreflightInv, SkipInv, BeginInv, RenameInv, SetAddressInv, WriteFileInv, ValidateInv,
   LinkErrorInv, ApplyErrorInv, RollbackInv, MarkConfiguredInv, MarkErrorInv, AfterHookInv
DEF Process

LEMMA ServiceStep == ServiceInv /\ [Next]_vars => ServiceInv'
<1> SUFFICES ASSUME ServiceInv, [Next]_vars PROVE ServiceInv'
  OBVIOUS
<1>1. CASE UNCHANGED vars
  <2>1. UNCHANGED <<os, completeOnPartial, want, ok, gone, link, conf, files, pc, view, marked,
                    phase, backoff,
                    interval, health, events>>
    BY <1>1 DEF vars, setup, rowVars, nodeVars, agentVars, pollVars
  <2>2. RowsOK' /\ NodeOK' /\ RestOK' /\ PaceOK' /\ PoolOK'
    BY <2>1 DEF ServiceInv, RowsOK, NodeOK, RestOK, PaceOK, PoolOK
  <2>3. QED BY <2>1, <2>2, OtherInv
<1>2. CASE Agent
  BY <1>2, TickInv, DeleteOrphansInv, ReadInv, QueryErrorInv, EndCycleInv, RestartInv, ProcessInv
  DEF Agent
<1>3. CASE Crash \/ LivenessProbe
  <2>1. Stop /\ events' \in 0 .. MaxEvents
    BY <1>3, StillTyped DEF Crash, LivenessProbe
  <2>2. QED BY <2>1, StopInv
<1>4. CASE \E m \in Macs : EditRow(m) \/ Plug(m) \/ Unplug(m) \/ LinkDown(m)
  BY <1>4, EditRowInv, PortInv
<1>5. QED BY <1>1, <1>2, <1>3, <1>4 DEF Next, Disturbance

(* The inductive invariant holds in every state of every behaviour.        *)
LEMMA ServiceAlways == Spec => []ServiceInv
BY ServiceInitially, ServiceStep, PTL DEF Spec

(* Every variable keeps its type, the interval of the poller included: a   *)
(* cycle that fails, a crash and a restart at any point leave no settings  *)
(* in a file or on a link that no row had (main.go:162-330).               *)
THEOREM ServiceTypeCorrect == Spec => []TypeOK
<1>1. ServiceInv => TypeOK
  BY TypeParts DEF ServiceInv
<1>2. QED BY <1>1, ServiceAlways, PTL

(* Whatever else happens in a cycle, what it counts as configured is in    *)
(* the file with the settings the cycle has read                           *)
(* (processing_decision.go:12-48, drift_detector.go:60-100).               *)
THEOREM CountedIsInFile == Spec => []CountedIsWritten
<1>1. ServiceInv => CountedIsWritten
  BY DEF ServiceInv, Written, WrittenPhases, CountedIsWritten
<1>2. QED BY <1>1, ServiceAlways, PTL

(* A row is only ever marked as configured while the file of its interface *)
(* has the settings that were read, whichever of the three updates does it *)
(* (configure_network.go:184-250).                                         *)
THEOREM MarksAreWritten == Spec => MarkedWhenWritten
<1> DEFINE Marked == \A m \in Macs : ok[m] # 1 /\ ok'[m] = 1 => files[m] = view[m]
<1>1. ASSUME ServiceInv, Next PROVE Marked
  <2> SUFFICES ASSUME NEW m \in Macs, ok[m] # 1, ok'[m] = 1 PROVE files[m] = view[m]
    OBVIOUS
  <2>1. ok \in [Macs -> {0, 1}]
    BY <1>1 DEF ServiceInv, RowsOK
  <2>2. ok' # ok
    OBVIOUS
  <2>3. PICK k \in Macs : MarkConfigured(k) \/ MarkError(k) \/ AfterHook(k) \/ EditRow(k)
    BY <1>1, <2>2 DEF Next, Agent, Disturbance, Process, Tick, DeleteOrphans, GetAllNodeInterfaces,
       QueryError, EndCycle, Restart, preflightCheck, Skip, Begin, Rename, SetAddress, WriteFile,
       Validate, LinkError, ApplyError, Rollback, Crash, LivenessProbe, Stop, Plug, Unplug,
       LinkDown, rowVars
  <2>4. CASE EditRow(k)
    <3>1. PICK mark \in {0, ok[k]} :
            ok' = [ok EXCEPT ![k] = IF NoRow \in {want[k], want'[k]} THEN 0 ELSE mark]
      BY <2>4 DEF EditRow
    <3>2. QED BY <2>1, <3>1
  <2>5. CASE MarkConfigured(k) \/ MarkError(k) \/ AfterHook(k)
    <3>1. ok' \in {[ok EXCEPT ![k] = 1], [ok EXCEPT ![k] = 0]}
      BY <2>2, <2>5 DEF MarkConfigured, MarkError, AfterHook, UpdateInterfaceStatus
    <3>2. k = m /\ ok' = [ok EXCEPT ![k] = 1]
      BY <2>1, <3>1
    <3>3. phase[m] \in {"mark", "good"}
      <4>1. CASE phase[m] = "bad"
        <5>1. AfterHook(m) /\ ok' = [ok EXCEPT ![m] = 0]
          BY <2>2, <2>5, <3>2, <4>1 DEF MarkConfigured, MarkError, AfterHook, Phase,
                                         UpdateInterfaceStatus
        <5>2. QED BY <2>1, <5>1
      <4>2. phase[m] \in {"mark", "good", "bad"}
        BY <2>5, <3>2 DEF MarkConfigured, MarkError, AfterHook, Phase
      <4>3. QED BY <4>1, <4>2
    <3>4. QED BY <1>1, <3>3 DEF ServiceInv, Written, WrittenPhases
  <2>6. QED BY <2>3, <2>4, <2>5
<1>2. ASSUME ServiceInv, [Next]_vars PROVE [Marked]_vars
  BY <1>1, <1>2
<1>3. QED BY <1>2, ServiceAlways, PTL DEF Spec, MarkedWhenWritten
=============================================================================
