----------------------------- MODULE NodeFiles ------------------------------
(***************************************************************************)
(* What agents do to one node: configuration files, names and addresses of *)
(* the links. An agent runs once (RUN_MODE=job). To apply the spec it      *)
(* first deletes the files of interfaces that are no longer listed, then   *)
(* reads the spec again, names the listed interfaces and configures them   *)
(* side by side; an interface that fails is rolled back and may be tried   *)
(* again. To clean up it deletes every file. Two agents may overlap: a Job *)
(* that is deleted has its pod for a while, and the agent does not react   *)
(* to SIGTERM in this mode.                                                *)
(*                                                                         *)
(*   src/cmd/agent/main.go                                                 *)
(*   src/internal/application/usecases/delete_network.go,                  *)
(*     configure_network.go, orchestrator.go                               *)
(*   src/internal/infrastructure/network/netplan_adapter.go,               *)
(*     rhel_adapter.go                                                     *)
(*                                                                         *)
(* There is one file per name (the .link and the .nmconnection of RHEL are *)
(* one here). Routes, MTU and sysctls follow the address and are left out. *)
(* A write truncates its file first; a file that is cut later than its MAC *)
(* counts as whole.                                                        *)
(***************************************************************************)
EXTENDS Naturals, FiniteSets

CONSTANTS Macs,      \* MAC addresses of interfaces
          MaxNames,  \* how many multinicX names there are
          OSes,      \* the node runs one of these
          Agents,    \* agents that may run at the same time
          MaxVer,    \* bound: versions of the settings of an interface
          MaxEdits,  \* bound: changes of the spec and of the ports
          Kernel,    \* a link whose name is not one of ours
          Absent,    \* no link with this MAC on the node
          NoName, NoConfig,
          Cut        \* a file that is empty, or ends before its MAC

Names == 0 .. MaxNames - 1

ASSUME FilesAssumption ==
  /\ MaxNames \in Nat \ {0} /\ MaxVer \in Nat \ {0} /\ MaxEdits \in Nat
  /\ OSes \subseteq {"ubuntu", "rhel8", "rhel9"}
  /\ Kernel \notin Names /\ Absent \notin Names /\ NoName \notin Names
  /\ Kernel # Absent

(* The settings of an interface, in a file.                                *)
Config == [mac : Macs, ver : 1 .. MaxVer]

ASSUME ConfigAssumption == NoConfig \notin Config /\ Cut \notin Config /\ Cut # NoConfig

VARIABLES
  os,     \* what DetectOS says; "rhel8", "rhel9": with, without network-scripts
  spec,   \* spec[m]: version of the settings of m, 0 when m is not listed
  edits,  \* changes of the spec and of the ports so far
  links,  \* links[m]: name of the link with MAC m
  conf,   \* conf[m]: the interfaces whose addresses are on that link
  files,  \* files[n]: settings in the file for name n
  ag      \* ag[a]: the state of an agent

node == <<links, conf, files>>
vars == <<os, spec, edits, links, conf, files, ag>>

(* todo: files it has to look at; active: MACs listed when it looked for   *)
(* orphans; orphans: files it will delete; scan: were the files searched?  *)
(* left: files it has logged as not readable or not removable; view: the   *)
(* spec it applies; name: reservations; phase: per interface.              *)
NoAgent == [pc |-> "idle", mode |-> "apply", todo |-> {}, active |-> {},
            orphans |-> {}, scan |-> "ok", left |-> {}, view |-> [m \in Macs |-> 0],
            name |-> [m \in Macs |-> NoName], phase |-> [m \in Macs |-> "none"]]

Init ==
  /\ os \in OSes
  /\ spec \in [Macs -> 0 .. MaxVer]
  /\ edits = 0
  /\ links \in [Macs -> {Kernel, Absent}]
  /\ conf = [m \in Macs |-> {}]
  /\ files = [n \in Names |-> NoConfig]
  /\ ag = [a \in Agents |-> NoAgent]

(* Agent a, which is at from, goes on as r.                                *)
Step(a, from, r) ==
  /\ ag[a].pc = from
  /\ ag' = [ag EXCEPT ![a] = r]
  /\ UNCHANGED <<os, spec, edits>>

Start(a, mode) ==
  /\ Step(a, "idle", [NoAgent EXCEPT !.pc = "list", !.mode = mode])
  /\ UNCHANGED node
-----------------------------------------------------------------------------
(* The delete use case                                                     *)

(* Where it goes on after its last step.                                   *)
Deleted(a) == IF ag[a].mode = "apply" THEN "read" ELSE "report"

(* Files are found in /etc/netplan. On RHEL they are looked for in a       *)
(* directory that never holds one of ours.                                 *)
Listed == IF os = "ubuntu" THEN {n \in Names : files[n] # NoConfig} ELSE {}

(* An apply looks for orphans among the files.                             *)
ListFiles(a) ==
  /\ os # "rhel9"
  /\ ag[a].mode = "apply"
  /\ Step(a, "list", [ag[a] EXCEPT !.pc = "active", !.todo = Listed])
  /\ UNCHANGED node

(* A cleanup takes them all, and when there are none it gives leftover     *)
(* links their names back.                                                 *)
ListAllFiles(a) ==
  /\ os # "rhel9"
  /\ ag[a].mode = "cleanup"
  /\ Step(a, "list", [ag[a] EXCEPT !.pc = IF Listed = {} THEN "names" ELSE "delete",
                                   !.orphans = Listed])
  /\ UNCHANGED node

(* There is no such directory, and an apply skips the search.              *)
ListMissing(a) ==
  /\ os = "rhel9"
  /\ ag[a].mode = "apply"
  /\ Step(a, "list", [ag[a] EXCEPT !.pc = "names"])
  /\ UNCHANGED node

(* The directory cannot be listed: a cleanup fails, always where there is  *)
(* no such directory; an apply goes on without a search.                   *)
ListError(a) ==
  /\ Step(a, "list", [ag[a] EXCEPT !.pc = Deleted(a), !.scan = "failed"])
  /\ UNCHANGED node

ReadActive(a) ==
  /\ Step(a, "active", [ag[a] EXCEPT !.pc = "check", !.active = {m \in Macs : spec[m] > 0}])
  /\ UNCHANGED node

(* The spec cannot be read (the CR is gone, or is not named after the      *)
(* host): nothing is deleted, and the agent goes on.                       *)
ReadActiveError(a) ==
  /\ Step(a, "active", [ag[a] EXCEPT !.pc = "read", !.scan = "failed"])
  /\ UNCHANGED node

(* Files are taken in the order of their names.                            *)
First(n, ns) == n \in ns /\ \A k \in ns : n <= k

(* Mutated form: files of listed interfaces are the orphans.               *)
isOrphanInverted(n, active) == files[n] # NoConfig /\ files[n].mac \in active

(* A file that has gone meanwhile is passed over.                          *)
isOrphan(n, active) == files[n] # NoConfig /\ files[n].mac \notin active

CheckFile(a, n) ==
  /\ First(n, ag[a].todo)
  /\ files[n] # Cut
  /\ Step(a, "check",
       [ag[a] EXCEPT !.todo = @ \ {n},
                     !.orphans = IF isOrphan(n, ag[a].active) THEN @ \cup {n} ELSE @])
  /\ UNCHANGED node

(* A file that cannot be read, or in which there is no MAC, is no orphan:  *)
(* there is a warning, and no error.                                       *)
SkipFile(a, n) ==
  /\ First(n, ag[a].todo)
  /\ files[n] # NoConfig
  /\ Step(a, "check", [ag[a] EXCEPT !.todo = @ \ {n}, !.left = @ \cup {n}])
  /\ UNCHANGED node

CheckDone(a) ==
  /\ ag[a].todo = {}
  /\ Step(a, "check", [ag[a] EXCEPT !.pc = "delete"])
  /\ UNCHANGED node

(* The file is removed by the name in its file name, whatever it holds.    *)
DeleteFile(a, n) ==
  /\ First(n, ag[a].orphans)
  /\ Step(a, "delete", [ag[a] EXCEPT !.orphans = @ \ {n}])
  /\ files' = [files EXCEPT ![n] = NoConfig]
  /\ UNCHANGED <<links, conf>>

(* Mutated form: the rest of the list is given up after an error.          *)
DeleteFileErrorStops(a, n) ==
  /\ First(n, ag[a].orphans)
  /\ Step(a, "delete", [ag[a] EXCEPT !.orphans = {}, !.left = @ \cup {n}])
  /\ UNCHANGED node

DeleteFileError(a, n) ==
  /\ First(n, ag[a].orphans)
  /\ Step(a, "delete", [ag[a] EXCEPT !.orphans = @ \ {n}, !.left = @ \cup {n}])
  /\ UNCHANGED node

DeleteDone(a) ==
  /\ ag[a].orphans = {}
  /\ Step(a, "delete", [ag[a] EXCEPT !.pc = Deleted(a)])
  /\ UNCHANGED node

(* A link of ours that is down gets an alternative name back if it has     *)
(* one; which links these are is not known here.                           *)
cleanupMultinicInterfaceNames(a) ==
  /\ Step(a, "names", [ag[a] EXCEPT !.pc = Deleted(a)])
  /\ \E down \in SUBSET {m \in Macs : links[m] \in Names} :
       links' = [m \in Macs |-> IF m \in down THEN Kernel ELSE links[m]]
  /\ UNCHANGED <<conf, files>>
-----------------------------------------------------------------------------
(* The configure use case                                                  *)

NamesInUse == {links[m] : m \in Macs} \cap Names

(* Mutated form: every interface gets the lowest name that no link has,    *)
(* without a look at the reservations made for the others.                 *)
ReservationsOfLinksOnly(view) ==
  LET free == Names \ NamesInUse
  IN  {f \in [Macs -> Names \cup {NoName}] :
         \A m \in Macs : CASE view[m] = 0 -> f[m] = NoName
                          [] view[m] > 0 /\ links[m] \in Names -> f[m] = links[m]
                          [] view[m] > 0 /\ links[m] \notin Names
                               -> IF free = {} THEN f[m] = NoName
                                  ELSE f[m] \in free /\ \A n \in free : f[m] <= n}

(* ReserveNamesForInterfaces of a new process: a listed link keeps the     *)
(* name of ours that it has; the others get the lowest names that no link  *)
(* has, in list order, as long as there are any.                           *)
Reservations(view) ==
  LET listed == {m \in Macs : view[m] > 0}
      keeps == {m \in listed : links[m] \in Names}
      free == Names \ NamesInUse
  IN  {f \in [Macs -> Names \cup {NoName}] :
         /\ \A m \in Macs \ listed : f[m] = NoName
         /\ \A m \in keeps : f[m] = links[m]
         /\ \A m \in listed \ keeps :
              IF f[m] = NoName
              THEN \A n \in free : \E k \in listed \ keeps : f[k] = n
              ELSE /\ f[m] \in free
                   /\ \A n \in free : n < f[m] => \E k \in listed \ keeps : f[k] = n
         /\ \A m, k \in listed : f[m] = f[k] /\ f[m] # NoName => m = k}

ReadSpec(a) ==
  /\ \E f \in Reservations(spec) :
       Step(a, "read", [ag[a] EXCEPT !.pc = "work", !.view = spec, !.name = f,
              !.phase = [m \in Macs |-> IF spec[m] > 0 THEN "todo" ELSE "none"]])
  /\ UNCHANGED node

ReadSpecError(a) ==
  /\ Step(a, "read", [ag[a] EXCEPT !.pc = "report"])
  /\ UNCHANGED node

(* Interface m of agent a goes from one phase to another.                  *)
Phase(a, m, from, to) ==
  /\ ag[a].phase[m] = from
  /\ Step(a, "work", [ag[a] EXCEPT !.phase[m] = to])

Settings(a, m) == [mac |-> m, ver |-> ag[a].view[m]]

(* No link has the MAC, or none is found because the query fails, the link *)
(* is in use under a name of its own, or there is no name left: nothing is *)
(* applied and nothing is rolled back.                                     *)
Refuse(a, m) ==
  /\ Phase(a, m, "todo", "failed")
  /\ UNCHANGED node

(* Mutated form: the error of the naming service is not looked at.         *)
PreflightUnnamed(a, m) ==
  /\ links[m] # Absent
  /\ Phase(a, m, "todo", "rename")
  /\ UNCHANGED node

Preflight(a, m) ==
  /\ links[m] # Absent
  /\ ag[a].name[m] # NoName
  /\ Phase(a, m, "todo", "rename")
  /\ UNCHANGED node

(* The name the link with MAC m has now.                                   *)
findDeviceByMAC(m) == links[m]

(* The kernel refuses a name that another link has.                        *)
Rename(a, m) ==
  /\ findDeviceByMAC(m) # Absent
  /\ findDeviceByMAC(m) = ag[a].name[m] \/ ag[a].name[m] \notin NamesInUse
  /\ Phase(a, m, "rename", "address")
  /\ links' = [links EXCEPT ![m] = ag[a].name[m]]
  /\ UNCHANGED <<conf, files>>

(* The address is added to the link that has the name now.                 *)
SetAddress(a, m) ==
  /\ Phase(a, m, "address", "write")
  /\ \E k \in Macs : /\ links[k] = ag[a].name[m]
                     /\ conf' = [conf EXCEPT ![k] = @ \cup {m}]
  /\ UNCHANGED <<links, files>>

WriteFile(a, m) ==
  /\ Phase(a, m, "write", "validate")
  /\ files' = [files EXCEPT ![ag[a].name[m]] = Settings(a, m)]
  /\ UNCHANGED <<links, conf>>

(* Only the MAC is looked for again, and its link must be up.              *)
Validate(a, m) ==
  /\ links[m] # Absent
  /\ Phase(a, m, "validate", "ok")
  /\ UNCHANGED node

(* Any command of these steps may fail or time out.                        *)
ApplyError(a, m) ==
  /\ \E from \in {"rename", "address", "write", "validate"} : Phase(a, m, from, "undo")
  /\ UNCHANGED node

(* A write that fails once the file is truncated.                          *)
WriteError(a, m) ==
  /\ Phase(a, m, "write", "undo")
  /\ files' = [files EXCEPT ![ag[a].name[m]] = Cut]
  /\ UNCHANGED <<links, conf>>

(* The file goes; the link stays as it is. The error is one that may be    *)
(* retried.                                                                *)
Rollback(a, m) ==
  /\ \E to \in {"todo", "failed"} : Phase(a, m, "undo", to)
  /\ files' = [files EXCEPT ![ag[a].name[m]] = NoConfig]
  /\ UNCHANGED <<links, conf>>

(* The file cannot be removed.                                             *)
RollbackError(a, m) ==
  /\ ag[a].phase[m] = "undo"
  /\ \E to \in {"todo", "failed"} :
       Step(a, "work", [ag[a] EXCEPT !.phase[m] = to, !.left = @ \cup {ag[a].name[m]}])
  /\ UNCHANGED node

WorkDone(a) ==
  /\ \A m \in Macs : ag[a].phase[m] \in {"none", "ok", "failed"}
  /\ Step(a, "work", [ag[a] EXCEPT !.pc = "report"])
  /\ UNCHANGED node
-----------------------------------------------------------------------------
(* The agent has written its summary and exits.                            *)
Exit(a) ==
  /\ Step(a, "report", NoAgent)
  /\ UNCHANGED node

(* The agent is killed: SIGKILL after the grace period, or a crash. Files  *)
(* that it was writing may stay cut.                                       *)
Kill(a) ==
  /\ ag[a].pc # "idle"
  /\ Step(a, ag[a].pc, NoAgent)
  /\ \E cut \in SUBSET {ag[a].name[m] : m \in {k \in Macs : ag[a].phase[k] = "write"}} :
       files' = [n \in Names |-> IF n \in cut THEN Cut ELSE files[n]]
  /\ UNCHANGED <<links, conf>>

(* A change from outside.                                                  *)
Edit == edits < MaxEdits /\ edits' = edits + 1

(* The user of the CR changes the settings of an interface, or lists it,   *)
(* or does not list it any more.                                           *)
EditSpec(m) ==
  /\ Edit
  /\ \E v \in 0 .. MaxVer : v # spec[m] /\ spec' = [spec EXCEPT ![m] = v]
  /\ UNCHANGED <<os, node, ag>>

(* A port is attached to the node or detached from it.                     *)
Plug(m) ==
  /\ Edit
  /\ links[m] = Absent
  /\ links' = [links EXCEPT ![m] = Kernel]
  /\ UNCHANGED <<os, spec, conf, files, ag>>

Unplug(m) ==
  /\ Edit
  /\ links[m] # Absent
  /\ links' = [links EXCEPT ![m] = Absent]
  /\ conf' = [conf EXCEPT ![m] = {}]
  /\ UNCHANGED <<os, spec, files, ag>>
-----------------------------------------------------------------------------
Delete(a) == \/ ListFiles(a) \/ ListAllFiles(a) \/ ListMissing(a) \/ ListError(a)
             \/ ReadActive(a) \/ ReadActiveError(a) \/ CheckDone(a) \/ DeleteDone(a)
             \/ cleanupMultinicInterfaceNames(a)
             \/ \E n \in Names : \/ CheckFile(a, n) \/ SkipFile(a, n) \/ DeleteFile(a, n)
                                 \/ DeleteFileError(a, n)
Process(a, m) == \/ Refuse(a, m) \/ Preflight(a, m) \/ Rename(a, m)
                 \/ SetAddress(a, m) \/ WriteFile(a, m) \/ Validate(a, m)
                 \/ ApplyError(a, m) \/ WriteError(a, m)
                 \/ Rollback(a, m) \/ RollbackError(a, m)
Configure(a) == \/ ReadSpec(a) \/ ReadSpecError(a) \/ WorkDone(a)
                \/ \E m \in Macs : Process(a, m)
Agent(a) == \/ Start(a, "apply") \/ Start(a, "cleanup") \/ Delete(a)
            \/ Configure(a) \/ Exit(a) \/ Kill(a)
Next == \/ \E a \in Agents : Agent(a)
        \/ \E m \in Macs : EditSpec(m) \/ Plug(m) \/ Unplug(m)

Spec == Init /\ [][Next]_vars
-----------------------------------------------------------------------------
(* Properties                                                              *)

(* Every variable keeps its type.                                          *)
Phases == {"none", "todo", "rename", "address", "write", "validate", "undo", "ok", "failed"}
AgentState ==
  [pc : {"idle", "list", "active", "check", "delete", "names", "read", "work", "report"},
   mode : {"apply", "cleanup"}, todo : SUBSET Names, active : SUBSET Macs,
   orphans : SUBSET Names, scan : {"ok", "failed"}, left : SUBSET Names,
   view : [Macs -> 0 .. MaxVer], name : [Macs -> Names \cup {NoName}],
   phase : [Macs -> Phases]]
TypeOK ==
  /\ os \in OSes
  /\ spec \in [Macs -> 0 .. MaxVer]
  /\ edits \in 0 .. MaxEdits
  /\ links \in [Macs -> Names \cup {Kernel, Absent}]
  /\ conf \in [Macs -> SUBSET Macs]
  /\ files \in [Names -> Config \cup {NoConfig, Cut}]
  /\ \A a \in Agents : ag[a] \in AgentState
  /\ \A a \in Agents, m \in Macs :
       ag[a].phase[m] \notin {"none", "todo", "failed"} => ag[a].name[m] # NoName

(* What an agent reports as Configured is in the file of its name with the *)
(* settings of the spec the agent has read, although the orphans of        *)
(* earlier specs were deleted, other interfaces failed and were rolled     *)
(* back, and earlier attempts were killed halfway                          *)
(* (configure_network.go:212-250, netplan_adapter.go:124-135).             *)
ConfiguredIsPersisted ==
  \A a \in Agents, m \in Macs :
    ag[a].phase[m] = "ok" => files[ag[a].name[m]] = Settings(a, m)

(* The address of an interface is never on the link of another one:        *)
(* commands name their link, and the name may have changed hands since the *)
(* MAC was looked up (netplan_adapter.go:68-107).                          *)
AddressOnOwnLink == \A m \in Macs : conf[m] \subseteq {m}

(* When an apply that could search the files ends, a file that is left is  *)
(* one of a listed interface, listed when the orphans were looked for or   *)
(* when the spec was applied, or the agent has logged that it could not    *)
(* read it or not remove it (delete_network.go:60-127,198-252). It does    *)
(* not say that orphans go: one that was cut by a kill or a failed write   *)
(* is passed over by every later apply without an error. It holds where    *)
(* the files are looked for in the directory that has them, on Ubuntu.     *)
OrphansRemoved ==
  os = "ubuntu" => \A a \in Agents, n \in Names :
    ag[a].pc = "report" /\ ag[a].mode = "apply" /\ ag[a].scan = "ok"
      /\ files[n] # NoConfig /\ n \notin ag[a].left
      => /\ files[n] # Cut
         /\ files[n].mac \in ag[a].active \/ ag[a].view[files[n].mac] > 0

(* When a cleanup that could list the files ends, all of them are gone, in *)
(* whatever state they were, but those it reports an error for: one that   *)
(* cannot be removed never costs the others (delete_network.go:455-506).   *)
CleanupRemovesAll ==
  os = "ubuntu" => \A a \in Agents :
    ag[a].pc = "report" /\ ag[a].mode = "cleanup" /\ ag[a].scan = "ok"
      => \A n \in Names : files[n] # NoConfig => n \in ag[a].left

(* Looking for orphans only deletes the file of an interface that was not  *)
(* in the list it was compared with: "고아 파일만 삭제" (README.md:131).   *)
OnlyOrphansDeleted ==
  [][\A a \in Agents, n \in Names :
       /\ ag[a].pc = "delete" /\ ag[a].mode = "apply" /\ ag'[a].orphans # ag[a].orphans
       /\ files[n] \in Config /\ files'[n] # files[n]
       => files[n].mac \notin ag[a].active]_vars
=============================================================================
