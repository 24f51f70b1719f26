-------------------------- MODULE NodeFilesProofs ---------------------------
(***************************************************************************)
(* Proofs about NodeFiles, for any number of interfaces, of names, of      *)
(* versions and of edits. What one agent knows is consistent however many  *)
(* there are; that files and links agree with it needs an agent that is    *)
(* alone on the node, and the run with two shows why.                      *)
(***************************************************************************)
EXTENDS NodeFiles, TLAPS

(* The state of the node, apart from its agents.                           *)
NodeOK ==
  /\ os \in OSes
  /\ spec \in [Macs -> 0 .. MaxVer]
  /\ edits \in 0 .. MaxEdits
  /\ links \in [Macs -> Names \cup {Kernel, Absent}]
  /\ files \in [Names -> Config \cup {NoConfig, Cut}]

(* No two links have one name: the kernel sees to it.                      *)
LinksDistinct(l) == \A m, k \in Macs : l[m] \in Names /\ l[m] = l[k] => m = k

(* What an agent knows, r, is consistent in itself: interfaces that are    *)
(* worked on have a name and settings, no name is given twice, and nothing *)
(* is worked on before the spec was read.                                  *)
Named(r) == \A m \in Macs : r.phase[m] \notin {"none", "todo", "failed"} => r.name[m] # NoName
Viewed(r) == \A m \in Macs : r.phase[m] # "none" => r.view[m] > 0
NamesDistinct(r) == \A m, k \in Macs : r.name[m] # NoName /\ r.name[m] = r.name[k] => m = k
Early(r) == r.pc \notin {"work", "report"} => \A m \in Macs : r.phase[m] = "none"
CleanupSteps(r) == r.mode = "cleanup" => r.pc \in {"list", "delete", "names", "report"}
Finished(r) == r.pc = "report" => \A m \in Macs : r.phase[m] \in {"none", "ok", "failed"}

Local(r) == /\ r \in AgentState
            /\ Named(r) /\ Viewed(r) /\ NamesDistinct(r) /\ Early(r) /\ CleanupSteps(r)
            /\ Finished(r)

LocalInv ==
  /\ NodeOK /\ LinksDistinct(links)
  /\ conf \in [Macs -> SUBSET Macs]
  /\ ag \in [Agents -> AgentState]
  /\ \A a \in Agents : Local(ag[a])

(* What the node has to do with an agent r that is alone on it, with links *)
(* l and files f: the names it has reserved are on no other link; what it  *)
(* has written is in the files; and every file is accounted for: it will   *)
(* be looked at, deleted or rolled back, or belongs to an interface that   *)
(* was listed, or the agent could not read it or not remove it.            *)
NamesOwn(l, r) ==
  \A m, k \in Macs : m # k /\ r.name[m] # NoName => l[k] # r.name[m]

Persisted(f, r) ==
  \A m \in Macs : r.phase[m] \in {"validate", "ok"}
                    => f[r.name[m]] = [mac |-> m, ver |-> r.view[m]]

OfActive(r, c) == c # Cut /\ c.mac \in r.active
OfViewed(r, c) == c # Cut /\ r.view[c.mac] > 0
Undone(r, n) == \E m \in Macs : r.phase[m] = "undo" /\ r.name[m] = n

Accounted(r, n, c) ==
  \/ n \in r.left
  \/ /\ r.mode = "cleanup"
     /\ r.pc = "list" \/ (r.pc = "delete" /\ n \in r.orphans)
  \/ /\ r.mode = "apply"
     /\ \/ r.pc \in {"idle", "list"}
        \/ r.pc = "active" /\ n \in r.todo
        \/ r.pc = "check" /\ (OfActive(r, c) \/ n \in r.todo \/ n \in r.orphans)
        \/ r.pc = "delete" /\ (OfActive(r, c) \/ n \in r.orphans)
        \/ r.pc = "read" /\ OfActive(r, c)
        \/ r.pc \in {"work", "report"} /\ (OfActive(r, c) \/ OfViewed(r, c) \/ Undone(r, n))

Swept(o, f, r) ==
  o = "ubuntu" /\ r.scan = "ok" =>
    \A n \in Names : f[n] # NoConfig => Accounted(r, n, f[n])

(* What an apply is about to delete is no file of a listed interface.      *)
Chosen(f, r) ==
  r.mode = "apply" =>
    /\ r.orphans # {} => r.pc \in {"check", "delete"}
    /\ \A n \in r.orphans : f[n] \in Config => f[n].mac \notin r.active

Shared(o, l, f, r) ==
  NamesOwn(l, r) /\ Persisted(f, r) /\ Swept(o, f, r) /\ Chosen(f, r)

SharedInv ==
  /\ \A a \in Agents : Shared(os, links, files, ag[a])
  /\ AddressOnOwnLink

(* There is one agent at a time.                                           *)
Alone == \A a, b \in Agents : a = b

(* A step keeps the one invariant, and the other one if there is one agent *)
Kept == LocalInv' /\ (Alone /\ SharedInv => SharedInv')
-----------------------------------------------------------------------------
(* Agents as records                                                       *)

LEMMA NoAgentLocal == Local(NoAgent)
<1>1. NoAgent \in AgentState
  BY FilesAssumption DEF NoAgent, AgentState, Phases
<1>2. /\ NoAgent.pc = "idle" /\ NoAgent.mode = "apply"
      /\ \A m \in Macs : NoAgent.phase[m] = "none" /\ NoAgent.name[m] = NoName
  BY DEF NoAgent
<1> HIDE DEF NoAgent
<1>3. QED BY <1>1, <1>2 DEF Local, Named, Viewed, NamesDistinct, Early, CleanupSteps, Finished

LEMMA OtherStepLocal ==
  ASSUME NEW r, Local(r), NEW q \in AgentState,
         q.phase = r.phase, q.view = r.view, q.name = r.name,
         q.pc \notin {"work", "report"} => r.pc \notin {"work", "report"},
         CleanupSteps(q), Finished(q)
  PROVE  Local(q)
BY DEF Local, Named, Viewed, NamesDistinct, Early
-----------------------------------------------------------------------------
(* Parts that steps have in common                                         *)

(* A step of an agent leaves the other agents alone.                       *)
LEMMA StepKept ==
  ASSUME LocalInv, NEW a \in Agents, NEW r, ag' = [ag EXCEPT ![a] = r],
         UNCHANGED <<os, spec, edits>>, Local(r),
         links' \in [Macs -> Names \cup {Kernel, Absent}], LinksDistinct(links'),
         conf' \in [Macs -> SUBSET Macs], files' \in [Names -> Config \cup {NoConfig, Cut}],
         Alone /\ SharedInv => Shared(os, links', files', r) /\ AddressOnOwnLink'
  PROVE  Kept
<1>1. NodeOK'
  BY DEF LocalInv, NodeOK
<1>2. ag' \in [Agents -> AgentState] /\ \A b \in Agents : Local(ag'[b])
  BY DEF LocalInv, Local
<1>3. LocalInv'
  BY <1>1, <1>2 DEF LocalInv
<1>4. ag'[a] = r
  BY DEF LocalInv
<1>5. ASSUME Alone, SharedInv PROVE SharedInv'
  <2>1. \A b \in Agents : ag'[b] = r
    BY <1>4, <1>5 DEF Alone
  <2>2. QED BY <1>5, <2>1 DEF SharedInv
<1>6. QED BY <1>3, <1>5 DEF Kept

(* A step that leaves the node as it is.                                   *)
LEMMA QuietKept ==
  ASSUME LocalInv, NEW a \in Agents, NEW r, ag' = [ag EXCEPT ![a] = r],
         UNCHANGED <<os, spec, edits>>, UNCHANGED node, Local(r),
         Shared(os, links, files, ag[a]) => Shared(os, links, files, r)
  PROVE  Kept
<1>1. UNCHANGED <<links, conf, files>>
  BY DEF node
<1>2. Alone /\ SharedInv => Shared(os, links', files', r) /\ AddressOnOwnLink'
  BY <1>1 DEF SharedInv, AddressOnOwnLink
<1>3. QED BY <1>1, <1>2, StepKept DEF LocalInv, NodeOK

(* A step of the delete use case, of an agent r that goes on as q.         *)
LEMMA DeleteStep ==
  ASSUME NEW r, Local(r), r.pc \notin {"work", "report"}, NEW q \in AgentState,
         q.phase = r.phase, q.view = r.view, q.name = r.name, CleanupSteps(q),
         NEW o, NEW l, NEW f, NEW g,
         Swept(o, f, r) => Swept(o, g, q), Chosen(f, r) => Chosen(g, q)
  PROVE  Local(q) /\ (Shared(o, l, f, r) => Shared(o, l, g, q))
<1>1. Local(q)
  <2>1. Finished(q)
    BY DEF Local, Early, Finished
  <2>2. QED BY <2>1 DEF Local, Named, Viewed, NamesDistinct, Early
<1>2. Persisted(g, q)
  BY DEF Local, Early, Persisted
<1>3. NamesOwn(l, r) => NamesOwn(l, q)
  BY DEF NamesOwn
<1>4. QED BY <1>1, <1>2, <1>3 DEF Shared
-----------------------------------------------------------------------------
(* The delete use case                                                     *)

LEMMA StartKept ==
  ASSUME LocalInv, NEW a \in Agents, NEW mode \in {"apply", "cleanup"}, Start(a, mode) PROVE Kept
<1> DEFINE q == [NoAgent EXCEPT !.pc = "list", !.mode = mode]
<1>1. /\ ag' = [ag EXCEPT ![a] = q]
      /\ UNCHANGED <<os, spec, edits>> /\ UNCHANGED node
  BY DEF Start, Step
<1>2. NoAgent \in AgentState /\ NoAgent.pc = "idle" /\ Local(NoAgent)
      /\ NoAgent.orphans = {} /\ \A m \in Macs : NoAgent.name[m] = NoName
  BY NoAgentLocal DEF Local, NoAgent
<1> HIDE DEF NoAgent
<1>3. /\ q \in AgentState /\ q.pc = "list" /\ q.mode = mode /\ q.orphans = {}
      /\ q.phase = NoAgent.phase /\ q.view = NoAgent.view /\ q.name = NoAgent.name
  BY <1>2 DEF AgentState
<1> HIDE DEF q
<1>4. Local(q) /\ (Shared(os, links, files, NoAgent) => Shared(os, links, files, q))
  <2>1. CleanupSteps(q) /\ Swept(os, files, q) /\ Chosen(files, q)
    BY <1>3 DEF CleanupSteps, Swept, Accounted, OfActive, Chosen
  <2>2. QED BY <1>2, <1>3, <2>1, DeleteStep
<1>5. /\ NamesOwn(links, NoAgent) /\ Persisted(files, NoAgent)
      /\ Swept(os, files, NoAgent) /\ Chosen(files, NoAgent)
  <2>1. NoAgent.mode = "apply" /\ \A m \in Macs : NoAgent.phase[m] = "none"
    BY DEF NoAgent
  <2>2. QED BY <1>2, <2>1 DEF NamesOwn, Persisted, Swept, Accounted, Chosen
<1>6. QED BY <1>1, <1>4, <1>5, QuietKept DEF Shared

LEMMA ListFilesKept == ASSUME LocalInv, NEW a \in Agents, ListFiles(a) PROVE Kept
<1> DEFINE r == ag[a]
           q == [r EXCEPT !.pc = "active", !.todo = Listed]
<1>1. /\ r.pc = "list" /\ r.mode = "apply" /\ Local(r)
      /\ ag' = [ag EXCEPT ![a] = q]
      /\ UNCHANGED <<os, spec, edits>> /\ UNCHANGED node
  BY DEF LocalInv, ListFiles, Step
<1>2. /\ Listed \subseteq Names
      /\ os = "ubuntu" => \A n \in Names : files[n] # NoConfig => n \in Listed
  BY DEF Listed
<1> HIDE DEF r, Listed
<1>3. /\ q \in AgentState /\ q.pc = "active" /\ q.mode = "apply" /\ q.todo = Listed
      /\ q.orphans = r.orphans /\ q.phase = r.phase /\ q.view = r.view /\ q.name = r.name
  BY <1>1, <1>2 DEF Local, AgentState
<1> HIDE DEF q
<1>4. CleanupSteps(q) /\ Swept(os, files, q) /\ (Chosen(files, r) => Chosen(files, q))
  BY <1>1, <1>2, <1>3 DEF CleanupSteps, Swept, Accounted, OfActive, Chosen
<1>5. Local(q) /\ (Shared(os, links, files, r) => Shared(os, links, files, q))
  BY <1>1, <1>3, <1>4, DeleteStep
<1>6. QED BY <1>1, <1>5, QuietKept DEF r

LEMMA ListAllFilesKept == ASSUME LocalInv, NEW a \in Agents, ListAllFiles(a) PROVE Kept
<1> DEFINE r == ag[a]
           p == IF Listed = {} THEN "names" ELSE "delete"
           q == [r EXCEPT !.pc = p, !.orphans = Listed]
<1>1. /\ r.pc = "list" /\ r.mode = "cleanup" /\ Local(r)
      /\ ag' = [ag EXCEPT ![a] = q]
      /\ UNCHANGED <<os, spec, edits>> /\ UNCHANGED node
  BY DEF LocalInv, ListAllFiles, Step
<1>2. /\ Listed \subseteq Names
      /\ os = "ubuntu" => \A n \in Names : files[n] # NoConfig => n \in Listed
  BY DEF Listed
<1> HIDE DEF r, Listed
<1>3. p \in {"names", "delete"} /\ (p = "names" => Listed = {})
  OBVIOUS
<1> HIDE DEF p
<1>4. /\ q \in AgentState /\ q.pc = p /\ q.mode = "cleanup" /\ q.orphans = Listed
      /\ q.phase = r.phase /\ q.view = r.view /\ q.name = r.name
  BY <1>1, <1>2, <1>3 DEF Local, AgentState
<1> HIDE DEF q
<1>5. CleanupSteps(q) /\ Swept(os, files, q) /\ Chosen(files, q)
  BY <1>2, <1>3, <1>4 DEF CleanupSteps, Swept, Accounted, OfActive, Chosen
<1>6. Local(q) /\ (Shared(os, links, files, r) => Shared(os, links, files, q))
  BY <1>1, <1>4, <1>5, DeleteStep
<1>7. QED BY <1>1, <1>6, QuietKept DEF r

LEMMA ListMissingKept == ASSUME LocalInv, NEW a \in Agents, ListMissing(a) PROVE Kept
<1> DEFINE r == ag[a]
           q == [r EXCEPT !.pc = "names"]
<1>1. /\ r.pc = "list" /\ r.mode = "apply" /\ Local(r) /\ os = "rhel9"
      /\ ag' = [ag EXCEPT ![a] = q]
      /\ UNCHANGED <<os, spec, edits>> /\ UNCHANGED node
  BY DEF LocalInv, ListMissing, Step
<1> HIDE DEF r
<1>2. /\ q \in AgentState /\ q.pc = "names" /\ q.mode = "apply"
      /\ q.orphans = r.orphans /\ q.active = r.active
      /\ q.phase = r.phase /\ q.view = r.view /\ q.name = r.name
  BY <1>1 DEF Local, AgentState
<1> HIDE DEF q
<1>3. /\ CleanupSteps(q) /\ Swept(os, files, q)
      /\ Chosen(files, r) => Chosen(files, q)
  BY <1>1, <1>2 DEF CleanupSteps, Swept, Chosen
<1>4. Local(q) /\ (Shared(os, links, files, r) => Shared(os, links, files, q))
  BY <1>1, <1>2, <1>3, DeleteStep
<1>5. QED BY <1>1, <1>4, QuietKept DEF r

LEMMA ListErrorKept == ASSUME LocalInv, NEW a \in Agents, ListError(a) PROVE Kept
<1> DEFINE r == ag[a]
           p == Deleted(a)
           q == [r EXCEPT !.pc = p, !.scan = "failed"]
<1>1. /\ r.pc = "list" /\ Local(r)
      /\ ag' = [ag EXCEPT ![a] = q]
      /\ UNCHANGED <<os, spec, edits>> /\ UNCHANGED node
  BY DEF LocalInv, ListError, Step
<1>2. p = IF r.mode = "apply" THEN "read" ELSE "report"
  BY DEF Deleted
<1> HIDE DEF r, p
<1>3. r \in AgentState /\ r.mode \in {"apply", "cleanup"}
  BY <1>1 DEF Local, AgentState
<1>4. /\ q \in AgentState /\ q.pc = p /\ q.mode = r.mode /\ q.scan = "failed"
      /\ q.orphans = r.orphans /\ q.active = r.active
      /\ q.phase = r.phase /\ q.view = r.view /\ q.name = r.name
  BY <1>2, <1>3 DEF AgentState
<1> HIDE DEF q
<1>5. /\ CleanupSteps(q) /\ Swept(os, files, q)
      /\ Chosen(files, r) => Chosen(files, q)
  BY <1>1, <1>2, <1>3, <1>4 DEF CleanupSteps, Swept, Chosen
<1>6. Local(q) /\ (Shared(os, links, files, r) => Shared(os, links, files, q))
  BY <1>1, <1>4, <1>5, DeleteStep
<1>7. QED BY <1>1, <1>6, QuietKept DEF r

LEMMA ReadActiveKept == ASSUME LocalInv, NEW a \in Agents, ReadActive(a) PROVE Kept
<1> DEFINE r == ag[a]
           now == {m \in Macs : spec[m] > 0}
           q == [r EXCEPT !.pc = "check", !.active = now]
<1>1. /\ r.pc = "active" /\ Local(r)
      /\ ag' = [ag EXCEPT ![a] = q]
      /\ UNCHANGED <<os, spec, edits>> /\ UNCHANGED node
  BY DEF LocalInv, ReadActive, Step
<1>2. now \subseteq Macs /\ r.mode = "apply"
  BY <1>1 DEF Local, CleanupSteps, AgentState
<1> HIDE DEF r, now
<1>3. /\ q \in AgentState /\ q.pc = "check" /\ q.mode = "apply" /\ q.scan = r.scan
      /\ q.left = r.left
      /\ q.todo = r.todo /\ q.orphans = r.orphans
      /\ q.phase = r.phase /\ q.view = r.view /\ q.name = r.name
  BY <1>1, <1>2 DEF Local, AgentState
<1> HIDE DEF q
<1>4. /\ CleanupSteps(q) /\ (Swept(os, files, r) => Swept(os, files, q))
      /\ (Chosen(files, r) => Chosen(files, q))
  BY <1>1, <1>2, <1>3 DEF CleanupSteps, Swept, Accounted, OfActive, Chosen
<1>5. Local(q) /\ (Shared(os, links, files, r) => Shared(os, links, files, q))
  BY <1>1, <1>3, <1>4, DeleteStep
<1>6. QED BY <1>1, <1>5, QuietKept DEF r

LEMMA ReadActiveErrorKept == ASSUME LocalInv, NEW a \in Agents, ReadActiveError(a) PROVE Kept
<1> DEFINE r == ag[a]
           q == [r EXCEPT !.pc = "read", !.scan = "failed"]
<1>1. /\ r.pc = "active" /\ Local(r)
      /\ ag' = [ag EXCEPT ![a] = q]
      /\ UNCHANGED <<os, spec, edits>> /\ UNCHANGED node
  BY DEF LocalInv, ReadActiveError, Step
<1> HIDE DEF r
<1>2. /\ q \in AgentState /\ q.pc = "read" /\ q.mode = r.mode /\ q.scan = "failed"
      /\ q.orphans = r.orphans /\ q.active = r.active
      /\ q.phase = r.phase /\ q.view = r.view /\ q.name = r.name
  BY <1>1 DEF Local, AgentState
<1> HIDE DEF q
<1>3. /\ CleanupSteps(q) /\ Swept(os, files, q)
      /\ Chosen(files, r) => Chosen(files, q)
  BY <1>1, <1>2 DEF Local, CleanupSteps, Swept, Chosen
<1>4. Local(q) /\ (Shared(os, links, files, r) => Shared(os, links, files, q))
  BY <1>1, <1>2, <1>3, DeleteStep
<1>5. QED BY <1>1, <1>4, QuietKept DEF r

(* A file that was to be looked at and is no orphan is one of a listed     *)
(* interface.                                                              *)
LEMMA CheckFileKept ==
  ASSUME LocalInv, NEW a \in Agents, NEW n \in Names, CheckFile(a, n) PROVE Kept
<1> DEFINE r == ag[a]
           t == r.todo \ {n}
           o == IF isOrphan(n, r.active) THEN r.orphans \cup {n} ELSE r.orphans
           q == [r EXCEPT !.todo = t, !.orphans = o]
<1>1. /\ r.pc = "check" /\ Local(r)
      /\ ag' = [ag EXCEPT ![a] = q]
      /\ UNCHANGED <<os, spec, edits>> /\ UNCHANGED node
      /\ files[n] # Cut
  BY DEF LocalInv, CheckFile, Step
<1>2. /\ r \in AgentState /\ r.mode = "apply"
      /\ r.todo \subseteq Names /\ r.orphans \subseteq Names
  BY <1>1 DEF Local, CleanupSteps, AgentState
<1>3. /\ t \subseteq Names /\ o \subseteq Names /\ r.orphans \subseteq o
      /\ \A k \in r.todo : k \in t \/ k = n
      /\ files[n] # NoConfig => OfActive(r, files[n]) \/ n \in o
      /\ \A k \in o : k \in r.orphans \/ files[k].mac \notin r.active
  BY <1>1, <1>2 DEF isOrphan, OfActive
<1> HIDE DEF r, t, o
<1>4. /\ q \in AgentState /\ q.pc = "check" /\ q.mode = "apply" /\ q.scan = r.scan
      /\ q.left = r.left
      /\ q.todo = t /\ q.orphans = o /\ q.active = r.active
      /\ q.phase = r.phase /\ q.view = r.view /\ q.name = r.name
  BY <1>1, <1>2, <1>3 DEF AgentState
<1> HIDE DEF q
<1>5. /\ CleanupSteps(q) /\ (Swept(os, files, r) => Swept(os, files, q))
      /\ (Chosen(files, r) => Chosen(files, q))
  BY <1>1, <1>2, <1>3, <1>4 DEF CleanupSteps, Swept, Accounted, OfActive, Chosen
<1>6. Local(q) /\ (Shared(os, links, files, r) => Shared(os, links, files, q))
  BY <1>1, <1>4, <1>5, DeleteStep
<1>7. QED BY <1>1, <1>6, QuietKept DEF r

LEMMA SkipFileKept ==
  ASSUME LocalInv, NEW a \in Agents, NEW n \in Names, SkipFile(a, n) PROVE Kept
<1> DEFINE r == ag[a]
           t == r.todo \ {n}
           e == r.left \cup {n}
           q == [r EXCEPT !.todo = t, !.left = e]
<1>1. /\ r.pc = "check" /\ Local(r)
      /\ ag' = [ag EXCEPT ![a] = q]
      /\ UNCHANGED <<os, spec, edits>> /\ UNCHANGED node
  BY DEF LocalInv, SkipFile, Step
<1>2. /\ r \in AgentState /\ r.mode = "apply"
      /\ r.todo \subseteq Names /\ r.left \subseteq Names
  BY <1>1 DEF Local, CleanupSteps, AgentState
<1>3. /\ t \subseteq Names /\ e \subseteq Names /\ r.left \subseteq e
      /\ \A k \in r.todo : k \in t \/ k \in e
  BY <1>2
<1> HIDE DEF r, t, e
<1>4. /\ q \in AgentState /\ q.pc = "check" /\ q.mode = "apply" /\ q.scan = r.scan
      /\ q.todo = t /\ q.left = e /\ q.orphans = r.orphans /\ q.active = r.active
      /\ q.phase = r.phase /\ q.view = r.view /\ q.name = r.name
  BY <1>1, <1>2, <1>3 DEF AgentState
<1> HIDE DEF q
<1>5. /\ CleanupSteps(q) /\ (Swept(os, files, r) => Swept(os, files, q))
      /\ (Chosen(files, r) => Chosen(files, q))
  BY <1>1, <1>2, <1>3, <1>4 DEF CleanupSteps, Swept, Accounted, OfActive, Chosen
<1>6. Local(q) /\ (Shared(os, links, files, r) => Shared(os, links, files, q))
  BY <1>1, <1>4, <1>5, DeleteStep
<1>7. QED BY <1>1, <1>6, QuietKept DEF r

LEMMA CheckDoneKept == ASSUME LocalInv, NEW a \in Agents, CheckDone(a) PROVE Kept
<1> DEFINE r == ag[a]
           q == [r EXCEPT !.pc = "delete"]
<1>1. /\ r.pc = "check" /\ r.todo = {} /\ Local(r)
      /\ ag' = [ag EXCEPT ![a] = q]
      /\ UNCHANGED <<os, spec, edits>> /\ UNCHANGED node
  BY DEF LocalInv, CheckDone, Step
<1>2. r \in AgentState /\ r.mode = "apply"
  BY <1>1 DEF Local, CleanupSteps, AgentState
<1> HIDE DEF r
<1>3. /\ q \in AgentState /\ q.pc = "delete" /\ q.mode = "apply" /\ q.scan = r.scan
      /\ q.left = r.left
      /\ q.orphans = r.orphans /\ q.active = r.active
      /\ q.phase = r.phase /\ q.view = r.view /\ q.name = r.name
  BY <1>2 DEF AgentState
<1> HIDE DEF q
<1>4. /\ CleanupSteps(q) /\ (Swept(os, files, r) => Swept(os, files, q))
      /\ (Chosen(files, r) => Chosen(files, q))
  BY <1>1, <1>2, <1>3 DEF CleanupSteps, Swept, Accounted, OfActive, Chosen
<1>5. Local(q) /\ (Shared(os, links, files, r) => Shared(os, links, files, q))
  BY <1>1, <1>3, <1>4, DeleteStep
<1>6. QED BY <1>1, <1>5, QuietKept DEF r

LEMMA DeleteFileKept ==
  ASSUME LocalInv, NEW a \in Agents, NEW n \in Names, DeleteFile(a, n) PROVE Kept
<1> DEFINE r == ag[a]
           rest == r.orphans \ {n}
           q == [r EXCEPT !.orphans = rest]
<1>1. /\ r.pc = "delete" /\ Local(r)
      /\ ag' = [ag EXCEPT ![a] = q]
      /\ files' = [files EXCEPT ![n] = NoConfig]
      /\ UNCHANGED <<os, spec, edits>> /\ UNCHANGED <<links, conf>>
  BY DEF LocalInv, DeleteFile, Step
<1>2. /\ r \in AgentState /\ rest \subseteq Names
      /\ \A k \in r.orphans : k = n \/ k \in rest
      /\ rest \subseteq r.orphans
  BY <1>1 DEF Local, AgentState
<1> HIDE DEF rest
<1>3. /\ files' \in [Names -> Config \cup {NoConfig, Cut}] /\ files'[n] = NoConfig
      /\ \A k \in Names : k # n => files'[k] = files[k]
  BY <1>1 DEF LocalInv, NodeOK
<1>4. Alone /\ SharedInv => Shared(os, links, files, r) /\ AddressOnOwnLink'
  BY <1>1 DEF SharedInv, AddressOnOwnLink
<1>5. /\ links' \in [Macs -> Names \cup {Kernel, Absent}] /\ LinksDistinct(links')
      /\ conf' \in [Macs -> SUBSET Macs]
  BY <1>1 DEF LocalInv, NodeOK
<1> HIDE DEF r
<1>6. /\ q \in AgentState /\ q.pc = "delete" /\ q.mode = r.mode /\ q.scan = r.scan
      /\ q.left = r.left
      /\ q.orphans = rest /\ q.active = r.active
      /\ q.phase = r.phase /\ q.view = r.view /\ q.name = r.name
  BY <1>1, <1>2 DEF AgentState
<1> HIDE DEF q
<1>7. /\ CleanupSteps(q) /\ (Swept(os, files, r) => Swept(os, files', q))
      /\ (Chosen(files, r) => Chosen(files', q))
  <2>1. CleanupSteps(q)
    BY <1>1, <1>6 DEF Local, CleanupSteps
  <2>2. Swept(os, files, r) => Swept(os, files', q)
    BY <1>1, <1>2, <1>3, <1>6 DEF Swept, Accounted, OfActive
  <2>3. Chosen(files, r) => Chosen(files', q)
    BY <1>1, <1>2, <1>3, <1>6, ConfigAssumption DEF Chosen
  <2>4. QED BY <2>1, <2>2, <2>3
<1>8. Local(q) /\ (Shared(os, links, files, r) => Shared(os, links, files', q))
  BY <1>1, <1>6, <1>7, DeleteStep
<1>9. QED BY <1>1, <1>3, <1>4, <1>5, <1>8, StepKept

LEMMA DeleteFileErrorKept ==
  ASSUME LocalInv, NEW a \in Agents, NEW n \in Names, DeleteFileError(a, n) PROVE Kept
<1> DEFINE r == ag[a]
           rest == r.orphans \ {n}
           e == r.left \cup {n}
           q == [r EXCEPT !.orphans = rest, !.left = e]
<1>1. /\ r.pc = "delete" /\ Local(r)
      /\ ag' = [ag EXCEPT ![a] = q]
      /\ UNCHANGED <<os, spec, edits>> /\ UNCHANGED node
  BY DEF LocalInv, DeleteFileError, Step
<1>2. /\ r \in AgentState /\ rest \subseteq Names /\ e \subseteq Names
      /\ rest \subseteq r.orphans /\ r.left \subseteq e
      /\ \A k \in r.orphans : k \in rest \/ k \in e
  BY <1>1 DEF Local, AgentState
<1> HIDE DEF r, rest, e
<1>3. /\ q \in AgentState /\ q.pc = "delete" /\ q.mode = r.mode /\ q.scan = r.scan
      /\ q.orphans = rest /\ q.left = e /\ q.active = r.active
      /\ q.phase = r.phase /\ q.view = r.view /\ q.name = r.name
  BY <1>1, <1>2 DEF AgentState
<1> HIDE DEF q
<1>4. /\ CleanupSteps(q) /\ (Swept(os, files, r) => Swept(os, files, q))
      /\ (Chosen(files, r) => Chosen(files, q))
  BY <1>1, <1>2, <1>3 DEF Local, CleanupSteps, Swept, Accounted, OfActive, Chosen
<1>5. Local(q) /\ (Shared(os, links, files, r) => Shared(os, links, files, q))
  BY <1>1, <1>3, <1>4, DeleteStep
<1>6. QED BY <1>1, <1>5, QuietKept DEF r

LEMMA DeleteDoneKept == ASSUME LocalInv, NEW a \in Agents, DeleteDone(a) PROVE Kept
<1> DEFINE r == ag[a]
           p == Deleted(a)
           q == [r EXCEPT !.pc = p]
<1>1. /\ r.pc = "delete" /\ r.orphans = {} /\ Local(r)
      /\ ag' = [ag EXCEPT ![a] = q]
      /\ UNCHANGED <<os, spec, edits>> /\ UNCHANGED node
  BY DEF LocalInv, DeleteDone, Step
<1>2. p = IF r.mode = "apply" THEN "read" ELSE "report"
  BY DEF Deleted
<1> HIDE DEF r, p
<1>3. r \in AgentState /\ r.mode \in {"apply", "cleanup"}
  BY <1>1 DEF Local, AgentState
<1>4. /\ q \in AgentState /\ q.pc = p /\ q.mode = r.mode /\ q.scan = r.scan /\ q.left = r.left
      /\ q.orphans = r.orphans /\ q.active = r.active
      /\ q.phase = r.phase /\ q.view = r.view /\ q.name = r.name
  BY <1>2, <1>3 DEF AgentState
<1> HIDE DEF q
<1>5. /\ CleanupSteps(q) /\ (Swept(os, files, r) => Swept(os, files, q))
      /\ (Chosen(files, r) => Chosen(files, q))
  BY <1>1, <1>2, <1>3, <1>4 DEF CleanupSteps, Swept, Accounted, OfActive, Chosen
<1>6. Local(q) /\ (Shared(os, links, files, r) => Shared(os, links, files, q))
  BY <1>1, <1>4, <1>5, DeleteStep
<1>7. QED BY <1>1, <1>6, QuietKept DEF r

LEMMA CleanupNamesKept ==
  ASSUME LocalInv, NEW a \in Agents, cleanupMultinicInterfaceNames(a) PROVE Kept
<1> DEFINE r == ag[a]
           p == Deleted(a)
           q == [r EXCEPT !.pc = p]
<1>1. /\ r.pc = "names" /\ Local(r)
      /\ ag' = [ag EXCEPT ![a] = q]
      /\ UNCHANGED <<os, spec, edits>> /\ UNCHANGED <<conf, files>>
  BY DEF LocalInv, cleanupMultinicInterfaceNames, Step
<1>2. PICK down : links' = [m \in Macs |-> IF m \in down THEN Kernel ELSE links[m]]
  BY DEF cleanupMultinicInterfaceNames
<1>3. /\ links' \in [Macs -> Names \cup {Kernel, Absent}]
      /\ \A m \in Macs : links'[m] \in {Kernel, links[m]}
  BY <1>2 DEF LocalInv, NodeOK
<1>4. LinksDistinct(links')
  BY <1>3, FilesAssumption DEF LocalInv, LinksDistinct
<1>5. p = IF r.mode = "apply" THEN "read" ELSE "report"
  BY DEF Deleted
<1>6. /\ conf' \in [Macs -> SUBSET Macs] /\ files' \in [Names -> Config \cup {NoConfig, Cut}]
      /\ Alone /\ SharedInv => Shared(os, links, files, r) /\ AddressOnOwnLink'
  BY <1>1 DEF LocalInv, NodeOK, SharedInv, AddressOnOwnLink
<1> HIDE DEF r, p
<1>7. /\ r \in AgentState /\ r.mode \in {"apply", "cleanup"}
      /\ r.name \in [Macs -> Names \cup {NoName}]
  BY <1>1 DEF Local, AgentState
<1>8. /\ q \in AgentState /\ q.pc = p /\ q.mode = r.mode /\ q.scan = r.scan /\ q.left = r.left
      /\ q.orphans = r.orphans /\ q.active = r.active
      /\ q.phase = r.phase /\ q.view = r.view /\ q.name = r.name
  BY <1>5, <1>7 DEF AgentState
<1> HIDE DEF q
<1>9. /\ CleanupSteps(q) /\ (Swept(os, files, r) => Swept(os, files, q))
      /\ (Chosen(files, r) => Chosen(files, q))
  BY <1>1, <1>5, <1>7, <1>8 DEF CleanupSteps, Swept, Accounted, OfActive, Chosen
<1>10. Local(q) /\ (Shared(os, links, files, r) => Shared(os, links, files, q))
  BY <1>1, <1>8, <1>9, DeleteStep
<1>11. Shared(os, links, files, q) => Shared(os, links', files', q)
  BY <1>1, <1>3, <1>7, <1>8, FilesAssumption DEF Shared, NamesOwn
<1>12. QED BY <1>1, <1>3, <1>4, <1>6, <1>10, <1>11, StepKept
-----------------------------------------------------------------------------
(* The configure use case                                                  *)

(* Reserved names are given once, to listed interfaces only, and no other  *)
(* link has one of them.                                                   *)
LEMMA ReservationFacts ==
  ASSUME NodeOK, LinksDistinct(links), NEW f \in Reservations(spec)
  PROVE  /\ f \in [Macs -> Names \cup {NoName}]
         /\ \A m, k \in Macs : f[m] # NoName /\ f[m] = f[k] => m = k
         /\ \A m, k \in Macs : m # k /\ f[m] # NoName => links[k] # f[m]
<1>1. f \in [Macs -> Names \cup {NoName}]
  BY DEF Reservations
<1>2. \A m \in Macs : ~(spec[m] > 0) => f[m] = NoName
  BY DEF Reservations
<1>3. \A m \in Macs : spec[m] > 0 /\ links[m] \in Names => f[m] = links[m]
  BY DEF Reservations
<1>4. \A m \in Macs : spec[m] > 0 /\ links[m] \notin Names /\ f[m] # NoName
                        => f[m] \in Names \ NamesInUse
  BY DEF Reservations
<1>5. \A m, k \in Macs : spec[m] > 0 /\ spec[k] > 0 /\ f[m] = f[k] /\ f[m] # NoName => m = k
  BY DEF Reservations
<1>6. \A k \in Macs : links[k] \in Names => links[k] \in NamesInUse
  BY DEF NamesInUse
<1>7. ASSUME NEW m \in Macs, NEW k \in Macs, m # k, f[m] # NoName, links[k] = f[m]
      PROVE  FALSE
  <2>1. spec[m] > 0 /\ f[m] \in Names
    BY <1>1, <1>2, <1>7
  <2>2. CASE links[m] \in Names
    BY <1>3, <1>7, <2>1, <2>2 DEF LinksDistinct
  <2>3. CASE links[m] \notin Names
    BY <1>4, <1>6, <1>7, <2>1, <2>3
  <2>4. QED BY <2>2, <2>3
<1>8. QED BY <1>1, <1>2, <1>5, <1>7

LEMMA ReadSpecKept == ASSUME LocalInv, NEW a \in Agents, ReadSpec(a) PROVE Kept
<1>1. PICK f \in Reservations(spec) :
        Step(a, "read", [ag[a] EXCEPT !.pc = "work", !.view = spec, !.name = f,
              !.phase = [m \in Macs |-> IF spec[m] > 0 THEN "todo" ELSE "none"]])
  BY DEF ReadSpec
<1> DEFINE r == ag[a]
           ph == [m \in Macs |-> IF spec[m] > 0 THEN "todo" ELSE "none"]
           q == [r EXCEPT !.pc = "work", !.view = spec, !.name = f, !.phase = ph]
<1>2. /\ r.pc = "read" /\ Local(r)
      /\ ag' = [ag EXCEPT ![a] = q]
      /\ UNCHANGED <<os, spec, edits>> /\ UNCHANGED node
  BY <1>1 DEF LocalInv, ReadSpec, Step
<1>3. /\ f \in [Macs -> Names \cup {NoName}]
      /\ \A m, k \in Macs : f[m] # NoName /\ f[m] = f[k] => m = k
      /\ \A m, k \in Macs : m # k /\ f[m] # NoName => links[k] # f[m]
  BY ReservationFacts DEF LocalInv
<1>4. /\ ph \in [Macs -> Phases] /\ spec \in [Macs -> 0 .. MaxVer]
      /\ \A m \in Macs : ph[m] \in {"todo", "none"} /\ (ph[m] # "none" => spec[m] > 0)
  BY DEF LocalInv, NodeOK, Phases
<1>5. r \in AgentState /\ r.mode = "apply"
  BY <1>2 DEF Local, CleanupSteps, AgentState
<1> HIDE DEF r, ph
<1>6. q \in AgentState
  BY <1>3, <1>4, <1>5 DEF AgentState
<1>7. /\ q.pc = "work" /\ q.mode = "apply" /\ q.scan = r.scan
      /\ q.left = r.left /\ q.active = r.active
      /\ q.orphans = r.orphans /\ q.view = spec /\ q.name = f /\ q.phase = ph
  BY <1>5 DEF AgentState
<1> HIDE DEF q
<1>8. Local(q)
  <2>1. Named(q) /\ Early(q) /\ CleanupSteps(q) /\ Finished(q)
    BY <1>4, <1>7 DEF Named, Early, CleanupSteps, Finished
  <2>2. Viewed(q)
    BY <1>4, <1>7 DEF Viewed
  <2>3. NamesDistinct(q)
    BY <1>3, <1>7 DEF NamesDistinct
  <2>4. QED BY <1>6, <2>1, <2>2, <2>3 DEF Local
<1>9. Shared(os, links, files, r) => Shared(os, links, files, q)
  <2>1. NamesOwn(links, q) /\ Persisted(files, q)
    BY <1>3, <1>4, <1>7 DEF NamesOwn, Persisted
  <2>2. Swept(os, files, r) => Swept(os, files, q)
    BY <1>2, <1>5, <1>7 DEF Swept, Accounted, OfActive
  <2>3. Chosen(files, r) => Chosen(files, q)
    BY <1>2, <1>5, <1>7 DEF Chosen
  <2>4. QED BY <2>1, <2>2, <2>3 DEF Shared
<1>10. QED BY <1>2, <1>8, <1>9, QuietKept DEF r

LEMMA ReadSpecErrorKept == ASSUME LocalInv, NEW a \in Agents, ReadSpecError(a) PROVE Kept
<1> DEFINE r == ag[a]
           q == [r EXCEPT !.pc = "report"]
<1>1. /\ r.pc = "read" /\ Local(r)
      /\ ag' = [ag EXCEPT ![a] = q]
      /\ UNCHANGED <<os, spec, edits>> /\ UNCHANGED node
  BY DEF LocalInv, ReadSpecError, Step
<1> HIDE DEF r
<1>2. /\ q \in AgentState /\ q.pc = "report" /\ q.mode = r.mode
      /\ q.scan = r.scan /\ q.left = r.left /\ q.active = r.active
      /\ q.orphans = r.orphans
      /\ q.phase = r.phase /\ q.view = r.view /\ q.name = r.name
  BY <1>1 DEF Local, AgentState
<1> HIDE DEF q
<1>3. /\ CleanupSteps(q) /\ (Swept(os, files, r) => Swept(os, files, q))
      /\ (Chosen(files, r) => Chosen(files, q))
  BY <1>1, <1>2 DEF CleanupSteps, Swept, Accounted, OfActive, Chosen
<1>4. Local(q) /\ (Shared(os, links, files, r) => Shared(os, links, files, q))
  BY <1>1, <1>2, <1>3, DeleteStep
<1>5. QED BY <1>1, <1>4, QuietKept DEF r

LEMMA WorkDoneKept == ASSUME LocalInv, NEW a \in Agents, WorkDone(a) PROVE Kept
<1> DEFINE r == ag[a]
           q == [r EXCEPT !.pc = "report"]
<1>1. /\ r.pc = "work" /\ Local(r)
      /\ \A m \in Macs : r.phase[m] \in {"none", "ok", "failed"}
      /\ ag' = [ag EXCEPT ![a] = q]
      /\ UNCHANGED <<os, spec, edits>> /\ UNCHANGED node
  BY DEF LocalInv, WorkDone, Step
<1> HIDE DEF r
<1>2. /\ q \in AgentState /\ q.pc = "report" /\ q.mode = r.mode /\ q.scan = r.scan
      /\ q.left = r.left
      /\ q.orphans = r.orphans /\ q.active = r.active
      /\ q.phase = r.phase /\ q.view = r.view /\ q.name = r.name
  BY <1>1 DEF Local, AgentState
<1>3. r.mode = "apply"
  BY <1>1 DEF Local, CleanupSteps, AgentState
<1> HIDE DEF q
<1>4. Local(q)
  BY <1>1, <1>2, OtherStepLocal DEF CleanupSteps, Finished
<1>5. Shared(os, links, files, r) => Shared(os, links, files, q)
  <2>1. Swept(os, files, r) => Swept(os, files, q)
    BY <1>1, <1>2, <1>3 DEF Swept, Accounted, OfActive, OfViewed, Undone
  <2>2. Chosen(files, r) => Chosen(files, q)
    BY <1>1, <1>2, <1>3 DEF Chosen
  <2>3. QED BY <1>2, <2>1, <2>2 DEF Shared, NamesOwn, Persisted
<1>6. QED BY <1>1, <1>4, <1>5, QuietKept DEF r

(* Agent r goes on as q, with interface m in another phase.                *)
PhaseStep(r, q, m) ==
  /\ Local(r) /\ r.pc = "work" /\ r.phase[m] # "none"
  /\ \A k \in Macs : k # m => q.phase[k] = r.phase[k]
  /\ q.pc = r.pc /\ q.mode = r.mode /\ q.scan = r.scan /\ q.active = r.active
  /\ q.orphans = r.orphans /\ q.view = r.view /\ q.name = r.name
  /\ r.left \subseteq q.left

(* Meanwhile files f become g: only the file of its own name may change;   *)
(* it has the settings of the agent where the phase says so, is still to   *)
(* be rolled back, or has been.                                            *)
FileStep(f, g, r, q, m) ==
  /\ \A k \in Macs : k # m /\ r.name[k] # NoName => g[r.name[k]] = f[r.name[k]]
  /\ q.phase[m] \in {"validate", "ok"} /\ Persisted(f, r)
       => g[r.name[m]] = [mac |-> m, ver |-> r.view[m]]
  /\ r.phase[m] = "undo" => g[r.name[m]] = NoConfig \/ r.name[m] \in q.left
  /\ \A n \in Names : g[n] # NoConfig
       => \/ g[n] = f[n]
          \/ g[n] # Cut /\ g[n].mac = m
          \/ n = r.name[m] /\ q.phase[m] = "undo"

LEMMA PhaseShared ==
  ASSUME NEW r, NEW q, NEW m \in Macs, PhaseStep(r, q, m),
         NEW f, NEW g, FileStep(f, g, r, q, m),
         NEW o, NEW l, NEW h, NamesOwn(l, r) => NamesOwn(h, r)
  PROVE  Shared(o, l, f, r) => Shared(o, h, g, q)
<1> USE DEF PhaseStep, FileStep
<1> SUFFICES ASSUME Shared(o, l, f, r) PROVE Shared(o, h, g, q)
  OBVIOUS
<1>1. NamesOwn(h, q)
  BY DEF Shared, NamesOwn
<1>2. r.phase \in [Macs -> Phases] /\ r.mode = "apply" /\ r.view[m] > 0
  BY DEF Local, AgentState, CleanupSteps, Viewed
<1>3. Persisted(g, q)
  <2> SUFFICES ASSUME NEW k \in Macs, q.phase[k] \in {"validate", "ok"}
               PROVE  g[q.name[k]] = [mac |-> k, ver |-> q.view[k]]
    BY DEF Persisted
  <2>1. CASE k = m
    BY <2>1 DEF Shared
  <2>2. CASE k # m
    <3>1. r.phase[k] = q.phase[k]
      BY <2>2
    <3>2. r.name[k] # NoName
      BY <3>1 DEF Local, Named
    <3>3. QED BY <2>2, <3>1, <3>2 DEF Shared, Persisted
  <2>3. QED BY <2>1, <2>2
<1>4. Swept(o, g, q)
  <2> SUFFICES ASSUME o = "ubuntu", r.scan = "ok", NEW n \in Names, g[n] # NoConfig
               PROVE  Accounted(q, n, g[n])
    BY DEF Swept
  <2>1. CASE n = r.name[m] /\ q.phase[m] = "undo"
    BY <1>2, <2>1 DEF Accounted, Undone
  <2>2. CASE g[n] # Cut /\ g[n].mac = m
    BY <1>2, <2>2 DEF Accounted, OfViewed
  <2>3. CASE g[n] = f[n]
    <3>1. Accounted(r, n, f[n])
      BY <2>3 DEF Shared, Swept
    <3>2. CASE n \in r.left \/ OfActive(r, f[n]) \/ OfViewed(r, f[n])
      BY <1>2, <2>3, <3>2 DEF Accounted, OfActive, OfViewed
    <3>3. CASE Undone(r, n)
      <4>1. PICK k \in Macs : r.phase[k] = "undo" /\ r.name[k] = n
        BY <3>3 DEF Undone
      <4>2. CASE k = m
        BY <4>1, <4>2 DEF Accounted
      <4>3. CASE k # m
        BY <1>2, <4>1, <4>3 DEF Accounted, Undone
      <4>4. QED BY <4>2, <4>3
    <3>4. QED BY <1>2, <3>1, <3>2, <3>3 DEF Accounted
  <2>4. QED BY <2>1, <2>2, <2>3
<1>5. Chosen(g, q)
  BY <1>2 DEF Shared, Chosen
<1>6. QED BY <1>1, <1>3, <1>4, <1>5 DEF Shared

(* An agent r with an interface in another phase.                          *)
LEMMA PhaseLocal ==
  ASSUME NEW r, Local(r), r.pc = "work", NEW m \in Macs, r.phase[m] # "none",
         NEW q \in AgentState, \A k \in Macs : k # m => q.phase[k] = r.phase[k],
         q.pc = r.pc, q.mode = r.mode, q.view = r.view, q.name = r.name,
         q.phase[m] \in {"todo", "failed"} \/ r.name[m] # NoName
  PROVE  Local(q)
<1>1. Named(q)
  BY DEF Local, Named
<1>2. Viewed(q)
  BY DEF Local, Viewed
<1>3. NamesDistinct(q) /\ Early(q) /\ CleanupSteps(q) /\ Finished(q)
  BY DEF Local, NamesDistinct, Early, CleanupSteps, Finished
<1>4. QED BY <1>1, <1>2, <1>3 DEF Local

(* What Phase says: agent a goes on as q.                                  *)
LEMMA PhaseFacts ==
  ASSUME LocalInv, NEW a \in Agents, NEW m \in Macs, NEW from \in Phases \ {"none"},
         NEW to \in Phases \ {"none"}, Phase(a, m, from, to),
         to \in {"todo", "failed"} \/ ag[a].name[m] # NoName
  PROVE  /\ ag' = [ag EXCEPT ![a] = ag'[a]] /\ UNCHANGED <<os, spec, edits>>
         /\ ag[a].pc = "work" /\ ag[a].phase[m] = from
         /\ Local(ag[a]) /\ Local(ag'[a])
         /\ ag'[a].phase[m] = to
         /\ \A k \in Macs : k # m => ag'[a].phase[k] = ag[a].phase[k]
         /\ ag'[a].pc = ag[a].pc /\ ag'[a].mode = ag[a].mode /\ ag'[a].scan = ag[a].scan
         /\ ag'[a].left = ag[a].left
         /\ ag'[a].orphans = ag[a].orphans /\ ag'[a].active = ag[a].active
         /\ ag'[a].view = ag[a].view /\ ag'[a].name = ag[a].name
<1> DEFINE r == ag[a]
           q == [r EXCEPT !.phase[m] = to]
<1>1. /\ ag' = [ag EXCEPT ![a] = q] /\ UNCHANGED <<os, spec, edits>>
      /\ r.pc = "work" /\ r.phase[m] = from /\ Local(r)
      /\ to \in {"todo", "failed"} \/ r.name[m] # NoName
  BY DEF Phase, Step, LocalInv
<1> HIDE DEF r
<1>2. r \in AgentState /\ r.phase \in [Macs -> Phases]
  BY <1>1 DEF Local, AgentState
<1>3. /\ q.phase = [r.phase EXCEPT ![m] = to]
      /\ q.pc = r.pc /\ q.mode = r.mode /\ q.scan = r.scan /\ q.left = r.left /\ q.active = r.active
      /\ q.orphans = r.orphans /\ q.view = r.view /\ q.name = r.name
  BY <1>2 DEF AgentState
<1>4. q \in AgentState
  BY <1>2 DEF AgentState
<1> HIDE DEF q
<1>5. q.phase[m] = to /\ \A k \in Macs : k # m => q.phase[k] = r.phase[k]
  BY <1>2, <1>3
<1>6. Local(q)
  BY <1>1, <1>3, <1>4, <1>5, PhaseLocal
<1>7. ag'[a] = q /\ ag' = [ag EXCEPT ![a] = ag'[a]]
  BY <1>1 DEF LocalInv
<1>8. QED BY <1>1, <1>3, <1>5, <1>6, <1>7 DEF r

(* A step of the pool that changes nothing but the phase.                  *)
LEMMA PlainPhaseKept ==
  ASSUME LocalInv, NEW a \in Agents, NEW m \in Macs, NEW from \in Phases \ {"none"},
         NEW to \in Phases \ {"none"}, Phase(a, m, from, to), UNCHANGED node,
         to \in {"todo", "failed"} \/ ag[a].name[m] # NoName,
         to \in {"validate", "ok"} => from \in {"validate", "ok"}, from # "undo"
  PROVE  Kept
<1> DEFINE r == ag[a]
           q == ag'[a]
<1>1. /\ ag' = [ag EXCEPT ![a] = q] /\ UNCHANGED <<os, spec, edits>>
      /\ r.pc = "work" /\ r.phase[m] = from /\ Local(r) /\ Local(q)
      /\ q.phase[m] = to /\ \A k \in Macs : k # m => q.phase[k] = r.phase[k]
      /\ q.pc = r.pc /\ q.mode = r.mode /\ q.scan = r.scan /\ q.left = r.left /\ q.active = r.active
      /\ q.orphans = r.orphans /\ q.view = r.view /\ q.name = r.name
  BY PhaseFacts
<1>2. Shared(os, links, files, r) => Shared(os, links, files, q)
  <2> HIDE DEF r, q
  <2>1. to \in {"validate", "ok"} /\ Persisted(files, r)
          => files[r.name[m]] = [mac |-> m, ver |-> r.view[m]]
    BY <1>1 DEF Persisted
  <2>2. PhaseStep(r, q, m) /\ FileStep(files, files, r, q, m)
    BY <1>1, <2>1 DEF PhaseStep, FileStep
  <2>3. QED BY <2>2, PhaseShared
<1>3. QED BY <1>1, <1>2, QuietKept

LEMMA RefuseKept == ASSUME LocalInv, NEW a \in Agents, NEW m \in Macs, Refuse(a, m) PROVE Kept
<1>1. Phase(a, m, "todo", "failed") /\ UNCHANGED node
  BY DEF Refuse
<1>2. QED BY <1>1, PlainPhaseKept DEF Phases

LEMMA PreflightKept ==
  ASSUME LocalInv, NEW a \in Agents, NEW m \in Macs, Preflight(a, m) PROVE Kept
<1>1. Phase(a, m, "todo", "rename") /\ UNCHANGED node /\ ag[a].name[m] # NoName
  BY DEF Preflight
<1>2. QED BY <1>1, PlainPhaseKept DEF Phases

(* An interface that is worked on has a name.                              *)
LEMMA WorkNamed ==
  ASSUME LocalInv, NEW a \in Agents, NEW m \in Macs,
         ag[a].phase[m] \notin {"none", "todo", "failed"}
  PROVE  ag[a].name[m] # NoName /\ ag[a].name[m] \in Names
BY DEF LocalInv, Local, Named, AgentState

LEMMA ValidateKept ==
  ASSUME LocalInv, NEW a \in Agents, NEW m \in Macs, Validate(a, m) PROVE Kept
<1>1. Phase(a, m, "validate", "ok") /\ UNCHANGED node /\ ag[a].phase[m] = "validate"
  BY DEF Validate, Phase
<1>2. QED BY <1>1, WorkNamed, PlainPhaseKept DEF Phases

LEMMA ApplyErrorKept ==
  ASSUME LocalInv, NEW a \in Agents, NEW m \in Macs, ApplyError(a, m) PROVE Kept
<1>1. PICK from \in {"rename", "address", "write", "validate"} : Phase(a, m, from, "undo")
  BY DEF ApplyError
<1>2. ag[a].phase[m] = from /\ UNCHANGED node
  BY <1>1 DEF ApplyError, Phase
<1>3. QED BY <1>1, <1>2, WorkNamed, PlainPhaseKept DEF Phases

LEMMA RenameKept == ASSUME LocalInv, NEW a \in Agents, NEW m \in Macs, Rename(a, m) PROVE Kept
<1> DEFINE r == ag[a]
           q == ag'[a]
<1>1. /\ Phase(a, m, "rename", "address") /\ ag[a].phase[m] = "rename"
      /\ links[m] = r.name[m] \/ r.name[m] \notin NamesInUse
      /\ links' = [links EXCEPT ![m] = r.name[m]]
      /\ UNCHANGED <<conf, files>>
  BY DEF Rename, Phase, findDeviceByMAC
<1>2. r.name[m] # NoName /\ r.name[m] \in Names
  BY <1>1, WorkNamed
<1>3. /\ ag' = [ag EXCEPT ![a] = q] /\ UNCHANGED <<os, spec, edits>>
      /\ r.pc = "work" /\ r.phase[m] = "rename" /\ Local(r) /\ Local(q)
      /\ q.phase[m] = "address" /\ \A k \in Macs : k # m => q.phase[k] = r.phase[k]
      /\ q.pc = r.pc /\ q.mode = r.mode /\ q.scan = r.scan /\ q.left = r.left /\ q.active = r.active
      /\ q.orphans = r.orphans /\ q.view = r.view /\ q.name = r.name
  <2>1. Phase(a, m, "rename", "address") /\ ag[a].name[m] # NoName
    BY <1>1, <1>2
  <2>2. "rename" \in Phases \ {"none"} /\ "address" \in Phases \ {"none"}
    BY DEF Phases
  <2>3. QED BY <2>1, <2>2, PhaseFacts
<1>4. /\ links \in [Macs -> Names \cup {Kernel, Absent}] /\ LinksDistinct(links)
      /\ conf' \in [Macs -> SUBSET Macs] /\ files' \in [Names -> Config \cup {NoConfig, Cut}]
      /\ Alone /\ SharedInv => Shared(os, links, files, r) /\ AddressOnOwnLink'
  BY <1>1 DEF LocalInv, NodeOK, SharedInv, AddressOnOwnLink
<1> HIDE DEF r, q
<1>5. links' \in [Macs -> Names \cup {Kernel, Absent}]
  BY <1>1, <1>2, <1>4
<1>6. LinksDistinct(links')
  <2>1. \A k \in Macs : k # m => links[k] # r.name[m]
    BY <1>1, <1>2, <1>4 DEF NamesInUse, LinksDistinct
  <2>2. QED BY <1>1, <1>4, <2>1 DEF LinksDistinct
<1>7. NamesOwn(links, r) => NamesOwn(links', r)
  <2>1. \A x \in Macs : x # m /\ r.name[x] # NoName => r.name[x] # r.name[m]
    BY <1>3 DEF Local, NamesDistinct
  <2>2. QED BY <1>1, <1>4, <2>1 DEF NamesOwn
<1>8. Shared(os, links, files, r) => Shared(os, links', files, q)
  <2>1. PhaseStep(r, q, m) /\ FileStep(files, files, r, q, m)
    BY <1>3 DEF PhaseStep, FileStep
  <2>2. QED BY <1>7, <2>1, PhaseShared
<1>9. QED BY <1>1, <1>3, <1>4, <1>5, <1>6, <1>8, StepKept

LEMMA SetAddressKept ==
  ASSUME LocalInv, NEW a \in Agents, NEW m \in Macs, SetAddress(a, m) PROVE Kept
<1> DEFINE r == ag[a]
           q == ag'[a]
<1>1. /\ Phase(a, m, "address", "write") /\ ag[a].phase[m] = "address"
      /\ UNCHANGED <<links, files>>
  BY DEF SetAddress, Phase
<1>2. PICK x \in Macs : links[x] = r.name[m] /\ conf' = [conf EXCEPT ![x] = @ \cup {m}]
  BY DEF SetAddress
<1>3. r.name[m] # NoName
  BY <1>1, WorkNamed
<1>4. /\ ag' = [ag EXCEPT ![a] = q] /\ UNCHANGED <<os, spec, edits>>
      /\ r.pc = "work" /\ r.phase[m] = "address" /\ Local(r) /\ Local(q)
      /\ q.phase[m] = "write" /\ \A k \in Macs : k # m => q.phase[k] = r.phase[k]
      /\ q.pc = r.pc /\ q.mode = r.mode /\ q.scan = r.scan /\ q.left = r.left /\ q.active = r.active
      /\ q.orphans = r.orphans /\ q.view = r.view /\ q.name = r.name
  <2>1. Phase(a, m, "address", "write") /\ ag[a].name[m] # NoName
    BY <1>1, <1>3
  <2>2. "address" \in Phases \ {"none"} /\ "write" \in Phases \ {"none"}
    BY DEF Phases
  <2>3. QED BY <2>1, <2>2, PhaseFacts
<1>5. /\ conf \in [Macs -> SUBSET Macs]
      /\ links' \in [Macs -> Names \cup {Kernel, Absent}] /\ LinksDistinct(links')
      /\ files' \in [Names -> Config \cup {NoConfig, Cut}]
      /\ Alone /\ SharedInv => Shared(os, links, files, r) /\ AddressOnOwnLink
  BY <1>1 DEF LocalInv, NodeOK, SharedInv
<1> HIDE DEF r, q
<1>6. conf' \in [Macs -> SUBSET Macs]
  BY <1>2, <1>5
<1>7. Shared(os, links, files, r) /\ AddressOnOwnLink => AddressOnOwnLink'
  <2>1. NamesOwn(links, r) => x = m
    BY <1>2, <1>3 DEF NamesOwn
  <2>2. x = m /\ AddressOnOwnLink => AddressOnOwnLink'
    BY <1>2, <1>5 DEF AddressOnOwnLink
  <2>3. QED BY <2>1, <2>2 DEF Shared
<1>8. Shared(os, links, files, r) => Shared(os, links, files, q)
  <2>1. PhaseStep(r, q, m) /\ FileStep(files, files, r, q, m)
    BY <1>4 DEF PhaseStep, FileStep
  <2>2. QED BY <2>1, PhaseShared
<1>9. QED BY <1>1, <1>4, <1>5, <1>6, <1>7, <1>8, StepKept

LEMMA WriteFileKept ==
  ASSUME LocalInv, NEW a \in Agents, NEW m \in Macs, WriteFile(a, m) PROVE Kept
<1> DEFINE r == ag[a]
           q == ag'[a]
           c == Settings(a, m)
<1>1. /\ Phase(a, m, "write", "validate") /\ ag[a].phase[m] = "write"
      /\ files' = [files EXCEPT ![r.name[m]] = c]
      /\ UNCHANGED <<links, conf>>
  BY DEF WriteFile, Phase
<1>2. r.name[m] # NoName /\ r.name[m] \in Names
  BY <1>1, WorkNamed
<1>3. /\ ag' = [ag EXCEPT ![a] = q] /\ UNCHANGED <<os, spec, edits>>
      /\ r.pc = "work" /\ r.phase[m] = "write" /\ Local(r) /\ Local(q)
      /\ q.phase[m] = "validate" /\ \A k \in Macs : k # m => q.phase[k] = r.phase[k]
      /\ q.pc = r.pc /\ q.mode = r.mode /\ q.scan = r.scan /\ q.left = r.left /\ q.active = r.active
      /\ q.orphans = r.orphans /\ q.view = r.view /\ q.name = r.name
  <2>1. Phase(a, m, "write", "validate") /\ ag[a].name[m] # NoName
    BY <1>1, <1>2
  <2>2. "write" \in Phases \ {"none"} /\ "validate" \in Phases \ {"none"}
    BY DEF Phases
  <2>3. QED BY <2>1, <2>2, PhaseFacts
<1>4. c = [mac |-> m, ver |-> r.view[m]]
  BY DEF Settings
<1>5. /\ links' \in [Macs -> Names \cup {Kernel, Absent}] /\ LinksDistinct(links')
      /\ conf' \in [Macs -> SUBSET Macs] /\ files \in [Names -> Config \cup {NoConfig, Cut}]
      /\ Alone /\ SharedInv => Shared(os, links, files, r) /\ AddressOnOwnLink'
  BY <1>1 DEF LocalInv, NodeOK, SharedInv, AddressOnOwnLink
<1> HIDE DEF r, q, c
<1>6. c \in Config
  <2>1. r.view[m] \in 0 .. MaxVer /\ r.view[m] > 0
    BY <1>3 DEF Local, Viewed, AgentState
  <2>2. r.view[m] \in 1 .. MaxVer
    BY <2>1, FilesAssumption
  <2>3. QED BY <1>4, <2>2 DEF Config
<1>7. /\ files' \in [Names -> Config \cup {NoConfig, Cut}]
      /\ files'[r.name[m]] = c
      /\ \A n \in Names : n # r.name[m] => files'[n] = files[n]
  BY <1>1, <1>2, <1>5, <1>6
<1>8. Shared(os, links, files, r) => Shared(os, links, files', q)
  <2>1. \A k \in Macs : k # m /\ r.name[k] # NoName => files'[r.name[k]] = files[r.name[k]]
    <3>1. \A k \in Macs : r.name[k] \in Names \cup {NoName}
      BY <1>3 DEF Local, AgentState
    <3>2. \A k \in Macs : k # m /\ r.name[k] # NoName => r.name[k] # r.name[m]
      BY <1>3 DEF Local, NamesDistinct
    <3>3. QED BY <1>7, <3>1, <3>2
  <2>2. \A n \in Names : files'[n] = files[n] \/ (files'[n] # Cut /\ files'[n].mac = m)
    BY <1>4, <1>6, <1>7, ConfigAssumption
  <2>3. files'[r.name[m]] = [mac |-> m, ver |-> r.view[m]]
    BY <1>4, <1>7
  <2>4. PhaseStep(r, q, m) /\ FileStep(files, files', r, q, m)
    BY <1>3, <2>1, <2>2, <2>3 DEF PhaseStep, FileStep
  <2>5. QED BY <2>4, PhaseShared
<1>9. QED BY <1>1, <1>3, <1>5, <1>7, <1>8, StepKept

(* A write that fails leaves the file to the rollback.                     *)
LEMMA WriteErrorKept ==
  ASSUME LocalInv, NEW a \in Agents, NEW m \in Macs, WriteError(a, m) PROVE Kept
<1> DEFINE r == ag[a]
           q == ag'[a]
<1>1. /\ Phase(a, m, "write", "undo") /\ ag[a].phase[m] = "write"
      /\ files' = [files EXCEPT ![r.name[m]] = Cut]
      /\ UNCHANGED <<links, conf>>
  BY DEF WriteError, Phase
<1>2. r.name[m] # NoName /\ r.name[m] \in Names
  BY <1>1, WorkNamed
<1>3. /\ ag' = [ag EXCEPT ![a] = q] /\ UNCHANGED <<os, spec, edits>>
      /\ r.pc = "work" /\ r.phase[m] = "write" /\ Local(r) /\ Local(q)
      /\ q.phase[m] = "undo" /\ \A k \in Macs : k # m => q.phase[k] = r.phase[k]
      /\ q.pc = r.pc /\ q.mode = r.mode /\ q.scan = r.scan /\ q.left = r.left
      /\ q.active = r.active
      /\ q.orphans = r.orphans /\ q.view = r.view /\ q.name = r.name
  <2>1. Phase(a, m, "write", "undo") /\ ag[a].name[m] # NoName
    BY <1>1, <1>2
  <2>2. "write" \in Phases \ {"none"} /\ "undo" \in Phases \ {"none"}
    BY DEF Phases
  <2>3. QED BY <2>1, <2>2, PhaseFacts
<1>4. /\ links' \in [Macs -> Names \cup {Kernel, Absent}] /\ LinksDistinct(links')
      /\ conf' \in [Macs -> SUBSET Macs] /\ files \in [Names -> Config \cup {NoConfig, Cut}]
      /\ Alone /\ SharedInv => Shared(os, links, files, r) /\ AddressOnOwnLink'
  BY <1>1 DEF LocalInv, NodeOK, SharedInv, AddressOnOwnLink
<1> HIDE DEF r, q
<1>5. /\ files' \in [Names -> Config \cup {NoConfig, Cut}]
      /\ \A n \in Names : n # r.name[m] => files'[n] = files[n]
  BY <1>1, <1>2, <1>4
<1>6. Shared(os, links, files, r) => Shared(os, links, files', q)
  <2>1. \A k \in Macs : k # m /\ r.name[k] # NoName => files'[r.name[k]] = files[r.name[k]]
    <3>1. \A k \in Macs : r.name[k] \in Names \cup {NoName}
      BY <1>3 DEF Local, AgentState
    <3>2. \A k \in Macs : k # m /\ r.name[k] # NoName => r.name[k] # r.name[m]
      BY <1>3 DEF Local, NamesDistinct
    <3>3. QED BY <1>5, <3>1, <3>2
  <2>2. \A n \in Names : files'[n] # NoConfig
          => \/ files'[n] = files[n]
             \/ files'[n] # Cut /\ files'[n].mac = m
             \/ n = r.name[m] /\ q.phase[m] = "undo"
    BY <1>3, <1>5
  <2>3. FileStep(files, files', r, q, m)
    BY <1>3, <2>1, <2>2 DEF FileStep
  <2>4. PhaseStep(r, q, m)
    BY <1>3 DEF PhaseStep
  <2>5. QED BY <2>3, <2>4, PhaseShared
<1>7. QED BY <1>1, <1>3, <1>4, <1>5, <1>6, StepKept

LEMMA RollbackKept ==
  ASSUME LocalInv, NEW a \in Agents, NEW m \in Macs, Rollback(a, m) PROVE Kept
<1>1. PICK to \in {"todo", "failed"} : Phase(a, m, "undo", to)
  BY DEF Rollback
<1> DEFINE r == ag[a]
           q == ag'[a]
<1>2. /\ ag[a].phase[m] = "undo"
      /\ files' = [files EXCEPT ![r.name[m]] = NoConfig]
      /\ UNCHANGED <<links, conf>>
  BY <1>1 DEF Rollback, Phase
<1>3. r.name[m] # NoName /\ r.name[m] \in Names
  BY <1>2, WorkNamed
<1>4. /\ ag' = [ag EXCEPT ![a] = q] /\ UNCHANGED <<os, spec, edits>>
      /\ r.pc = "work" /\ r.phase[m] = "undo" /\ Local(r) /\ Local(q)
      /\ q.phase[m] = to /\ \A k \in Macs : k # m => q.phase[k] = r.phase[k]
      /\ q.pc = r.pc /\ q.mode = r.mode /\ q.scan = r.scan /\ q.left = r.left
      /\ q.active = r.active
      /\ q.orphans = r.orphans /\ q.view = r.view /\ q.name = r.name
  <2>1. "undo" \in Phases \ {"none"} /\ to \in Phases \ {"none"}
    BY DEF Phases
  <2>2. QED BY <1>1, <2>1, PhaseFacts
<1>5. /\ links' \in [Macs -> Names \cup {Kernel, Absent}] /\ LinksDistinct(links')
      /\ conf' \in [Macs -> SUBSET Macs] /\ files \in [Names -> Config \cup {NoConfig, Cut}]
      /\ Alone /\ SharedInv => Shared(os, links, files, r) /\ AddressOnOwnLink'
  BY <1>2 DEF LocalInv, NodeOK, SharedInv, AddressOnOwnLink
<1> HIDE DEF r, q
<1>6. /\ files' \in [Names -> Config \cup {NoConfig, Cut}]
      /\ files'[r.name[m]] = NoConfig
      /\ \A n \in Names : n # r.name[m] => files'[n] = files[n]
      /\ \A n \in Names : files'[n] # NoConfig => files'[n] = files[n]
  BY <1>2, <1>3, <1>5
<1>7. Shared(os, links, files, r) => Shared(os, links, files', q)
  <2>1. \A k \in Macs : k # m /\ r.name[k] # NoName => files'[r.name[k]] = files[r.name[k]]
    <3>1. \A k \in Macs : r.name[k] \in Names \cup {NoName}
      BY <1>4 DEF Local, AgentState
    <3>2. \A k \in Macs : k # m /\ r.name[k] # NoName => r.name[k] # r.name[m]
      BY <1>4 DEF Local, NamesDistinct
    <3>3. QED BY <1>6, <3>1, <3>2
  <2>2. \A n \in Names : files'[n] # NoConfig
          => \/ files'[n] = files[n]
             \/ files'[n] # Cut /\ files'[n].mac = m
             \/ n = r.name[m] /\ q.phase[m] = "undo"
    BY <1>6
  <2>3. FileStep(files, files', r, q, m)
    BY <1>4, <1>6, <2>1, <2>2 DEF FileStep
  <2>4. PhaseStep(r, q, m)
    BY <1>4 DEF PhaseStep
  <2>5. QED BY <2>3, <2>4, PhaseShared
<1>8. QED BY <1>2, <1>4, <1>5, <1>6, <1>7, StepKept

LEMMA RollbackErrorKept ==
  ASSUME LocalInv, NEW a \in Agents, NEW m \in Macs, RollbackError(a, m) PROVE Kept
<1> DEFINE r == ag[a]
           e == r.left \cup {r.name[m]}
<1>1. PICK to \in {"todo", "failed"} :
        Step(a, "work", [ag[a] EXCEPT !.phase[m] = to, !.left = @ \cup {ag[a].name[m]}])
  BY DEF RollbackError
<1> DEFINE q == [r EXCEPT !.phase[m] = to, !.left = e]
<1>2. /\ r.pc = "work" /\ r.phase[m] = "undo" /\ Local(r)
      /\ ag' = [ag EXCEPT ![a] = q]
      /\ UNCHANGED <<os, spec, edits>> /\ UNCHANGED node
  BY <1>1 DEF LocalInv, RollbackError, Step
<1>3. r.name[m] # NoName /\ r.name[m] \in Names
  BY <1>2, WorkNamed
<1> HIDE DEF r
<1>4. r \in AgentState /\ r.phase \in [Macs -> Phases] /\ e \in SUBSET Names
  BY <1>2, <1>3 DEF Local, AgentState
<1>5. r.name[m] \in e /\ r.left \subseteq e
  OBVIOUS
<1> HIDE DEF e
<1>6. /\ q.phase = [r.phase EXCEPT ![m] = to] /\ q.left = e
      /\ q.pc = r.pc /\ q.mode = r.mode /\ q.scan = r.scan /\ q.active = r.active
      /\ q.orphans = r.orphans /\ q.view = r.view /\ q.name = r.name
  BY <1>4 DEF AgentState
<1>7. q \in AgentState
  BY <1>4 DEF AgentState, Phases
<1> HIDE DEF q
<1>8. q.phase[m] = to /\ \A k \in Macs : k # m => q.phase[k] = r.phase[k]
  BY <1>4, <1>6
<1>9. Local(q)
  <2>1. /\ r.phase[m] # "none" /\ q.phase[m] \in {"todo", "failed"}
        /\ r.pc = "work" /\ Local(r)
        /\ q.pc = r.pc /\ q.mode = r.mode /\ q.view = r.view /\ q.name = r.name
    BY <1>1, <1>2, <1>6, <1>8
  <2>2. QED BY <1>7, <1>8, <2>1, PhaseLocal
<1>10. Shared(os, links, files, r) => Shared(os, links, files, q)
  <2>1. PhaseStep(r, q, m) /\ FileStep(files, files, r, q, m)
    BY <1>1, <1>2, <1>5, <1>6, <1>8 DEF PhaseStep, FileStep
  <2>2. QED BY <2>1, PhaseShared
<1>11. QED BY <1>2, <1>9, <1>10, QuietKept DEF r
-----------------------------------------------------------------------------
(* The end of an agent, and what happens around it                         *)

(* An agent that ends, or is killed anywhere, leaves nothing that the next *)
(* one relies on.                                                          *)
LEMMA NoAgentShared ==
  ASSUME NEW o, NEW l, NEW f PROVE Shared(o, l, f, NoAgent)
<1>1. /\ NoAgent.pc = "idle" /\ NoAgent.mode = "apply"
      /\ NoAgent.orphans = {}
      /\ \A m \in Macs : NoAgent.phase[m] = "none" /\ NoAgent.name[m] = NoName
  BY DEF NoAgent
<1> HIDE DEF NoAgent
<1>2. QED BY <1>1 DEF Shared, NamesOwn, Persisted, Swept, Accounted, Chosen

LEMMA ExitKept == ASSUME LocalInv, NEW a \in Agents, Exit(a) PROVE Kept
<1>1. /\ ag' = [ag EXCEPT ![a] = NoAgent] /\ UNCHANGED <<os, spec, edits>> /\ UNCHANGED node
  BY DEF Exit, Step
<1>2. QED BY <1>1, NoAgentLocal, NoAgentShared, QuietKept

LEMMA KillKept == ASSUME LocalInv, NEW a \in Agents, Kill(a) PROVE Kept
<1>1. /\ ag' = [ag EXCEPT ![a] = NoAgent] /\ UNCHANGED <<os, spec, edits>>
      /\ UNCHANGED <<links, conf>>
  BY DEF Kill, Step
<1>2. PICK cut : files' = [n \in Names |-> IF n \in cut THEN Cut ELSE files[n]]
  BY DEF Kill
<1>3. files' \in [Names -> Config \cup {NoConfig, Cut}]
  BY <1>2 DEF LocalInv, NodeOK
<1>4. /\ links' \in [Macs -> Names \cup {Kernel, Absent}] /\ LinksDistinct(links')
      /\ conf' \in [Macs -> SUBSET Macs]
      /\ SharedInv => AddressOnOwnLink'
  BY <1>1 DEF LocalInv, NodeOK, SharedInv, AddressOnOwnLink
<1>5. Shared(os, links', files', NoAgent)
  BY NoAgentShared
<1> HIDE DEF NoAgent
<1>6. QED BY <1>1, <1>3, <1>4, <1>5, NoAgentLocal, StepKept

LEMMA EditSpecKept == ASSUME LocalInv, NEW m \in Macs, EditSpec(m) PROVE Kept
<1>1. edits < MaxEdits /\ edits' = edits + 1 /\ UNCHANGED <<os, links, conf, files, ag>>
  BY DEF EditSpec, Edit, node
<1>2. PICK v \in 0 .. MaxVer : spec' = [spec EXCEPT ![m] = v]
  BY DEF EditSpec
<1>3. edits' \in 0 .. MaxEdits
  BY <1>1, FilesAssumption DEF LocalInv, NodeOK
<1>4. LocalInv'
  BY <1>1, <1>2, <1>3 DEF LocalInv, NodeOK
<1>5. SharedInv => SharedInv'
  BY <1>1 DEF SharedInv, AddressOnOwnLink
<1>6. QED BY <1>4, <1>5 DEF Kept

(* A link that comes or goes takes no name of ours.                        *)
LEMMA PortKept == ASSUME LocalInv, NEW m \in Macs, Plug(m) \/ Unplug(m) PROVE Kept
<1>1. /\ UNCHANGED <<os, spec, files, ag>>
      /\ edits < MaxEdits /\ edits' = edits + 1
      /\ links' \in {[links EXCEPT ![m] = Kernel], [links EXCEPT ![m] = Absent]}
      /\ conf' \in {conf, [conf EXCEPT ![m] = {}]}
  BY DEF Plug, Unplug, Edit
<1>2. /\ links' \in [Macs -> Names \cup {Kernel, Absent}]
      /\ \A k \in Macs : links'[k] \in {Kernel, Absent, links[k]}
      /\ conf' \in [Macs -> SUBSET Macs] /\ \A k \in Macs : conf'[k] \subseteq conf[k]
  BY <1>1 DEF LocalInv, NodeOK
<1>3. LinksDistinct(links')
  BY <1>2, FilesAssumption DEF LocalInv, LinksDistinct
<1>4. LocalInv'
  <2>1. edits' \in 0 .. MaxEdits
    BY <1>1, FilesAssumption DEF LocalInv, NodeOK
  <2>2. QED BY <1>1, <1>2, <1>3, <2>1 DEF LocalInv, NodeOK
<1>5. ASSUME SharedInv PROVE SharedInv'
  <2>1. ASSUME NEW a \in Agents PROVE Shared(os', links', files', ag'[a])
    <3>1. \A k \in Macs : ag[a].name[k] \in Names \cup {NoName}
      BY DEF LocalInv, AgentState
    <3>2. NamesOwn(links, ag[a]) => NamesOwn(links', ag[a])
      BY <1>2, <3>1, FilesAssumption DEF NamesOwn
    <3>3. QED BY <1>1, <1>5, <3>2 DEF SharedInv, Shared
  <2>2. AddressOnOwnLink'
    BY <1>2, <1>5 DEF SharedInv, AddressOnOwnLink
  <2>3. QED BY <2>1, <2>2 DEF SharedInv
<1>6. QED BY <1>4, <1>5 DEF Kept
-----------------------------------------------------------------------------
(* The theorems                                                            *)

LEMMA Initially == Init => LocalInv /\ SharedInv
<1> SUFFICES ASSUME Init PROVE LocalInv /\ SharedInv
  OBVIOUS
<1>1. NodeOK /\ LinksDistinct(links) /\ conf \in [Macs -> SUBSET Macs]
  BY FilesAssumption DEF Init, NodeOK, LinksDistinct
<1>2. ag = [a \in Agents |-> NoAgent]
  BY DEF Init
<1>3. ag \in [Agents -> AgentState] /\ \A a \in Agents : Local(ag[a])
  BY <1>2, NoAgentLocal DEF Local
<1>4. SharedInv
  <2>1. AddressOnOwnLink
    BY DEF Init, AddressOnOwnLink
  <2>2. QED BY <1>2, <2>1, NoAgentShared DEF SharedInv
<1>5. QED BY <1>1, <1>3, <1>4 DEF LocalInv

LEMMA DeleteKept == ASSUME LocalInv, NEW a \in Agents, Delete(a) PROVE Kept
BY ListFilesKept, ListAllFilesKept, ListMissingKept, ListErrorKept, ReadActiveKept,
   ReadActiveErrorKept, CheckDoneKept, DeleteDoneKept, CleanupNamesKept, CheckFileKept,
   SkipFileKept, DeleteFileKept, DeleteFileErrorKept
DEF Delete

LEMMA ConfigureKept == ASSUME LocalInv, NEW a \in Agents, Configure(a) PROVE Kept
<1>1. ASSUME NEW m \in Macs, Process(a, m) PROVE Kept
  BY <1>1, RefuseKept, PreflightKept, RenameKept, SetAddressKept, WriteFileKept, ValidateKept,
     ApplyErrorKept, WriteErrorKept, RollbackKept, RollbackErrorKept
  DEF Process
<1>2. QED BY <1>1, ReadSpecKept, ReadSpecErrorKept, WorkDoneKept DEF Configure

LEMMA StepsKept == ASSUME LocalInv, [Next]_vars PROVE Kept
<1>1. CASE UNCHANGED vars
  BY <1>1 DEF vars, Kept, LocalInv, NodeOK, SharedInv, AddressOnOwnLink
<1>2. CASE \E a \in Agents : Agent(a)
  BY <1>2, StartKept, DeleteKept, ConfigureKept, ExitKept, KillKept DEF Agent
<1>3. CASE \E m \in Macs : EditSpec(m) \/ Plug(m) \/ Unplug(m)
  BY <1>3, EditSpecKept, PortKept
<1>4. QED BY <1>1, <1>2, <1>3 DEF Next

LEMMA LocalAlways == Spec => []LocalInv
<1>1. Init => LocalInv
  BY Initially
<1>2. LocalInv /\ [Next]_vars => LocalInv'
  BY StepsKept DEF Kept
<1>3. QED BY <1>1, <1>2, PTL DEF Spec

LEMMA SharedAlways == Alone => (Spec => [](LocalInv /\ SharedInv))
<1> SUFFICES ASSUME Alone PROVE Spec => [](LocalInv /\ SharedInv)
  OBVIOUS
<1>1. Init => LocalInv /\ SharedInv
  BY Initially
<1>2. LocalInv /\ SharedInv /\ [Next]_vars => (LocalInv /\ SharedInv)'
  BY StepsKept DEF Kept
<1>3. QED BY <1>1, <1>2, PTL DEF Spec

(* Every variable keeps its type, for any number of agents at a time: in   *)
(* particular an interface that is worked on has a name                    *)
(* (configure_network.go:212-250).                                         *)
THEOREM FilesTypeCorrect == Spec => []TypeOK
<1>1. LocalInv => TypeOK
  BY DEF LocalInv, NodeOK, Local, Named, TypeOK
<1>2. QED BY <1>1, LocalAlways, PTL

(* An agent that is alone on the node reports as configured only what is   *)
(* in the file of its name, however many interfaces and names there are    *)
(* and wherever earlier agents were killed (configure_network.go:212-250,  *)
(* netplan_adapter.go:124-135).                                            *)
THEOREM ConfiguredIsInFile == Alone => (Spec => []ConfiguredIsPersisted)
<1> SUFFICES ASSUME Alone PROVE Spec => []ConfiguredIsPersisted
  OBVIOUS
<1>1. SharedInv => ConfiguredIsPersisted
  BY DEF SharedInv, Shared, Persisted, ConfiguredIsPersisted, Settings
<1>2. QED BY <1>1, SharedAlways, PTL

(* One agent never puts an address on the link of another interface, also  *)
(* when links come and go between its commands                             *)
(* (netplan_adapter.go:68-107).                                            *)
THEOREM AddressesAreOwn == Alone => (Spec => []AddressOnOwnLink)
<1> SUFFICES ASSUME Alone PROVE Spec => []AddressOnOwnLink
  OBVIOUS
<1>1. SharedInv => AddressOnOwnLink
  BY DEF SharedInv
<1>2. QED BY <1>1, SharedAlways, PTL

(* When an apply of one agent that could search the files ends, on Ubuntu, *)
(* every file left is one of a listed interface or one the agent has       *)
(* logged as not readable or not removable, however it was written, failed *)
(* or was killed before (delete_network.go:60-127,198-252).                *)
THEOREM OrphansAreRemoved == Alone => (Spec => []OrphansRemoved)
<1> SUFFICES ASSUME Alone PROVE Spec => []OrphansRemoved
  OBVIOUS
<1>1. LocalInv /\ SharedInv => OrphansRemoved
  <2> SUFFICES ASSUME LocalInv, SharedInv, os = "ubuntu", NEW a \in Agents, NEW n \in Names,
                      ag[a].pc = "report", ag[a].mode = "apply", ag[a].scan = "ok",
                      files[n] # NoConfig, n \notin ag[a].left
               PROVE  /\ files[n] # Cut
                      /\ files[n].mac \in ag[a].active \/ ag[a].view[files[n].mac] > 0
    BY DEF OrphansRemoved
  <2>1. Accounted(ag[a], n, files[n])
    BY DEF SharedInv, Shared, Swept
  <2>2. ~Undone(ag[a], n)
    BY DEF LocalInv, Local, Finished, Undone
  <2>3. QED BY <2>1, <2>2 DEF Accounted, OfActive, OfViewed
<1>2. QED BY <1>1, SharedAlways, PTL

(* When a cleanup of one agent that could list the files ends, on Ubuntu,  *)
(* those it has not removed are those it reports an error for              *)
(* (delete_network.go:455-506).                                            *)
THEOREM CleanupIsComplete == Alone => (Spec => []CleanupRemovesAll)
<1> SUFFICES ASSUME Alone PROVE Spec => []CleanupRemovesAll
  OBVIOUS
<1>1. SharedInv => CleanupRemovesAll
  <2> SUFFICES ASSUME SharedInv, os = "ubuntu", NEW a \in Agents, NEW n \in Names,
                      ag[a].pc = "report", ag[a].mode = "cleanup", ag[a].scan = "ok",
                      files[n] # NoConfig
               PROVE  n \in ag[a].left
    BY DEF CleanupRemovesAll
  <2>1. Accounted(ag[a], n, files[n])
    BY DEF SharedInv, Shared, Swept
  <2>2. QED BY <2>1 DEF Accounted
<1>2. QED BY <1>1, SharedAlways, PTL

(* One agent deletes, while it looks for orphans, no file of an interface  *)
(* that was listed when it looked, as the documentation says               *)
(* (README.md:131, delete_network.go:60-127); with two agents it may.      *)
THEOREM DeletedWereOrphans == Alone => (Spec => OnlyOrphansDeleted)
<1> SUFFICES ASSUME Alone PROVE Spec => OnlyOrphansDeleted
  OBVIOUS
<1> DEFINE Unlisted ==
      \A a \in Agents, n \in Names :
        /\ ag[a].pc = "delete" /\ ag[a].mode = "apply" /\ ag'[a].orphans # ag[a].orphans
        /\ files[n] \in Config /\ files'[n] # files[n]
        => files[n].mac \notin ag[a].active
<1>1. ASSUME LocalInv, SharedInv, Next PROVE Unlisted
  <2> SUFFICES ASSUME NEW a \in Agents, NEW n \in Names, ag[a].pc = "delete",
                      ag[a].mode = "apply", ag'[a].orphans # ag[a].orphans,
                      files[n] \in Config, files'[n] # files[n]
               PROVE  files[n].mac \notin ag[a].active
    OBVIOUS
  <2>1. files' # files /\ ag' # ag
    OBVIOUS
  <2>2. PICK b \in Agents :
          \/ \E k \in Names : DeleteFile(b, k)
          \/ \E m \in Macs : WriteFile(b, m) \/ WriteError(b, m) \/ Rollback(b, m)
          \/ Kill(b)
    BY <1>1, <2>1 DEF Next, Agent, Delete, Configure, Process, Start, ListFiles, ListAllFiles,
       ListMissing, ListError, ReadActive, ReadActiveError, CheckDone, DeleteDone, CheckFile,
       SkipFile, DeleteFileError, cleanupMultinicInterfaceNames, ReadSpec, ReadSpecError, WorkDone,
       Refuse, Preflight, Rename, SetAddress, Validate, ApplyError, RollbackError, Exit, EditSpec,
       Plug, Unplug, node
  <2>3. b = a
    BY DEF Alone
  <2>4. CASE Kill(a)
    <3>1. PICK cut \in SUBSET {ag[a].name[m] : m \in {k \in Macs : ag[a].phase[k] = "write"}} :
            files' = [k \in Names |-> IF k \in cut THEN Cut ELSE files[k]]
      BY <2>4 DEF Kill
    <3>2. cut = {}
      BY <1>1, <3>1 DEF LocalInv, Local, Early
    <3>3. QED BY <3>1, <3>2
  <2>5. CASE \E k \in Names : DeleteFile(a, k)
    <3>1. PICK k \in Names : DeleteFile(a, k)
      BY <2>5
    <3>2. k = n /\ n \in ag[a].orphans
      BY <1>1, <3>1 DEF DeleteFile, First, LocalInv, NodeOK
    <3>3. QED BY <1>1, <3>2 DEF SharedInv, Shared, Chosen
  <2>6. QED BY <2>2, <2>3, <2>4, <2>5 DEF WriteFile, WriteError, Rollback, Phase, Step
<1>2. ASSUME LocalInv, SharedInv, [Next]_vars PROVE [Unlisted]_vars
  BY <1>1, <1>2
<1>3. QED BY <1>2, SharedAlways, PTL DEF Spec, OnlyOrphansDeleted
=============================================================================
