--------------------------- MODULE InterfaceNaming --------------------------
(***************************************************************************)
(* Names multinic0 .. multinic9 and who owns them. The naming service of   *)
(* the agent keeps two maps for the life of the process (the name reserved *)
(* for a MAC address, the names that are reserved), guarded by one mutex,  *)
(* and reads the links of the node, which the agent itself renames, which  *)
(* the orphan cleanup renames back and which are plugged and unplugged     *)
(* outside its control.                                                    *)
(*                                                                         *)
(*   src/internal/domain/services/interface_naming.go                      *)
(*                                                                         *)
(* MAC addresses are compared case-insensitively everywhere in the code,   *)
(* so a MAC is one value here. Names are their numbers.                    *)
(***************************************************************************)
EXTENDS Naturals

CONSTANTS Macs,      \* MAC addresses that may show up on the node
          MaxNames,  \* how many multinicX names there are (10 in the code)
          Explicit,  \* may a spec ask for a name (interfaces[].name)?
          CmdFails,  \* may "ip addr show" fail for a link that exists?
          Kernel,    \* a link whose name is not one of ours
          Absent,    \* no link with this MAC on the node
          NoName     \* no name reserved or asked for

Names == 0 .. MaxNames - 1

ASSUME NamingAssumption ==
  /\ MaxNames \in Nat \ {0}
  /\ Explicit \in BOOLEAN
  /\ CmdFails \in BOOLEAN
  /\ Kernel \notin Names /\ Absent \notin Names /\ NoName \notin Names
  /\ Kernel # Absent

VARIABLES
  reservedByMac,  \* reservedByMac[m]: name reserved for m, or NoName
  reservedNames,  \* names that are reserved
  sys,            \* sys[m]: name of the link with MAC m
  list,           \* interfaces of the running Execute, {} between two runs
  want,           \* want[m]: name the spec asks for
  pc,             \* what the holder of namingMutex does, "free" if nobody does
  idx,            \* loop variable over the names
  todo,           \* interfaces its loop has not reached
  cur             \* MAC that GenerateNextNameForMAC works for

reserved == <<reservedByMac, reservedNames>>
vars == <<reservedByMac, reservedNames, sys, list, want, pc, idx, todo, cur>>

isInterfaceInUse(n) == \E m \in Macs : sys[m] = n

(* Mutated forms: only the links of the node, only the reservations.       *)
isNameTakenOnSystem(n) == isInterfaceInUse(n)
isNameTakenByReservation(n) == n \in reservedNames

isNameTaken(n) == isInterfaceInUse(n) \/ n \in reservedNames

FreeNames == {n \in Names : ~isNameTaken(n)}
LowestFree == CHOOSE n \in FreeNames : \A k \in FreeNames : n <= k

(* Both maps are updated together, under the mutex.                        *)
Reserve(m, n) ==
  /\ reservedByMac' = [reservedByMac EXCEPT ![m] = n]
  /\ reservedNames' = reservedNames \cup {n}

Init ==
  /\ reservedByMac = [m \in Macs |-> NoName]
  /\ reservedNames = {}
  /\ sys \in [Macs -> Names \cup {Kernel, Absent}]
  /\ \A m, k \in Macs : sys[m] = sys[k] /\ sys[m] \in Names => m = k
  /\ list = {}
  /\ want = [m \in Macs |-> NoName]
  /\ pc = "free"
  /\ idx = 0
  /\ todo = {}
  /\ cur = NoName
-----------------------------------------------------------------------------
(* ReserveNamesForInterfaces, called by Execute before its workers start   *)

(* A spec may name some of its interfaces, none of them twice.             *)
Wishes ==
  {f \in [Macs -> IF Explicit THEN Names \cup {NoName} ELSE {NoName}] :
     \A m, k \in Macs : f[m] = f[k] /\ f[m] # NoName => m = k}

(* The mutex is taken for the interfaces of this cycle, in list order: any *)
(* order, since the spec's author chose it.                                *)
BeginReserve ==
  /\ pc = "free"
  /\ list = {}
  /\ \E L \in SUBSET Macs : L # {} /\ list' = L /\ todo' = L
  /\ want' \in Wishes
  /\ pc' = "explicit"
  /\ UNCHANGED <<reserved, sys, idx, cur>>

(* The owner that "ip addr show" reports makes the spec's name unusable.   *)
OwnedByOther(n, m) == \E k \in Macs \ {m} : sys[k] = n

(* Step 0: the name the spec asks for is reserved unless the node has a    *)
(* link of that name with another MAC; the error leaves the reservations   *)
(* of earlier iterations in place, and Execute goes on without the rest.   *)
ReserveExplicit(m) ==
  /\ pc = "explicit"
  /\ m \in todo
  /\ LET skip == want[m] = NoName \/ reservedByMac[m] # NoName
     IN  \/ /\ skip
            /\ todo' = todo \ {m}
            /\ UNCHANGED <<reserved, pc>>
         \/ /\ ~skip
            /\ CmdFails \/ ~OwnedByOther(want[m], m)
            /\ Reserve(m, want[m])
            /\ todo' = todo \ {m}
            /\ UNCHANGED pc
         \/ /\ ~skip
            /\ OwnedByOther(want[m], m)
            /\ pc' = "free"
            /\ todo' = {}
            /\ UNCHANGED reserved
  /\ UNCHANGED <<sys, list, want, idx, cur>>

(* Mutated form: the names already on the links are not looked at.         *)
EndExplicitSkipReuse ==
  /\ pc = "explicit"
  /\ todo = {}
  /\ pc' = "assign"
  /\ todo' = list
  /\ UNCHANGED <<reserved, sys, list, want, idx, cur>>

EndExplicit ==
  /\ pc = "explicit"
  /\ todo = {}
  /\ pc' = "reuse"
  /\ idx' = 0
  /\ UNCHANGED <<reserved, sys, list, want, todo, cur>>

(* Step 1: a listed MAC whose link already has one of our names keeps it.  *)
ReuseName(m) ==
  /\ pc = "reuse"
  /\ idx < MaxNames
  /\ m \in list
  /\ sys[m] = idx
  /\ reservedByMac[m] = NoName
  /\ Reserve(m, idx)
  /\ idx' = idx + 1
  /\ UNCHANGED <<sys, list, want, pc, todo, cur>>

(* Mutated form: the loop runs over one name too many.                     *)
SkipNamePastEnd ==
  /\ pc = "reuse"
  /\ idx <= MaxNames
  /\ CmdFails \/ ~\E m \in list : sys[m] = idx /\ reservedByMac[m] = NoName
  /\ idx' = idx + 1
  /\ UNCHANGED <<reserved, sys, list, want, pc, todo, cur>>

(* The name is not in use, or its MAC is not listed, has a reservation, or *)
(* cannot be read.                                                         *)
SkipName ==
  /\ pc = "reuse"
  /\ idx < MaxNames
  /\ CmdFails \/ ~\E m \in list : sys[m] = idx /\ reservedByMac[m] = NoName
  /\ idx' = idx + 1
  /\ UNCHANGED <<reserved, sys, list, want, pc, todo, cur>>

EndReuse ==
  /\ pc = "reuse"
  /\ idx = MaxNames
  /\ pc' = "assign"
  /\ todo' = list
  /\ UNCHANGED <<reserved, sys, list, want, idx, cur>>

(* Mutated form: a reservation from an earlier cycle is not looked up.     *)
AssignAgain(m) ==
  /\ pc = "assign"
  /\ m \in todo
  /\ FreeNames # {}
  /\ Reserve(m, LowestFree)
  /\ todo' = todo \ {m}
  /\ UNCHANGED <<sys, list, want, pc, idx, cur>>

(* Step 2: a MAC without a name gets the lowest one that is free; when     *)
(* none is left the call fails and keeps what it reserved so far.          *)
Assign(m) ==
  /\ pc = "assign"
  /\ m \in todo
  /\ \/ /\ reservedByMac[m] # NoName
        /\ todo' = todo \ {m}
        /\ UNCHANGED <<reserved, pc>>
     \/ /\ reservedByMac[m] = NoName
        /\ FreeNames # {}
        /\ Reserve(m, LowestFree)
        /\ todo' = todo \ {m}
        /\ UNCHANGED pc
     \/ /\ reservedByMac[m] = NoName
        /\ FreeNames = {}
        /\ pc' = "free"
        /\ todo' = {}
        /\ UNCHANGED reserved
  /\ UNCHANGED <<sys, list, want, idx, cur>>

EndReserve ==
  /\ pc = "assign"
  /\ todo = {}
  /\ pc' = "free"
  /\ UNCHANGED <<reserved, sys, list, want, idx, todo, cur>>
-----------------------------------------------------------------------------
(* GenerateNextNameForMAC, called by every worker and by the failure hook  *)

(* Without a reservation for the MAC the names are scanned; with one the   *)
(* call changes nothing.                                                   *)
GenerateNextNameForMAC(m) ==
  /\ pc = "free"
  /\ m \in list
  /\ reservedByMac[m] = NoName
  /\ cur' = m
  /\ idx' = 0
  /\ pc' = "scan"
  /\ UNCHANGED <<reserved, sys, list, want, todo>>

(* The link with this name has the MAC: the name is kept.                  *)
ScanFound ==
  /\ pc = "scan"
  /\ idx < MaxNames
  /\ sys[cur] = idx
  /\ Reserve(cur, idx)
  /\ pc' = "free"
  /\ UNCHANGED <<sys, list, want, idx, todo, cur>>

ScanNext ==
  /\ pc = "scan"
  /\ idx < MaxNames
  /\ CmdFails \/ sys[cur] # idx
  /\ idx' = idx + 1
  /\ UNCHANGED <<reserved, sys, list, want, pc, todo, cur>>

(* generateNextNameInternal: the lowest free name, or an error. A name     *)
(* seen free stays free while the mutex is held: a link only ever gets a   *)
(* name that is reserved.                                                  *)
PickNew ==
  /\ pc = "scan"
  /\ idx = MaxNames
  /\ pc' = "free"
  /\ IF FreeNames = {} THEN UNCHANGED reserved ELSE Reserve(cur, LowestFree)
  /\ UNCHANGED <<sys, list, want, idx, todo, cur>>
-----------------------------------------------------------------------------
(* What happens to the links                                               *)

(* A worker renames the link of its interface to the reserved name. The    *)
(* kernel refuses a name another link has. Workers run after the names are *)
(* reserved and do not hold the mutex while they rename.                   *)
Rename(m) ==
  /\ pc \in {"free", "scan"}
  /\ m \in list
  /\ reservedByMac[m] # NoName
  /\ sys[m] # Absent
  /\ ~isInterfaceInUse(reservedByMac[m])
  /\ sys' = [sys EXCEPT ![m] = reservedByMac[m]]
  /\ UNCHANGED <<reserved, list, want, pc, idx, todo, cur>>

(* Execute returns.                                                        *)
EndExecute ==
  /\ pc = "free"
  /\ list # {}
  /\ list' = {}
  /\ UNCHANGED <<reserved, sys, want, pc, idx, todo, cur>>

(* The delete use case, which runs before Execute, gives a link that is    *)
(* down its kernel name back; the reservation stays.                       *)
cleanupMultinicInterfaceNames(m) ==
  /\ list = {}
  /\ sys[m] \in Names
  /\ sys' = [sys EXCEPT ![m] = Kernel]
  /\ UNCHANGED <<reserved, list, want, pc, idx, todo, cur>>

(* A port is attached to the node or detached from it, at any time.        *)
Plug(m) ==
  /\ sys[m] = Absent
  /\ sys' = [sys EXCEPT ![m] = Kernel]
  /\ UNCHANGED <<reserved, list, want, pc, idx, todo, cur>>

Unplug(m) ==
  /\ sys[m] # Absent
  /\ sys' = [sys EXCEPT ![m] = Absent]
  /\ UNCHANGED <<reserved, list, want, pc, idx, todo, cur>>

(* The agent dies and starts again: the maps are empty, the links stay.    *)
Restart ==
  /\ reservedByMac' = [m \in Macs |-> NoName]
  /\ reservedNames' = {}
  /\ list' = {}
  /\ pc' = "free"
  /\ todo' = {}
  /\ UNCHANGED <<sys, want, idx, cur>>
-----------------------------------------------------------------------------
Holder == \/ BeginReserve \/ EndExplicit \/ SkipName \/ EndReuse \/ EndReserve
          \/ ScanFound \/ ScanNext \/ PickNew
          \/ \E m \in Macs : \/ ReserveExplicit(m) \/ ReuseName(m) \/ Assign(m)
                             \/ GenerateNextNameForMAC(m)
Links == \E m \in Macs : \/ Rename(m) \/ cleanupMultinicInterfaceNames(m)
                         \/ Plug(m) \/ Unplug(m)
Next == Holder \/ Links \/ EndExecute \/ Restart

Spec == Init /\ [][Next]_vars
-----------------------------------------------------------------------------
(* Properties                                                              *)

(* Every variable keeps its type.                                          *)
TypeOK ==
  /\ reservedByMac \in [Macs -> Names \cup {NoName}]
  /\ reservedNames \subseteq Names
  /\ sys \in [Macs -> Names \cup {Kernel, Absent}]
  /\ list \subseteq Macs
  /\ want \in [Macs -> IF Explicit THEN Names \cup {NoName} ELSE {NoName}]
  /\ pc \in {"free", "explicit", "reuse", "assign", "scan"}
  /\ idx \in 0 .. MaxNames
  /\ todo \subseteq list
  /\ cur \in Macs \cup {NoName}

(* ReserveNamesForInterfaces gives every interface a name of its own       *)
(* (interface_naming.go:135, "고유한 multinicX 이름을 사전 배정합니다").   *)
UniqueNames ==
  \A m, k \in Macs :
    reservedByMac[m] = reservedByMac[k] /\ reservedByMac[m] # NoName => m = k

(* The name reserved for a MAC is never on a link with another MAC, so the *)
(* rename in Configure finds its target name free.                         *)
NameFreeForOwner ==
  \A m, k \in Macs : sys[m] \in Names /\ reservedByMac[k] = sys[m] => m = k

(* A name stays reserved for a MAC as long as the agent runs: what a       *)
(* worker was told before it let go of the mutex still holds when it       *)
(* renames the link (interface_naming.go:70-73).                           *)
ReservationKept ==
  [][\/ reservedNames' = {}
     \/ \A m \in Macs : reservedByMac[m] # NoName
                          => reservedByMac'[m] = reservedByMac[m]]_vars

(* A name the service chooses itself, one that is neither asked for by the *)
(* spec nor on the link already, is nobody else's: not reserved for        *)
(* another MAC and not on another link, whatever the specs asked for and   *)
(* whichever commands failed before (interface_naming.go:125-133).         *)
ChosenNameIsFresh ==
  [][\A m \in Macs :
       reservedByMac[m] = NoName /\ reservedByMac'[m] \notin {NoName, want[m], sys[m]}
         => \A k \in Macs \ {m} : reservedByMac[k] # reservedByMac'[m]
                                  /\ sys[k] # reservedByMac'[m]]_vars

(* A link that carries one of our names is never renamed to another of     *)
(* them, not by a later cycle and not by a restarted agent that has        *)
(* forgotten its reservations (interface_naming.go:63,136).                *)
LinkKeepsName ==
  [][\A m \in Macs : sys[m] \in Names /\ sys'[m] \in Names
                       => sys'[m] = sys[m]]_vars

(* The inductive invariant. A reserved name is marked as such, and no two  *)
(* links have one name.                                                    *)
MarkedInv == \A m \in Macs : reservedByMac[m] # NoName
                               => reservedByMac[m] \in reservedNames

(* A loop is over when the mutex is free; a scan is for a MAC without a    *)
(* reservation.                                                            *)
HolderInv == /\ pc \in {"free", "scan"} => todo = {}
             /\ pc = "scan" => cur \in Macs /\ reservedByMac[cur] = NoName
LinksUnique == \A m, k \in Macs : sys[m] \in Names /\ sys[k] = sys[m] => m = k

(* A MAC that loses the scan (its name was passed, or never one of ours)   *)
(* has no name of ours on its link.                                        *)
PassedInv ==
  /\ pc = "reuse" => \A m \in list : reservedByMac[m] = NoName /\ sys[m] \in Names
                                        => sys[m] >= idx
  /\ pc = "assign" => \A m \in list : reservedByMac[m] = NoName => sys[m] \notin Names
  /\ pc = "scan" /\ sys[cur] \in Names => sys[cur] >= idx

(* A link with one of our names has the name reserved for its MAC.         *)
LinkMatches == \A m \in Macs : sys[m] \in Names /\ reservedByMac[m] # NoName
                                 => reservedByMac[m] = sys[m]

NamingInv ==
  /\ TypeOK /\ MarkedInv /\ LinksUnique /\ HolderInv
  /\ ~Explicit => UniqueNames /\ NameFreeForOwner
  /\ ~Explicit /\ ~CmdFails => PassedInv /\ LinkMatches
=============================================================================
