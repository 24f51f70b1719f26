------------------------ MODULE InterfaceNamingProofs ------------------------
(***************************************************************************)
(* Proofs about InterfaceNaming, for any set of MAC addresses and any      *)
(* number of names: what holds of the reservations and of the links after  *)
(* every step of the mutex holder, of a worker, of the cleanup, of the     *)
(* node and of a restart.                                                  *)
(***************************************************************************)
EXTENDS InterfaceNaming, WellFoundedInduction, TLAPS

(* When some name is free, the lowest one exists and is free.              *)
LEMMA LowestIsFree ==
  ASSUME FreeNames # {}
  PROVE  LowestFree \in Names /\ ~isNameTaken(LowestFree)
<1>1. FreeNames \subseteq Nat
  BY NamingAssumption DEF FreeNames, Names
<1>2. PICK n \in FreeNames : \A k \in FreeNames : ~(<<k, n>> \in OpToRel(<, Nat))
  BY <1>1, NatLessThanWellFounded, WFMin
<1>3. \A k \in FreeNames : n <= k
  <2>1. ASSUME NEW k \in FreeNames PROVE n <= k
    <3>1. <<k, n>> \in Nat \X Nat /\ <<k, n>>[1] = k /\ <<k, n>>[2] = n
      BY <1>1
    <3>2. ~(k < n)
      BY <1>2, <3>1 DEF OpToRel
    <3> QED BY <1>1, <3>2
  <2> QED BY <2>1
<1>4. LowestFree \in FreeNames
  BY <1>2, <1>3 DEF LowestFree
<1> QED BY <1>4 DEF FreeNames

(* Reserving a name that nobody else has, on a reservation or on a link,   *)
(* for a MAC without one keeps the maps and the links in step.             *)
LEMMA ReserveFresh ==
  ASSUME NamingInv, UNCHANGED sys,
         NEW m \in Macs, NEW n \in Names, Reserve(m, n),
         ~Explicit => \A k \in Macs \ {m} : reservedByMac[k] # n /\ sys[k] # n
  PROVE  /\ reservedByMac' \in [Macs -> Names \cup {NoName}]
         /\ reservedNames' \subseteq Names
         /\ reservedByMac'[m] = n
         /\ \A k \in Macs \ {m} : reservedByMac'[k] = reservedByMac[k]
         /\ MarkedInv'
         /\ LinksUnique'
         /\ ~Explicit => UniqueNames' /\ NameFreeForOwner'
<1> USE NamingAssumption DEF NamingInv, Reserve
<1>1. /\ reservedByMac' \in [Macs -> Names \cup {NoName}]
      /\ reservedNames' \subseteq Names
      /\ reservedByMac'[m] = n
      /\ \A k \in Macs \ {m} : reservedByMac'[k] = reservedByMac[k]
  BY DEF TypeOK
<1>2. MarkedInv'
  BY <1>1 DEF TypeOK, MarkedInv
<1>3. LinksUnique'
  BY DEF LinksUnique
<1>4. ~Explicit => UniqueNames'
  BY <1>1 DEF UniqueNames
<1>5. ~Explicit => NameFreeForOwner'
  BY <1>1 DEF NameFreeForOwner
<1> QED BY <1>1, <1>2, <1>3, <1>4, <1>5

(* A step that leaves the reservations alone, and the links too or gives   *)
(* one link a name that is not ours or that is its own and free, keeps     *)
(* them in step.                                                           *)
LEMMA LinkStep ==
  ASSUME NamingInv, UNCHANGED reserved, NEW m \in Macs,
         NEW n \in Names \cup {Kernel, Absent},
         sys' = [sys EXCEPT ![m] = n],
         n \in Names => n = reservedByMac[m] /\ ~isInterfaceInUse(n)
  PROVE  /\ sys' \in [Macs -> Names \cup {Kernel, Absent}]
         /\ sys'[m] = n
         /\ \A k \in Macs \ {m} : sys'[k] = sys[k]
         /\ MarkedInv'
         /\ LinksUnique'
         /\ ~Explicit => UniqueNames' /\ NameFreeForOwner'
         /\ ~Explicit /\ ~CmdFails => LinkMatches'
<1> USE NamingAssumption DEF NamingInv, reserved
<1>1. /\ sys' \in [Macs -> Names \cup {Kernel, Absent}]
      /\ sys'[m] = n
      /\ \A k \in Macs \ {m} : sys'[k] = sys[k]
  BY DEF TypeOK
<1>2. MarkedInv'
  BY DEF MarkedInv
<1>3. LinksUnique'
  BY <1>1 DEF LinksUnique, isInterfaceInUse
<1>4. ~Explicit => UniqueNames' /\ NameFreeForOwner'
  BY <1>1 DEF UniqueNames, NameFreeForOwner
<1>5. ~Explicit /\ ~CmdFails => LinkMatches'
  BY <1>1 DEF LinkMatches
<1> QED BY <1>1, <1>2, <1>3, <1>4, <1>5

(* The mutex holder starts: nothing is reserved yet.                       *)
LEMMA BeginReserveStep ==
  ASSUME NamingInv, BeginReserve
  PROVE  NamingInv'
<1> USE NamingAssumption DEF NamingInv, BeginReserve, reserved
<1>1. TypeOK'
  BY DEF TypeOK, Wishes, HolderInv
<1>2. MarkedInv' /\ LinksUnique' /\ HolderInv'
  BY DEF MarkedInv, LinksUnique, HolderInv
<1>3. ~Explicit => UniqueNames' /\ NameFreeForOwner'
  BY DEF UniqueNames, NameFreeForOwner
<1>4. ~Explicit /\ ~CmdFails => PassedInv' /\ LinkMatches'
  BY DEF TypeOK, HolderInv, PassedInv, LinkMatches, Names
<1> QED BY <1>1, <1>2, <1>3, <1>4

(* The loop over the names starts at the first one.                        *)
LEMMA EndExplicitStep ==
  ASSUME NamingInv, EndExplicit
  PROVE  NamingInv'
<1> USE NamingAssumption DEF NamingInv, EndExplicit, reserved
<1>1. TypeOK'
  BY DEF TypeOK, Wishes, HolderInv
<1>2. MarkedInv' /\ LinksUnique' /\ HolderInv'
  BY DEF MarkedInv, LinksUnique, HolderInv
<1>3. ~Explicit => UniqueNames' /\ NameFreeForOwner'
  BY DEF UniqueNames, NameFreeForOwner
<1>4. ~Explicit /\ ~CmdFails => PassedInv' /\ LinkMatches'
  BY DEF TypeOK, HolderInv, PassedInv, LinkMatches, Names
<1> QED BY <1>1, <1>2, <1>3, <1>4

(* A name that is passed is on no link without a reservation.              *)
LEMMA SkipNameStep ==
  ASSUME NamingInv, SkipName
  PROVE  NamingInv'
<1> USE NamingAssumption DEF NamingInv, SkipName, reserved
<1>1. TypeOK'
  BY DEF TypeOK, Wishes, HolderInv
<1>2. MarkedInv' /\ LinksUnique' /\ HolderInv'
  BY DEF MarkedInv, LinksUnique, HolderInv
<1>3. ~Explicit => UniqueNames' /\ NameFreeForOwner'
  BY DEF UniqueNames, NameFreeForOwner
<1>4. ~Explicit /\ ~CmdFails => PassedInv' /\ LinkMatches'
  BY DEF TypeOK, HolderInv, PassedInv, LinkMatches, Names
<1> QED BY <1>1, <1>2, <1>3, <1>4

(* After the last name no listed MAC without a name has one on its link.   *)
LEMMA EndReuseStep ==
  ASSUME NamingInv, EndReuse
  PROVE  NamingInv'
<1> USE NamingAssumption DEF NamingInv, EndReuse, reserved
<1>1. TypeOK'
  BY DEF TypeOK, Wishes, HolderInv
<1>2. MarkedInv' /\ LinksUnique' /\ HolderInv'
  BY DEF MarkedInv, LinksUnique, HolderInv
<1>3. ~Explicit => UniqueNames' /\ NameFreeForOwner'
  BY DEF UniqueNames, NameFreeForOwner
<1>4. ~Explicit /\ ~CmdFails => PassedInv' /\ LinkMatches'
  BY DEF TypeOK, HolderInv, PassedInv, LinkMatches, Names
<1> QED BY <1>1, <1>2, <1>3, <1>4

(* The mutex is released.                                                  *)
LEMMA EndReserveStep ==
  ASSUME NamingInv, EndReserve
  PROVE  NamingInv'
<1> USE NamingAssumption DEF NamingInv, EndReserve, reserved
<1>1. TypeOK'
  BY DEF TypeOK, Wishes, HolderInv
<1>2. MarkedInv' /\ LinksUnique' /\ HolderInv'
  BY DEF MarkedInv, LinksUnique, HolderInv
<1>3. ~Explicit => UniqueNames' /\ NameFreeForOwner'
  BY DEF UniqueNames, NameFreeForOwner
<1>4. ~Explicit /\ ~CmdFails => PassedInv' /\ LinkMatches'
  BY DEF TypeOK, HolderInv, PassedInv, LinkMatches, Names
<1> QED BY <1>1, <1>2, <1>3, <1>4

(* The scan starts at the first name.                                      *)
LEMMA GenerateNextNameForMACStep ==
  ASSUME NamingInv, NEW m \in Macs, GenerateNextNameForMAC(m)
  PROVE  NamingInv'
<1> USE NamingAssumption DEF NamingInv, GenerateNextNameForMAC, reserved
<1>1. TypeOK'
  BY DEF TypeOK, Wishes, HolderInv
<1>2. MarkedInv' /\ LinksUnique' /\ HolderInv'
  BY DEF MarkedInv, LinksUnique, HolderInv
<1>3. ~Explicit => UniqueNames' /\ NameFreeForOwner'
  BY DEF UniqueNames, NameFreeForOwner
<1>4. ~Explicit /\ ~CmdFails => PassedInv' /\ LinkMatches'
  BY DEF TypeOK, HolderInv, PassedInv, LinkMatches, Names
<1> QED BY <1>1, <1>2, <1>3, <1>4

(* A name that is passed is not on the link of the MAC.                    *)
LEMMA ScanNextStep ==
  ASSUME NamingInv, ScanNext
  PROVE  NamingInv'
<1> USE NamingAssumption DEF NamingInv, ScanNext, reserved
<1>1. TypeOK'
  BY DEF TypeOK, Wishes, HolderInv
<1>2. MarkedInv' /\ LinksUnique' /\ HolderInv'
  BY DEF MarkedInv, LinksUnique, HolderInv
<1>3. ~Explicit => UniqueNames' /\ NameFreeForOwner'
  BY DEF UniqueNames, NameFreeForOwner
<1>4. ~Explicit /\ ~CmdFails => PassedInv' /\ LinkMatches'
  BY DEF TypeOK, HolderInv, PassedInv, LinkMatches, Names
<1> QED BY <1>1, <1>2, <1>3, <1>4

(* Execute returns with every reservation in place.                        *)
LEMMA EndExecuteStep ==
  ASSUME NamingInv, EndExecute
  PROVE  NamingInv'
<1> USE NamingAssumption DEF NamingInv, EndExecute, reserved
<1>1. TypeOK'
  BY DEF TypeOK, Wishes, HolderInv
<1>2. MarkedInv' /\ LinksUnique' /\ HolderInv'
  BY DEF MarkedInv, LinksUnique, HolderInv
<1>3. ~Explicit => UniqueNames' /\ NameFreeForOwner'
  BY DEF UniqueNames, NameFreeForOwner
<1>4. ~Explicit /\ ~CmdFails => PassedInv' /\ LinkMatches'
  BY DEF TypeOK, HolderInv, PassedInv, LinkMatches, Names
<1> QED BY <1>1, <1>2, <1>3, <1>4

(* A worker gives the link the name that is reserved for it.               *)
LEMMA RenameStep ==
  ASSUME NamingInv, NEW m \in Macs, Rename(m)
  PROVE  NamingInv'
<1> USE NamingAssumption DEF NamingInv, Rename
<1>1. /\ sys' \in [Macs -> Names \cup {Kernel, Absent}]
      /\ sys'[m] = reservedByMac[m]
      /\ \A k \in Macs \ {m} : sys'[k] = sys[k]
      /\ MarkedInv' /\ LinksUnique'
      /\ ~Explicit => UniqueNames' /\ NameFreeForOwner'
      /\ ~Explicit /\ ~CmdFails => LinkMatches'
  <2>1. reservedByMac[m] \in Names /\ ~isInterfaceInUse(reservedByMac[m])
    BY DEF TypeOK
  <2> QED BY <2>1, LinkStep
<1>2. TypeOK' /\ HolderInv'
  BY <1>1 DEF TypeOK, HolderInv, reserved
<1>3. ~Explicit /\ ~CmdFails => PassedInv'
  BY <1>1 DEF TypeOK, HolderInv, PassedInv, reserved
<1> QED BY <1>1, <1>2, <1>3

(* The cleanup takes one of our names away.                                *)
LEMMA cleanupMultinicInterfaceNamesStep ==
  ASSUME NamingInv, NEW m \in Macs, cleanupMultinicInterfaceNames(m)
  PROVE  NamingInv'
<1> USE NamingAssumption DEF NamingInv, cleanupMultinicInterfaceNames
<1>1. /\ sys' \in [Macs -> Names \cup {Kernel, Absent}]
      /\ sys'[m] = Kernel
      /\ \A k \in Macs \ {m} : sys'[k] = sys[k]
      /\ MarkedInv' /\ LinksUnique'
      /\ ~Explicit => UniqueNames' /\ NameFreeForOwner'
      /\ ~Explicit /\ ~CmdFails => LinkMatches'
  BY LinkStep DEF reserved
<1>2. TypeOK' /\ HolderInv'
  BY <1>1 DEF TypeOK, HolderInv, reserved
<1>3. ~Explicit /\ ~CmdFails => PassedInv'
  BY <1>1 DEF TypeOK, HolderInv, PassedInv, reserved
<1> QED BY <1>1, <1>2, <1>3

(* A new link comes with a name that is not ours.                          *)
LEMMA PlugStep ==
  ASSUME NamingInv, NEW m \in Macs, Plug(m)
  PROVE  NamingInv'
<1> USE NamingAssumption DEF NamingInv, Plug
<1>1. /\ sys' \in [Macs -> Names \cup {Kernel, Absent}]
      /\ sys'[m] = Kernel
      /\ \A k \in Macs \ {m} : sys'[k] = sys[k]
      /\ MarkedInv' /\ LinksUnique'
      /\ ~Explicit => UniqueNames' /\ NameFreeForOwner'
      /\ ~Explicit /\ ~CmdFails => LinkMatches'
  BY LinkStep DEF reserved
<1>2. TypeOK' /\ HolderInv'
  BY <1>1 DEF TypeOK, HolderInv, reserved
<1>3. ~Explicit /\ ~CmdFails => PassedInv'
  BY <1>1 DEF TypeOK, HolderInv, PassedInv, reserved
<1> QED BY <1>1, <1>2, <1>3

(* A link and its name go away.                                            *)
LEMMA UnplugStep ==
  ASSUME NamingInv, NEW m \in Macs, Unplug(m)
  PROVE  NamingInv'
<1> USE NamingAssumption DEF NamingInv, Unplug
<1>1. /\ sys' \in [Macs -> Names \cup {Kernel, Absent}]
      /\ sys'[m] = Absent
      /\ \A k \in Macs \ {m} : sys'[k] = sys[k]
      /\ MarkedInv' /\ LinksUnique'
      /\ ~Explicit => UniqueNames' /\ NameFreeForOwner'
      /\ ~Explicit /\ ~CmdFails => LinkMatches'
  BY LinkStep DEF reserved
<1>2. TypeOK' /\ HolderInv'
  BY <1>1 DEF TypeOK, HolderInv, reserved
<1>3. ~Explicit /\ ~CmdFails => PassedInv'
  BY <1>1 DEF TypeOK, HolderInv, PassedInv, reserved
<1> QED BY <1>1, <1>2, <1>3

(* The agent forgets its reservations; the links keep their names.         *)
LEMMA RestartStep ==
  ASSUME NamingInv, Restart
  PROVE  NamingInv'
<1> USE NamingAssumption DEF NamingInv, Restart
<1>1. TypeOK' /\ HolderInv'
  BY DEF TypeOK, HolderInv
<1>2. \A m \in Macs : reservedByMac'[m] = NoName
  OBVIOUS
<1>3. MarkedInv' /\ LinksUnique' /\ UniqueNames' /\ LinkMatches' /\ PassedInv'
  BY <1>2 DEF MarkedInv, LinksUnique, UniqueNames, LinkMatches, PassedInv
<1>4. NameFreeForOwner'
  BY <1>1, <1>2 DEF NameFreeForOwner, TypeOK
<1> QED BY <1>1, <1>3, <1>4

(* A listed MAC keeps the name its link has: nobody else can have it.      *)
LEMMA ReuseNameStep ==
  ASSUME NamingInv, NEW m \in Macs, ReuseName(m)
  PROVE  NamingInv'
<1> USE NamingAssumption DEF NamingInv, ReuseName
<1>1. /\ m \in Macs /\ idx \in Names /\ Reserve(m, idx) /\ UNCHANGED sys
      /\ ~Explicit => \A k \in Macs \ {m} : reservedByMac[k] # idx /\ sys[k] # idx
  BY DEF TypeOK, LinksUnique, NameFreeForOwner, Names
<1>2. /\ reservedByMac' \in [Macs -> Names \cup {NoName}]
      /\ reservedNames' \subseteq Names
      /\ reservedByMac'[m] = idx
      /\ \A k \in Macs \ {m} : reservedByMac'[k] = reservedByMac[k]
      /\ MarkedInv' /\ LinksUnique'
      /\ ~Explicit => UniqueNames' /\ NameFreeForOwner'
  BY <1>1, ReserveFresh
<1>3. TypeOK' /\ HolderInv'
  BY <1>1, <1>2 DEF TypeOK, HolderInv
<1>4. ~Explicit /\ ~CmdFails => PassedInv' /\ LinkMatches'
  BY <1>1, <1>2 DEF TypeOK, HolderInv, PassedInv, LinkMatches, Names
<1> QED BY <1>2, <1>3, <1>4

(* The MAC of the scan keeps the name its link has.                        *)
LEMMA ScanFoundStep ==
  ASSUME NamingInv, ScanFound
  PROVE  NamingInv'
<1> USE NamingAssumption DEF NamingInv, ScanFound
<1>1. /\ cur \in Macs /\ idx \in Names /\ Reserve(cur, idx) /\ UNCHANGED sys
      /\ ~Explicit => \A k \in Macs \ {cur} : reservedByMac[k] # idx /\ sys[k] # idx
  BY DEF TypeOK, LinksUnique, NameFreeForOwner, Names, HolderInv
<1>2. /\ reservedByMac' \in [Macs -> Names \cup {NoName}]
      /\ reservedNames' \subseteq Names
      /\ reservedByMac'[cur] = idx
      /\ \A k \in Macs \ {cur} : reservedByMac'[k] = reservedByMac[k]
      /\ MarkedInv' /\ LinksUnique'
      /\ ~Explicit => UniqueNames' /\ NameFreeForOwner'
  BY <1>1, ReserveFresh
<1>3. TypeOK' /\ HolderInv'
  BY <1>1, <1>2 DEF TypeOK, HolderInv
<1>4. ~Explicit /\ ~CmdFails => PassedInv' /\ LinkMatches'
  BY <1>1, <1>2 DEF TypeOK, HolderInv, PassedInv, LinkMatches, Names
<1> QED BY <1>2, <1>3, <1>4

(* The MAC of the scan gets the lowest free name, or nothing happens.      *)
LEMMA PickNewStep ==
  ASSUME NamingInv, PickNew
  PROVE  NamingInv'
<1> USE NamingAssumption DEF NamingInv, PickNew
<1>a. CASE FreeNames = {}
  <2>1. TypeOK' /\ HolderInv' /\ MarkedInv' /\ LinksUnique'
    BY <1>a DEF TypeOK, HolderInv, MarkedInv, LinksUnique, reserved
  <2>2. ~Explicit => UniqueNames' /\ NameFreeForOwner'
    BY <1>a DEF UniqueNames, NameFreeForOwner, reserved
  <2>3. ~Explicit /\ ~CmdFails => PassedInv' /\ LinkMatches'
    BY <1>a DEF PassedInv, LinkMatches, reserved
  <2> QED BY <2>1, <2>2, <2>3
<1>b. CASE FreeNames # {}
  <2>1. /\ cur \in Macs /\ LowestFree \in Names /\ Reserve(cur, LowestFree) /\ UNCHANGED sys
        /\ \A k \in Macs \ {cur} : reservedByMac[k] # LowestFree /\ sys[k] # LowestFree
    <3>1. LowestFree \in Names /\ ~isNameTaken(LowestFree)
      BY <1>b, LowestIsFree
    <3> QED BY <1>b, <3>1 DEF TypeOK, HolderInv, MarkedInv, isNameTaken, isInterfaceInUse
  <2>2. /\ reservedByMac' \in [Macs -> Names \cup {NoName}]
        /\ reservedNames' \subseteq Names
        /\ reservedByMac'[cur] = LowestFree
        /\ \A k \in Macs \ {cur} : reservedByMac'[k] = reservedByMac[k]
        /\ MarkedInv' /\ LinksUnique'
        /\ ~Explicit => UniqueNames' /\ NameFreeForOwner'
    BY <2>1, ReserveFresh
  <2>3. TypeOK' /\ HolderInv'
    BY <2>1, <2>2 DEF TypeOK, HolderInv
  <2>4. ~Explicit /\ ~CmdFails => PassedInv' /\ LinkMatches'
    BY <2>1, <2>2 DEF TypeOK, HolderInv, PassedInv, LinkMatches, Names
  <2> QED BY <2>2, <2>3, <2>4
<1> QED BY <1>a, <1>b

(* The MAC has a name, gets the lowest free one, or the call fails.        *)
LEMMA AssignStep ==
  ASSUME NamingInv, NEW m \in Macs, Assign(m)
  PROVE  NamingInv'
<1> USE NamingAssumption DEF NamingInv, Assign
<1>a. CASE UNCHANGED reserved
  <2>1. TypeOK' /\ HolderInv' /\ MarkedInv' /\ LinksUnique'
    BY <1>a DEF TypeOK, HolderInv, MarkedInv, LinksUnique, reserved
  <2>2. ~Explicit => UniqueNames' /\ NameFreeForOwner'
    BY <1>a DEF UniqueNames, NameFreeForOwner, reserved
  <2>3. ~Explicit /\ ~CmdFails => PassedInv' /\ LinkMatches'
    BY <1>a DEF PassedInv, LinkMatches, reserved
  <2> QED BY <2>1, <2>2, <2>3
<1>b. CASE /\ reservedByMac[m] = NoName /\ FreeNames # {}
           /\ Reserve(m, LowestFree) /\ todo' = todo \ {m} /\ UNCHANGED pc
  <2>1. /\ LowestFree \in Names /\ UNCHANGED sys /\ Reserve(m, LowestFree)
        /\ \A k \in Macs \ {m} : reservedByMac[k] # LowestFree /\ sys[k] # LowestFree
    <3>1. LowestFree \in Names /\ ~isNameTaken(LowestFree)
      BY <1>b, LowestIsFree
    <3> QED BY <1>b, <3>1 DEF TypeOK, MarkedInv, isNameTaken, isInterfaceInUse
  <2>2. /\ reservedByMac' \in [Macs -> Names \cup {NoName}]
        /\ reservedNames' \subseteq Names
        /\ reservedByMac'[m] = LowestFree
        /\ \A k \in Macs \ {m} : reservedByMac'[k] = reservedByMac[k]
        /\ MarkedInv' /\ LinksUnique'
        /\ ~Explicit => UniqueNames' /\ NameFreeForOwner'
    BY <2>1, ReserveFresh
  <2>3. TypeOK' /\ HolderInv'
    BY <1>b, <2>1, <2>2 DEF TypeOK, HolderInv
  <2>4. ~Explicit /\ ~CmdFails => PassedInv' /\ LinkMatches'
    BY <1>b, <2>1, <2>2 DEF TypeOK, HolderInv, PassedInv, LinkMatches, Names
  <2> QED BY <2>2, <2>3, <2>4
<1> QED BY <1>a, <1>b

(* The name the spec asks for is taken as it is: it may be a second one.   *)
LEMMA ReserveExplicitStep ==
  ASSUME NamingInv, NEW m \in Macs, ReserveExplicit(m)
  PROVE  NamingInv'
<1> USE NamingAssumption DEF NamingInv, ReserveExplicit
<1>0. ~Explicit => want[m] = NoName
  BY DEF TypeOK
<1>a. CASE UNCHANGED reserved
  <2>1. TypeOK' /\ HolderInv' /\ MarkedInv' /\ LinksUnique'
    BY <1>a DEF TypeOK, HolderInv, MarkedInv, LinksUnique, reserved
  <2>2. ~Explicit => UniqueNames' /\ NameFreeForOwner'
    BY <1>a DEF UniqueNames, NameFreeForOwner, reserved
  <2>3. ~Explicit /\ ~CmdFails => PassedInv' /\ LinkMatches'
    BY <1>a DEF PassedInv, LinkMatches, reserved
  <2> QED BY <2>1, <2>2, <2>3
<1>b. CASE /\ want[m] # NoName /\ Reserve(m, want[m])
           /\ todo' = todo \ {m} /\ UNCHANGED pc
  <2>1. want[m] \in Names /\ Explicit /\ Reserve(m, want[m]) /\ UNCHANGED sys
    BY <1>0, <1>b DEF TypeOK
  <2>2. /\ reservedByMac' \in [Macs -> Names \cup {NoName}]
        /\ reservedNames' \subseteq Names
        /\ reservedByMac'[m] = want[m]
        /\ \A k \in Macs \ {m} : reservedByMac'[k] = reservedByMac[k]
        /\ MarkedInv' /\ LinksUnique'
        /\ ~Explicit => UniqueNames' /\ NameFreeForOwner'
    BY <2>1, ReserveFresh
  <2>3. TypeOK' /\ HolderInv'
    BY <1>b, <2>1, <2>2 DEF TypeOK, HolderInv
  <2>4. ~Explicit /\ ~CmdFails => PassedInv' /\ LinkMatches'
    BY <1>b, <2>1, <2>2 DEF TypeOK, HolderInv, PassedInv, LinkMatches, Names
  <2> QED BY <2>2, <2>3, <2>4
<1> QED BY <1>a, <1>b

(* The invariant holds in the first state.                                 *)
LEMMA InitInv == Init => NamingInv
<1> SUFFICES ASSUME Init PROVE NamingInv
  OBVIOUS
<1> USE NamingAssumption DEF Init
<1>1. TypeOK /\ HolderInv
  BY DEF TypeOK, HolderInv, Names
<1>2. \A m \in Macs : reservedByMac[m] = NoName
  OBVIOUS
<1>3. MarkedInv /\ LinksUnique /\ UniqueNames /\ LinkMatches /\ PassedInv
  BY <1>2 DEF MarkedInv, LinksUnique, UniqueNames, LinkMatches, PassedInv
<1>4. NameFreeForOwner
  BY <1>1, <1>2 DEF NameFreeForOwner, TypeOK
<1> QED BY <1>1, <1>3, <1>4 DEF NamingInv

(* Every step of the naming service, of a worker, of the cleanup, of the   *)
(* node and a restart of the agent keep the invariant.                     *)
THEOREM NamingInvariant == Spec => []NamingInv
<1>1. ASSUME NamingInv, [Next]_vars PROVE NamingInv'
  <2>1. CASE Holder
    <3>1. CASE BeginReserve
      BY <1>1, <3>1, BeginReserveStep
    <3>2. CASE EndExplicit
      BY <1>1, <3>2, EndExplicitStep
    <3>3. CASE SkipName
      BY <1>1, <3>3, SkipNameStep
    <3>4. CASE EndReuse
      BY <1>1, <3>4, EndReuseStep
    <3>5. CASE EndReserve
      BY <1>1, <3>5, EndReserveStep
    <3>6. CASE ScanFound
      BY <1>1, <3>6, ScanFoundStep
    <3>7. CASE ScanNext
      BY <1>1, <3>7, ScanNextStep
    <3>8. CASE PickNew
      BY <1>1, <3>8, PickNewStep
    <3>9. ASSUME NEW m \in Macs, ReserveExplicit(m) PROVE NamingInv'
      BY <1>1, <3>9, ReserveExplicitStep
    <3>10. ASSUME NEW m \in Macs, ReuseName(m) PROVE NamingInv'
      BY <1>1, <3>10, ReuseNameStep
    <3>11. ASSUME NEW m \in Macs, Assign(m) PROVE NamingInv'
      BY <1>1, <3>11, AssignStep
    <3>12. ASSUME NEW m \in Macs, GenerateNextNameForMAC(m) PROVE NamingInv'
      BY <1>1, <3>12, GenerateNextNameForMACStep
    <3> QED BY <2>1, <3>1, <3>2, <3>3, <3>4, <3>5, <3>6, <3>7, <3>8, <3>9, <3>10, <3>11, <3>12 DEF Holder
  <2>2. CASE Links
    <3>1. ASSUME NEW m \in Macs, Rename(m) PROVE NamingInv'
      BY <1>1, <3>1, RenameStep
    <3>2. ASSUME NEW m \in Macs, cleanupMultinicInterfaceNames(m) PROVE NamingInv'
      BY <1>1, <3>2, cleanupMultinicInterfaceNamesStep
    <3>3. ASSUME NEW m \in Macs, Plug(m) PROVE NamingInv'
      BY <1>1, <3>3, PlugStep
    <3>4. ASSUME NEW m \in Macs, Unplug(m) PROVE NamingInv'
      BY <1>1, <3>4, UnplugStep
    <3> QED BY <2>2, <3>1, <3>2, <3>3, <3>4 DEF Links
  <2>3. CASE EndExecute
    BY <1>1, <2>3, EndExecuteStep
  <2>4. CASE Restart
    BY <1>1, <2>4, RestartStep
  <2>5. CASE UNCHANGED vars
    BY <1>1, <2>5 DEF vars, NamingInv, TypeOK, MarkedInv, LinksUnique, HolderInv,
                      UniqueNames, NameFreeForOwner, PassedInv, LinkMatches
  <2> QED BY <1>1, <2>1, <2>2, <2>3, <2>4, <2>5 DEF Next
<1> QED BY <1>1, InitInv, PTL DEF Spec

(* Every variable keeps its type: the loops stay within the names and      *)
(* within the list of the cycle (interface_naming.go:138-223).             *)
THEOREM TypeCorrect == Spec => []TypeOK
<1>1. NamingInv => TypeOK
  BY DEF NamingInv
<1> QED BY <1>1, NamingInvariant, PTL

(* When no spec asks for a name, no two MAC addresses ever have the same   *)
(* name reserved, whatever the order of calls, failing commands, hot-plug  *)
(* and restarts (interface_naming.go:135).                                 *)
THEOREM NamesAreUnique == ASSUME ~Explicit PROVE Spec => []UniqueNames
<1>1. NamingInv => UniqueNames
  BY DEF NamingInv
<1> QED BY <1>1, NamingInvariant, PTL

(* Under the same condition the target of a rename is never the name of    *)
(* another MAC's link (netplan_adapter.go:74-86).                          *)
THEOREM RenameTargetIsFree == ASSUME ~Explicit PROVE Spec => []NameFreeForOwner
<1>1. NamingInv => NameFreeForOwner
  BY DEF NamingInv
<1> QED BY <1>1, NamingInvariant, PTL

(* A reservation lasts as long as the process, also when specs ask for     *)
(* names: the name a worker was given is still its name when it renames    *)
(* (interface_naming.go:70-73).                                            *)
THEOREM ReservationsAreKept == Spec => ReservationKept
<1>1. ASSUME NamingInv, [Next]_vars, reservedNames' # {},
             NEW m \in Macs, reservedByMac[m] # NoName
      PROVE  reservedByMac'[m] = reservedByMac[m]
  <2> USE <1>1
  <2>0. ASSUME NEW k \in Macs, reservedByMac[k] = NoName, NEW n, Reserve(k, n)
        PROVE  reservedByMac'[m] = reservedByMac[m]
    BY <2>0 DEF NamingInv, TypeOK, Reserve
  <2>1. CASE Holder
    <3>1. CASE ScanFound \/ PickNew
      BY <3>1, <2>0 DEF ScanFound, PickNew, NamingInv, HolderInv, reserved
    <3>2. ASSUME NEW k \in Macs, ReserveExplicit(k) \/ ReuseName(k) \/ Assign(k)
          PROVE  reservedByMac'[m] = reservedByMac[m]
      BY <3>2, <2>0 DEF ReserveExplicit, ReuseName, Assign, reserved
    <3>3. CASE \/ BeginReserve \/ EndExplicit \/ SkipName \/ EndReuse \/ EndReserve \/ ScanNext
               \/ \E k \in Macs : GenerateNextNameForMAC(k)
      BY <3>3 DEF BeginReserve, EndExplicit, SkipName, EndReuse, EndReserve, ScanNext,
                  GenerateNextNameForMAC, reserved
    <3> QED BY <2>1, <3>1, <3>2, <3>3 DEF Holder
  <2>2. CASE Links \/ EndExecute
    BY <2>2 DEF Links, EndExecute, Rename, cleanupMultinicInterfaceNames, Plug, Unplug, reserved
  <2>3. CASE Restart
    BY <2>3 DEF Restart
  <2>4. CASE UNCHANGED vars
    BY <2>4 DEF vars
  <2> QED BY <2>1, <2>2, <2>3, <2>4 DEF Next
<1>2. NamingInv /\ [Next]_vars =>
        [\/ reservedNames' = {}
         \/ \A m \in Macs : reservedByMac[m] # NoName
                              => reservedByMac'[m] = reservedByMac[m]]_vars
  BY <1>1
<1> QED BY <1>2, NamingInvariant, PTL DEF Spec, ReservationKept

(* When no spec asks for a name and no command fails, a link that has one  *)
(* of our names is never renamed to another, across cycles and restarts    *)
(* (interface_naming.go:63,136).                                           *)
THEOREM LinksKeepTheirNames ==
  ASSUME ~Explicit, ~CmdFails PROVE Spec => LinkKeepsName
<1>1. ASSUME NamingInv, [Next]_vars, NEW m \in Macs, sys[m] \in Names, sys'[m] \in Names
      PROVE  sys'[m] = sys[m]
  <2> USE <1>1
  <2>1. CASE Links
    <3>1. PICK k \in Macs : \/ Rename(k) \/ cleanupMultinicInterfaceNames(k)
                            \/ Plug(k) \/ Unplug(k)
      BY <2>1 DEF Links
    <3>2. CASE Rename(k)
      <4>1. k = m => sys[m] = reservedByMac[m]
        BY <3>2 DEF Rename, NamingInv, LinkMatches
      <4> QED BY <3>2, <4>1 DEF Rename, NamingInv, TypeOK, isInterfaceInUse
    <3>3. CASE cleanupMultinicInterfaceNames(k) \/ Plug(k) \/ Unplug(k)
      BY <3>3, NamingAssumption DEF cleanupMultinicInterfaceNames, Plug, Unplug, NamingInv, TypeOK
    <3> QED BY <3>1, <3>2, <3>3
  <2>2. CASE Holder
    BY <2>2 DEF Holder, BeginReserve, EndExplicit, SkipName, EndReuse, EndReserve, ScanFound,
                ScanNext, PickNew, ReserveExplicit, ReuseName, Assign, GenerateNextNameForMAC
  <2>3. CASE EndExecute \/ Restart \/ UNCHANGED vars
    BY <2>3 DEF EndExecute, Restart, vars
  <2> QED BY <2>1, <2>2, <2>3 DEF Next
<1>2. NamingInv /\ [Next]_vars =>
        [\A m \in Macs : sys[m] \in Names /\ sys'[m] \in Names => sys'[m] = sys[m]]_vars
  BY <1>1
<1> QED BY <1>2, NamingInvariant, PTL DEF Spec, LinkKeepsName

(* A name that is free by isNameTaken is nobody else's, although the map   *)
(* that is looked at has names and not their owners.                       *)
LEMMA FreeIsNobodys ==
  ASSUME NamingInv, FreeNames # {}, NEW k \in Macs
  PROVE  reservedByMac[k] # LowestFree /\ sys[k] # LowestFree
<1>1. LowestFree \in Names /\ ~isNameTaken(LowestFree)
  BY LowestIsFree
<1> QED BY <1>1, NamingAssumption DEF NamingInv, MarkedInv, isNameTaken, isInterfaceInUse

(* What the service picks itself is nobody else's, with any names in the   *)
(* spec and with failing commands (interface_naming.go:101-133).           *)
THEOREM ChosenNamesAreFresh == Spec => ChosenNameIsFresh
<1>1. ASSUME NamingInv, [Next]_vars, NEW m \in Macs, reservedByMac[m] = NoName,
             reservedByMac'[m] \notin {NoName, want[m], sys[m]}
      PROVE  FreeNames # {} /\ reservedByMac'[m] = LowestFree
  <2> USE <1>1
  <2>0. ASSUME NEW k \in Macs, NEW n, Reserve(k, n)
        PROVE  m = k /\ reservedByMac'[m] = n
    BY <2>0 DEF NamingInv, TypeOK, Reserve
  <2>1. CASE Holder
    <3>1. CASE ScanFound
      BY <3>1, <2>0 DEF ScanFound, NamingInv, HolderInv
    <3>2. CASE PickNew
      BY <3>2, <2>0 DEF PickNew, NamingInv, HolderInv, reserved
    <3>3. ASSUME NEW k \in Macs, ReserveExplicit(k) \/ ReuseName(k)
          PROVE  FALSE
      BY <3>3, <2>0 DEF ReserveExplicit, ReuseName, reserved
    <3>4. ASSUME NEW k \in Macs, Assign(k)
          PROVE  FreeNames # {} /\ reservedByMac'[m] = LowestFree
      BY <3>4, <2>0 DEF Assign, reserved
    <3>5. CASE \/ BeginReserve \/ EndExplicit \/ SkipName \/ EndReuse \/ EndReserve \/ ScanNext
               \/ \E k \in Macs : GenerateNextNameForMAC(k)
      BY <3>5 DEF BeginReserve, EndExplicit, SkipName, EndReuse, EndReserve, ScanNext,
                  GenerateNextNameForMAC, reserved
    <3> QED BY <2>1, <3>1, <3>2, <3>3, <3>4, <3>5 DEF Holder
  <2>2. CASE Links \/ EndExecute
    BY <2>2 DEF Links, EndExecute, Rename, cleanupMultinicInterfaceNames, Plug, Unplug, reserved
  <2>3. CASE Restart \/ UNCHANGED vars
    BY <2>3 DEF Restart, vars
  <2> QED BY <2>1, <2>2, <2>3 DEF Next
<1>2. NamingInv /\ [Next]_vars =>
        [\A m \in Macs :
           reservedByMac[m] = NoName /\ reservedByMac'[m] \notin {NoName, want[m], sys[m]}
             => \A k \in Macs \ {m} : reservedByMac[k] # reservedByMac'[m]
                                      /\ sys[k] # reservedByMac'[m]]_vars
  BY <1>1, FreeIsNobodys
<1> QED BY <1>2, NamingInvariant, PTL DEF Spec, ChosenNameIsFresh
=============================================================================
