------------------------ MODULE ServiceRequestsProofs ------------------------
(* Theorems about the directory and the service requests, for any staff,   *)
(* departments, units, pages, guests, requests and bounds.                 *)
EXTENDS ServiceRequests, TLAPS

(***************************************************************************)
(* The directory: shapes, and the departments of the seed.                 *)
(***************************************************************************)

TabType == [at : {"form", "identity", "tree", "entry"}, who : People \cup {None}]
EntryType == [unit : OwnUnits \cup {Foreign, None}, active : BOOLEAN]

\* A request that has been sent is for somebody.
TabsInv == \A t \in Tabs : ~At(t, "form") => tab[t].who \in People

\* The departments stay where the seed put them.
DeptsInv == \A d \in Depts : d \in Units /\ parent[d] = "hotel"

DirInv == DirTypeOK /\ TabsInv /\ DeptsInv

LEMMA RestingType == Resting \in TabType /\ Resting.at = "form"
  BY DEF Resting, TabType

\* Where a page goes next, and for whom.
LEMMA GoesEffect ==
  ASSUME DirTypeOK, NEW t \in Tabs, NEW where \in {"form", "tree", "entry"}, Goes(t, where)
  PROVE  /\ tab' \in [Tabs -> TabType] /\ tab'[t].at = where
         /\ where # "form" => tab'[t].who = tab[t].who
         /\ \A s \in Tabs : s # t => tab'[s] = tab[s]
<1>1. tab \in [Tabs -> TabType]
  BY DEF DirTypeOK, TabType
<1>2. CASE where = "form"
  <2>1. tab' = [tab EXCEPT ![t] = Resting]
    BY <1>2 DEF Goes
  <2> QED
    BY <1>1, <1>2, <2>1, RestingType
<1>3. CASE where # "form"
  <2> DEFINE r == [tab[t] EXCEPT !.at = where]
  <2>1. tab' = [tab EXCEPT ![t] = r]
    BY <1>3 DEF Goes
  <2>2. r \in TabType /\ r.at = where /\ r.who = tab[t].who
    BY <1>1 DEF TabType
  <2> HIDE DEF r
  <2> QED
    BY <1>1, <2>1, <2>2
<1> QED
  BY <1>2, <1>3

\* An entry that is made is of the person, in a unit of the tenant.
LEMMA CreateEntryEffect ==
  ASSUME DirTypeOK, NEW p \in People, NEW u, CreateEntry(p, u)
  PROVE  /\ entries' \in [People -> EntryType] /\ HasEntry(p)'
         /\ \A q \in People : HasEntry(q) => HasEntry(q)'
<1> DEFINE r == [unit |-> u, active |-> TRUE]
<1>1. u \in OwnUnits /\ entries' = [entries EXCEPT ![p] = r]
  BY DEF CreateEntry, DirTypeOK
<1>2. u # None /\ entries \in [People -> EntryType]
  BY <1>1, DirectoryAssumption DEF OwnUnits, DirTypeOK, EntryType
<1>3. r \in EntryType /\ r.unit = u
  BY <1>1 DEF EntryType
<1> HIDE DEF r
<1> QED
  BY <1>1, <1>2, <1>3 DEF HasEntry

LEMMA DirInvStep ==
  ASSUME DirInv, [DirNext]_dirVars
  PROVE  DirInv'
<1>0. /\ DirTypeOK /\ TabsInv /\ DeptsInv
      /\ tab \in [Tabs -> TabType] /\ entries \in [People -> EntryType]
  BY DEF DirInv, DirTypeOK, TabType, EntryType
<1>1. ASSUME NEW t \in Tabs, tab' \in [Tabs -> TabType], \A s \in Tabs : s # t => tab'[s] = tab[s],
             tab'[t].at # "form" => tab'[t].who \in People
      PROVE  TabsInv'
  BY <1>0, <1>1 DEF TabsInv, At
<1>2. ASSUME UNCHANGED units PROVE DeptsInv' /\ Units' = Units
  BY <1>0, <1>2 DEF units, DeptsInv, Units
<1>3. CASE UNCHANGED dirVars
  BY <1>0, <1>3 DEF dirVars, units, DirInv, DirTypeOK, TabsInv, DeptsInv, At, Units
<1>4. ASSUME NEW u \in NewUnits, NEW q \in OwnUnits \cup {Foreign, None},
             NEW first \in BOOLEAN, CreateOrgUnit(u, q, first)
      PROVE  DirInv'
  <2>1. /\ u \notin Units /\ parent' = [v \in Units \cup {u} |-> IF v = u THEN q ELSE parent[v]]
        /\ UNCHANGED <<identities, entries, tab, session, failed, faults>>
    BY <1>4 DEF CreateOrgUnit
  <2>2. Units' = Units \cup {u} /\ u \in OwnUnits
    BY <2>1 DEF Units, OwnUnits
  <2>3. parent \in [Units -> OwnUnits \cup {Foreign, None}] /\ Units \subseteq OwnUnits
    BY <1>0 DEF DirTypeOK
  <2>4. parent' \in [Units' -> OwnUnits \cup {Foreign, None}] /\ Units' \subseteq OwnUnits
    BY <2>1, <2>2, <2>3
  <2>5. early' \subseteq NewUnits
    BY <1>0, <1>4 DEF CreateOrgUnit, DirTypeOK
  <2>6. DeptsInv'
    BY <1>0, <2>1, <2>2 DEF DeptsInv
  <2> QED
    BY <1>0, <2>1, <2>4, <2>5, <2>6 DEF DirInv, DirTypeOK, TabsInv, At
<1>5. ASSUME NEW p \in People, Login(p) \/ Logout(p) PROVE DirInv'
  BY <1>0, <1>2, <1>5 DEF Login, Logout, units, DirInv, DirTypeOK, TabsInv, At
<1>6. ASSUME UNCHANGED <<units, identities, tab, session, failed, faults>>,
             entries' \in [People -> EntryType]
      PROVE  DirInv'
  BY <1>0, <1>2, <1>6 DEF units, DirInv, DirTypeOK, TabsInv, At, EntryType
<1>7. ASSUME NEW p \in People, Deactivate(p) PROVE DirInv'
  <2> DEFINE r == [entries[p] EXCEPT !.active = FALSE]
  <2>1. r \in EntryType
    BY <1>0 DEF EntryType
  <2>2. entries' = [entries EXCEPT ![p] = r]
    BY <1>7 DEF Deactivate
  <2> HIDE DEF r
  <2>3. entries' \in [People -> EntryType]
    BY <1>0, <2>1, <2>2
  <2> QED
    BY <1>6, <1>7, <2>3 DEF Deactivate
<1>8. ASSUME NEW p \in People, NEW u, UpdateEntry(p, u) PROVE DirInv'
  <2> DEFINE r == [entries[p] EXCEPT !.unit = u]
  <2>0. u \in OwnUnits \cup {Foreign}
    BY <1>0, <1>8 DEF UpdateEntry, DirTypeOK
  <2>1. r \in EntryType
    BY <1>0, <2>0 DEF EntryType
  <2>2. entries' = [entries EXCEPT ![p] = r]
    BY <1>8 DEF UpdateEntry
  <2> HIDE DEF r
  <2>3. entries' \in [People -> EntryType]
    BY <1>0, <2>1, <2>2
  <2> QED
    BY <1>6, <1>8, <2>3 DEF UpdateEntry
<1>9. ASSUME NEW p \in People, NEW u, CreateEntryByHand(p, u) PROVE DirInv'
  BY <1>0, <1>6, <1>9, CreateEntryEffect DEF CreateEntryByHand
<1>10. ASSUME NEW t \in Tabs, NEW p \in People, PressAdd(t, p) PROVE DirInv'
  <2> DEFINE r == [at |-> "identity", who |-> p]
  <2>1. r \in TabType /\ r.who = p
    BY DEF TabType
  <2>2. tab' = [tab EXCEPT ![t] = r]
    BY <1>10 DEF PressAdd
  <2> HIDE DEF r
  <2>3. tab' \in [Tabs -> TabType] /\ tab'[t] = r /\ \A s \in Tabs : s # t => tab'[s] = tab[s]
    BY <1>0, <2>1, <2>2
  <2>4. TabsInv'
    BY <1>1, <2>1, <2>3
  <2> QED
    BY <1>0, <1>2, <1>10, <2>3, <2>4 DEF PressAdd, units, DirInv, DirTypeOK, TabType
<1>11. ASSUME NEW t \in Tabs, AddIdentity(t) PROVE DirInv'
  <2>1. tab[t].who \in People
    BY <1>0, <1>11 DEF AddIdentity, TabsInv, At
  <2>2. CASE tab[t].who \in identities
    <3>1. tab' = [tab EXCEPT ![t] = Resting] /\ UNCHANGED identities
      BY <1>11, <2>2 DEF AddIdentity
    <3>2. tab' \in [Tabs -> TabType] /\ tab'[t] = Resting
          /\ \A s \in Tabs : s # t => tab'[s] = tab[s]
      BY <1>0, <3>1, RestingType
    <3>3. TabsInv'
      BY <1>1, <3>2, RestingType
    <3> QED
      BY <1>0, <1>2, <1>11, <3>1, <3>2, <3>3
      DEF AddIdentity, units, DirInv, DirTypeOK, TabType
  <2>3. CASE tab[t].who \notin identities
    <3>1. Goes(t, "tree") /\ identities' = identities \cup {tab[t].who}
      BY <1>11, <2>3 DEF AddIdentity
    <3>2. /\ tab' \in [Tabs -> TabType] /\ tab'[t].who = tab[t].who
          /\ \A s \in Tabs : s # t => tab'[s] = tab[s]
      BY <1>0, <3>1, GoesEffect
    <3>3. TabsInv'
      BY <1>1, <2>1, <3>2
    <3> QED
      BY <1>0, <1>2, <1>11, <2>1, <3>1, <3>2, <3>3
      DEF AddIdentity, units, DirInv, DirTypeOK, TabType
  <2> QED
    BY <2>2, <2>3
<1>12. ASSUME NEW t \in Tabs, ReadTree(t) PROVE DirInv'
  <2>1. tab[t].who \in People
    BY <1>0, <1>12 DEF ReadTree, TabsInv, At
  <2>2. PICK where \in {"form", "entry"} : Goes(t, where)
    BY <1>12 DEF ReadTree
  <2>3. /\ tab' \in [Tabs -> TabType] /\ tab'[t].at = where
        /\ where # "form" => tab'[t].who = tab[t].who
        /\ \A s \in Tabs : s # t => tab'[s] = tab[s]
    BY <1>0, <2>2, GoesEffect
  <2>4. TabsInv'
    BY <1>1, <2>1, <2>3
  <2> QED
    BY <1>0, <1>2, <1>12, <2>3, <2>4 DEF ReadTree, units, DirInv, DirTypeOK, TabType
<1>13. ASSUME NEW t \in Tabs, AddEntry(t) PROVE DirInv'
  <2>1. tab[t].who \in People
    BY <1>0, <1>13 DEF AddEntry, TabsInv, At
  <2>2. /\ tab' \in [Tabs -> TabType] /\ tab'[t].at = "form"
        /\ \A s \in Tabs : s # t => tab'[s] = tab[s]
    BY <1>0, <1>13, GoesEffect DEF AddEntry
  <2>3. TabsInv'
    BY <1>1, <2>2
  <2>4. entries' \in [People -> EntryType]
    BY <1>0, <1>13, <2>1, CreateEntryEffect DEF AddEntry
  <2> QED
    BY <1>0, <1>2, <1>13, <2>2, <2>3, <2>4
    DEF AddEntry, units, DirInv, DirTypeOK, TabType, EntryType
<1>14. ASSUME NEW t \in Tabs, RequestFails(t) PROVE DirInv'
  <2>1. /\ tab[t].who \in People /\ faults < MaxFaults /\ faults' = faults + 1
        /\ tab' = [tab EXCEPT ![t] = Resting] /\ UNCHANGED <<units, session>>
    BY <1>0, <1>14 DEF RequestFails, TabsInv
  <2>2. tab' \in [Tabs -> TabType] /\ tab'[t] = Resting
        /\ \A s \in Tabs : s # t => tab'[s] = tab[s]
    BY <1>0, <2>1, RestingType
  <2>3. TabsInv'
    BY <1>1, <2>2, RestingType
  <2>4. entries' \in [People -> EntryType]
    BY <1>0, <1>14, <2>1, CreateEntryEffect DEF RequestFails
  <2>5. identities' \subseteq People /\ failed' \subseteq People
    BY <1>0, <1>14, <2>1 DEF RequestFails, DirTypeOK
  <2>6. faults' \in 0..MaxFaults
    BY <1>0, <2>1, DirectoryAssumption DEF DirTypeOK
  <2> QED
    BY <1>0, <1>2, <2>1, <2>2, <2>3, <2>4, <2>5, <2>6
    DEF units, DirInv, DirTypeOK, TabType, EntryType
<1> QED
  BY <1>3, <1>4, <1>5, <1>7, <1>8, <1>9, <1>10, <1>11, <1>12, <1>13, <1>14 DEF DirNext

LEMMA InitDir == Init => DirInv
<1> SUFFICES ASSUME DirInit PROVE DirInv
  BY DEF Init
<1>1. Units = {"hotel"} \cup Depts
  BY DEF DirInit, Units
<1>2. /\ Units \subseteq OwnUnits
      /\ parent \in [Units -> OwnUnits \cup {Foreign, None}]
  BY <1>1 DEF DirInit, OwnUnits
<1>3. tab \in [Tabs -> TabType] /\ \A t \in Tabs : At(t, "form")
  BY RestingType DEF DirInit, At
<1>4. entries \in [People -> EntryType]
  <2>1. ASSUME NEW p \in People
        PROVE  (IF p \in Seeded THEN [unit |-> DeptOf[p], active |-> TRUE]
                ELSE [unit |-> None, active |-> FALSE]) \in EntryType
    BY DirectoryAssumption DEF EntryType, OwnUnits
  <2> QED
    BY <2>1 DEF DirInit
<1>5. identities \subseteq People /\ faults \in 0..MaxFaults
  BY DirectoryAssumption DEF DirInit
<1>6. DeptsInv
  BY <1>1, DirectoryAssumption DEF DirInit, DeptsInv
<1> QED
  BY <1>2, <1>3, <1>4, <1>5, <1>6
  DEF DirInit, DirInv, DirTypeOK, TabsInv, TabType, EntryType

(***************************************************************************)
(* Whoever is added comes into the directory.                              *)
(***************************************************************************)

OnTheWay(p) == \E t \in Tabs : tab[t].who = p /\ tab[t].at \in {"tree", "entry"}
Placed(p) == HasEntry(p) \/ p \in failed \/ OnTheWay(p) \/ early # {}

LEMMA PlacedIs == StaffInDirectory <=> \A p \in identities : Placed(p)
  BY DEF StaffInDirectory, Placed, OnTheWay

\* Where the pages rest, whoever is there stays there.
LEMMA PlacedRests ==
  ASSUME NEW p, Placed(p), UNCHANGED <<tab, failed>>,
         early \subseteq early', HasEntry(p) => HasEntry(p)'
  PROVE  Placed(p)'
  BY DEF Placed, OnTheWay

\* Where one page goes on, the people of the others stay on their way.
LEMMA PlacedByOther ==
  ASSUME NEW p, Placed(p), NEW t \in Tabs, ~(tab[t].who = p /\ tab[t].at \in {"tree", "entry"}),
         \A s \in Tabs : s # t => tab'[s] = tab[s],
         UNCHANGED early, failed \subseteq failed', HasEntry(p) => HasEntry(p)'
  PROVE  Placed(p)'
  BY DEF Placed, OnTheWay

LEMMA StaffStepIn ==
  ASSUME DirInv, StaffInDirectory, [DirNext]_dirVars
  PROVE  StaffInDirectory'
<1>0. /\ DirTypeOK /\ TabsInv /\ DeptsInv /\ identities \subseteq People
      /\ tab \in [Tabs -> TabType] /\ entries \in [People -> EntryType]
  BY DEF DirInv, DirTypeOK, TabType, EntryType
<1>1. \A p \in identities : Placed(p)
  BY PlacedIs
<1> SUFFICES ASSUME NEW p \in identities' PROVE Placed(p)'
  BY DEF StaffInDirectory, Placed, OnTheWay
<1>2. CASE UNCHANGED dirVars
  BY <1>1, <1>2, PlacedRests DEF dirVars, units, HasEntry
<1>3. ASSUME NEW u \in NewUnits, NEW q \in OwnUnits \cup {Foreign, None},
             NEW first \in BOOLEAN, CreateOrgUnit(u, q, first)
      PROVE  Placed(p)'
  BY <1>1, <1>3, PlacedRests DEF CreateOrgUnit, HasEntry
<1>4. ASSUME NEW q \in People, Login(q) \/ Logout(q) PROVE Placed(p)'
  BY <1>1, <1>4, PlacedRests DEF Login, Logout, units, HasEntry
<1>5. ASSUME NEW q \in People, Deactivate(q) PROVE Placed(p)'
  <2> DEFINE r == [entries[q] EXCEPT !.active = FALSE]
  <2>1. r.unit = entries[q].unit /\ entries' = [entries EXCEPT ![q] = r]
    BY <1>0, <1>5 DEF Deactivate, EntryType
  <2> HIDE DEF r
  <2>2. HasEntry(p) => HasEntry(p)'
    BY <1>0, <1>5, <2>1 DEF HasEntry, Deactivate
  <2> QED
    BY <1>1, <1>5, <2>2, PlacedRests DEF Deactivate, units
<1>6. ASSUME NEW q \in People, NEW u, UpdateEntry(q, u) PROVE Placed(p)'
  <2> DEFINE r == [entries[q] EXCEPT !.unit = u]
  <2>0. u # None
    BY <1>0, <1>6, DirectoryAssumption DEF UpdateEntry, DirTypeOK, OwnUnits
  <2>1. r.unit = u /\ entries' = [entries EXCEPT ![q] = r]
    BY <1>0, <1>6 DEF UpdateEntry, EntryType
  <2> HIDE DEF r
  <2>2. HasEntry(p) => HasEntry(p)'
    BY <1>0, <1>6, <2>0, <2>1 DEF HasEntry, UpdateEntry
  <2> QED
    BY <1>1, <1>6, <2>2, PlacedRests DEF UpdateEntry, units
<1>7. ASSUME NEW q \in People, NEW u, CreateEntryByHand(q, u) PROVE Placed(p)'
  <2>1. p \in People /\ p \in identities
    BY <1>0, <1>7 DEF CreateEntryByHand
  <2>2. HasEntry(p) => HasEntry(p)'
    BY <1>0, <1>7, <2>1, CreateEntryEffect DEF CreateEntryByHand
  <2> QED
    BY <1>1, <1>7, <2>1, <2>2, PlacedRests DEF CreateEntryByHand, units
<1>8. ASSUME NEW t \in Tabs, NEW q \in People, PressAdd(t, q) PROVE Placed(p)'
  <2>1. /\ tab[t].at = "form" /\ UNCHANGED <<units, identities, entries, failed>>
        /\ \A s \in Tabs : s # t => tab'[s] = tab[s]
    BY <1>0, <1>8 DEF PressAdd, At
  <2> QED
    BY <1>1, <2>1, PlacedByOther DEF units, HasEntry
<1>9. ASSUME NEW t \in Tabs, AddIdentity(t) PROVE Placed(p)'
  <2>1. tab[t].at = "identity" /\ UNCHANGED <<units, entries, failed>>
    BY <1>9 DEF AddIdentity, At
  <2>2. CASE tab[t].who \in identities
    <3>1. p \in identities /\ \A s \in Tabs : s # t => tab'[s] = tab[s]
      BY <1>0, <1>9, <2>2 DEF AddIdentity
    <3> QED
      BY <1>1, <2>1, <3>1, PlacedByOther DEF units, HasEntry
  <2>3. CASE tab[t].who \notin identities
    <3>1. Goes(t, "tree") /\ identities' = identities \cup {tab[t].who}
      BY <1>9, <2>3 DEF AddIdentity
    <3>2. /\ tab'[t].at = "tree" /\ tab'[t].who = tab[t].who
          /\ \A s \in Tabs : s # t => tab'[s] = tab[s]
      BY <1>0, <3>1, GoesEffect
    <3>3. CASE p \in identities
      BY <1>1, <2>1, <3>2, <3>3, PlacedByOther DEF units, HasEntry
    <3>4. CASE p = tab[t].who
      BY <3>2, <3>4 DEF Placed, OnTheWay
    <3> QED
      BY <3>1, <3>3, <3>4
  <2> QED
    BY <2>2, <2>3
<1>10. ASSUME NEW t \in Tabs, ReadTree(t) PROVE Placed(p)'
  <2> DEFINE where == IF DeptOf[tab[t].who] \in Children(FirstRoot) THEN "entry" ELSE "form"
  <2>1. /\ tab[t].at = "tree" /\ tab[t].who \in People /\ Goes(t, where)
        /\ UNCHANGED <<units, identities, entries, failed>>
    BY <1>0, <1>10 DEF ReadTree, At, TabsInv
  <2>2. /\ tab'[t].at = where
        /\ where # "form" => tab'[t].who = tab[t].who
        /\ \A s \in Tabs : s # t => tab'[s] = tab[s]
    BY <1>0, <2>1, GoesEffect
  <2>3. early = {} => where = "entry"
    <3>1. DeptOf[tab[t].who] \in Depts
      BY <2>1, DirectoryAssumption
    <3>2. DeptOf[tab[t].who] \in Children("hotel")
      BY <1>0, <3>1 DEF DeptsInv, Children
    <3> QED
      BY <3>2 DEF FirstRoot
  <2> HIDE DEF where
  <2>4. CASE early # {}
    BY <2>1, <2>4 DEF units, Placed
  <2>5. CASE early = {} /\ tab[t].who = p
    BY <2>2, <2>3, <2>5 DEF Placed, OnTheWay
  <2>6. CASE tab[t].who # p
    BY <1>1, <2>1, <2>2, <2>6, PlacedByOther DEF units, HasEntry
  <2> QED
    BY <2>4, <2>5, <2>6
<1>11. ASSUME NEW t \in Tabs, AddEntry(t) PROVE Placed(p)'
  <2>1. /\ tab[t].who \in People /\ p \in identities /\ p \in People /\ Goes(t, "form")
        /\ UNCHANGED <<units, identities, failed>>
    BY <1>0, <1>11 DEF AddEntry, At, TabsInv
  <2>2. \A s \in Tabs : s # t => tab'[s] = tab[s]
    BY <1>0, <2>1, GoesEffect
  <2>0. PICK w \in People : w = tab[t].who
    BY <2>1
  <2>3. HasEntry(w)' /\ (HasEntry(p) => HasEntry(p)')
    <3>1. CASE HasEntry(w) /\ UNCHANGED entries
      BY <3>1 DEF HasEntry
    <3>2. CASE CreateEntry(w, DeptOf[w])
      BY <1>0, <2>1, <3>2, CreateEntryEffect
    <3> QED
      BY <1>11, <2>0, <3>1, <3>2 DEF AddEntry
  <2>4. CASE tab[t].who = p
    BY <2>0, <2>3, <2>4 DEF Placed, HasEntry
  <2>5. CASE tab[t].who # p
    BY <1>1, <2>1, <2>2, <2>3, <2>5, PlacedByOther DEF units
  <2> QED
    BY <2>4, <2>5
<1>12. ASSUME NEW t \in Tabs, RequestFails(t) PROVE Placed(p)'
  <2>1. /\ tab[t].who \in People /\ tab' = [tab EXCEPT ![t] = Resting]
        /\ UNCHANGED units /\ failed \subseteq failed'
        /\ tab[t].who \in identities' => tab[t].who \in failed'
        /\ p \in identities \/ p = tab[t].who
    BY <1>0, <1>12 DEF RequestFails, TabsInv
  <2>2. \A s \in Tabs : s # t => tab'[s] = tab[s]
    BY <1>0, <2>1
  <2>3. CASE tab[t].who = p
    BY <2>1, <2>3 DEF Placed
  <2>4. CASE tab[t].who # p
    <3>1. p \in identities /\ p \in People
      BY <1>0, <2>1, <2>4
    <3>2. HasEntry(p) => HasEntry(p)'
      <4>1. PICK w \in People : w = tab[t].who
        BY <2>1
      <4>2. UNCHANGED entries \/ CreateEntry(w, DeptOf[w])
        BY <1>12, <4>1 DEF RequestFails
      <4>3. CASE UNCHANGED entries
        BY <4>3 DEF HasEntry
      <4> QED
        BY <1>0, <3>1, <4>2, <4>3, CreateEntryEffect
    <3> QED
      BY <1>1, <2>1, <2>2, <2>4, <3>1, <3>2, PlacedByOther DEF units
  <2> QED
    BY <2>3, <2>4
<1> QED
  BY <1>2, <1>3, <1>4, <1>5, <1>6, <1>7, <1>8, <1>9, <1>10, <1>11, <1>12 DEF DirNext

LEMMA InitPlaced == Init => StaffInDirectory
<1> SUFFICES ASSUME Init, NEW p \in identities PROVE HasEntry(p)
  BY DEF StaffInDirectory
<1>1. p \in People /\ p \in Seeded /\ DeptOf[p] \in Depts
  BY DirectoryAssumption DEF Init, DirInit
<1>2. entries[p].unit = DeptOf[p]
  BY <1>1 DEF Init, DirInit
<1> QED
  BY <1>1, <1>2, DirectoryAssumption DEF HasEntry

LEMMA NextIsDir ==
  ASSUME [Next]_vars
  PROVE  [DirNext]_dirVars
  BY DEF Next, vars

LEMMA DirAlways == Spec => []DirInv
<1>1. DirInv /\ [Next]_vars => DirInv'
  BY NextIsDir, DirInvStep
<1> QED
  BY <1>1, InitDir, PTL DEF Spec

\* Whoever an administrator adds comes into the directory, unless a request
\* failed half-way or a root unit is sorted before the hotel.
THEOREM AddedStaffAreInDirectory == Spec => []StaffInDirectory
<1>1. DirInv /\ StaffInDirectory /\ [Next]_vars => StaffInDirectory'
  BY NextIsDir, StaffStepIn
<1> QED
  BY <1>1, InitPlaced, DirAlways, PTL DEF Spec

(***************************************************************************)
(* Service requests.                                                       *)
(***************************************************************************)

RowType == [guest : Guests \cup {None}, dept : Asked \cup {None}, status : Status]
FormType == [at : {"form", "check", "insert"}, dept : Asked \cup {None}]

ReqTypeOK ==
  /\ grant \subseteq Guests /\ late \subseteq Guests
  /\ row \in [Requests -> RowType] /\ form \in [Guests -> FormType]
  /\ dashboard \in [People -> SUBSET Requests] /\ looked \in [People -> SUBSET Requests]

\* A guest whose grant has been found has it still, or is late.
FoundInv == \A g \in Guests : form[g].at = "insert" => g \in grant \cup late

LEMMA UnsentType == Unsent \in FormType /\ Unsent.at = "form"
  BY DEF Unsent, FormType

LEMMA NoRowType == NoRow \in RowType
  BY DEF NoRow, RowType, Status

LEMMA ReqStep ==
  ASSUME ReqTypeOK, FoundInv, DirTypeOK, [ReqNext]_reqVars
  PROVE  ReqTypeOK' /\ FoundInv'
<1>0. row \in [Requests -> RowType] /\ form \in [Guests -> FormType]
  BY DEF ReqTypeOK
<1>1. CASE UNCHANGED reqVars
  BY <1>1 DEF reqVars, ReqTypeOK, FoundInv
<1>2. ASSUME NEW g \in Guests, GrantChanges(g) PROVE ReqTypeOK' /\ FoundInv'
  BY <1>2 DEF GrantChanges, ReqTypeOK, FoundInv
<1>3. ASSUME NEW g \in Guests, NEW d \in Asked, Submit(g, d) PROVE ReqTypeOK' /\ FoundInv'
  <2> DEFINE r == [at |-> "check", dept |-> d]
  <2>1. r \in FormType /\ r.at = "check" /\ form' = [form EXCEPT ![g] = r]
    BY <1>3 DEF Submit, FormType
  <2> HIDE DEF r
  <2> QED
    BY <1>0, <1>3, <2>1 DEF Submit, ReqTypeOK, FoundInv
<1>4. ASSUME NEW g \in Guests, FindGrant(g) PROVE ReqTypeOK' /\ FoundInv'
  <2> DEFINE r == IF g \in grant THEN [form[g] EXCEPT !.at = "insert"] ELSE Unsent
  <2>1. form' = [form EXCEPT ![g] = r]
    BY <1>4 DEF FindGrant
  <2>2. r \in FormType /\ (r.at = "insert" => g \in grant)
    BY <1>0, UnsentType DEF FormType
  <2> HIDE DEF r
  <2> QED
    BY <1>0, <1>4, <2>1, <2>2 DEF FindGrant, ReqTypeOK, FoundInv
<1>5. ASSUME NEW g \in Guests, NEW q \in Requests, Insert(g, q) PROVE ReqTypeOK' /\ FoundInv'
  <2> DEFINE r == [NoRow EXCEPT !.guest = g, !.dept = form[g].dept]
  <2>1. row' = [row EXCEPT ![q] = r] /\ form' = [form EXCEPT ![g] = Unsent]
    BY <1>5 DEF Insert
  <2>2. r \in RowType
    BY <1>0, NoRowType DEF RowType, FormType
  <2> HIDE DEF r
  <2>3. row' \in [Requests -> RowType] /\ form' \in [Guests -> FormType]
    BY <1>0, <2>1, <2>2, UnsentType
  <2> QED
    BY <1>0, <1>5, <2>1, <2>3, UnsentType DEF Insert, ReqTypeOK, FoundInv
<1>6. ASSUME NEW p \in People, LoadDashboard(p) PROVE ReqTypeOK' /\ FoundInv'
  <2>1. \A d : ForDepartment(d) \subseteq Requests
    BY DEF ForDepartment, Made
  <2>2. dashboard' \in [People -> SUBSET Requests] /\ looked' \in [People -> SUBSET Requests]
    BY <1>6, <2>1 DEF LoadDashboard, ReqTypeOK
  <2> QED
    BY <1>6, <2>2 DEF LoadDashboard, ReqTypeOK, FoundInv
<1>7. ASSUME NEW p \in People, NEW q \in Requests, NEW s \in Status, UpdateStatus(p, q, s)
      PROVE  ReqTypeOK' /\ FoundInv'
  <2> DEFINE r == [row[q] EXCEPT !.status = s]
  <2>1. r \in RowType
    BY <1>0 DEF RowType
  <2>2. row' = [row EXCEPT ![q] = r]
    BY <1>7 DEF UpdateStatus
  <2> HIDE DEF r
  <2> QED
    BY <1>0, <1>7, <2>1, <2>2 DEF UpdateStatus, ReqTypeOK, FoundInv
<1> QED
  BY <1>1, <1>2, <1>3, <1>4, <1>5, <1>6, <1>7 DEF ReqNext

LEMMA InitReq == Init => ReqTypeOK /\ FoundInv
  BY UnsentType, NoRowType DEF Init, ReqTypeOK, FoundInv

LEMMA ReqAlways == Spec => [](DirInv /\ ReqTypeOK /\ FoundInv)
<1>1. DirInv /\ ReqTypeOK /\ FoundInv /\ [Next]_vars => ReqTypeOK' /\ FoundInv'
  BY ReqStep DEF Next, vars, DirInv
<1> QED
  BY <1>1, InitReq, DirAlways, PTL DEF Spec

\* Every variable of the directory and of the requests keeps its shape.
THEOREM TypeCorrect == Spec => []TypeOK
<1>1. DirInv /\ ReqTypeOK => TypeOK
  BY DEF DirInv, ReqTypeOK, TypeOK, RowType, FormType
<1> QED
  BY <1>1, ReqAlways, PTL

\* A request is placed for a guest who is staying, or whose stay has ended
\* since the handler looked.
THEOREM RequestsNeedStay == Spec => PlacedDuringStay
<1>1. ASSUME ReqTypeOK, FoundInv, [Next]_vars, NEW q \in Requests, row[q] = NoRow, row'[q] # NoRow
      PROVE  row'[q].guest \in grant \cup late
  <2>0. row \in [Requests -> RowType] /\ q \notin Made
    BY <1>1 DEF ReqTypeOK, Made
  <2>1. ASSUME NEW g \in Guests, NEW k \in Requests, Insert(g, k)
        PROVE  row'[q].guest \in grant \cup late
    <3> DEFINE r == [NoRow EXCEPT !.guest = g, !.dept = form[g].dept]
    <3>1. row' = [row EXCEPT ![k] = r] /\ form[g].at = "insert"
      BY <2>1 DEF Insert
    <3>2. r.guest = g
      BY DEF NoRow
    <3> HIDE DEF r
    <3>3. row'[q].guest = g
      BY <1>1, <2>0, <3>1, <3>2
    <3> QED
      BY <1>1, <3>1, <3>3 DEF FoundInv
  <2>2. ASSUME NEW p \in People, NEW k \in Requests, NEW s \in Status, UpdateStatus(p, k, s)
        PROVE  FALSE
    <3>1. k # q
      BY <2>0, <2>2 DEF UpdateStatus
    <3>2. row'[q] = row[q]
      BY <2>0, <2>2, <3>1 DEF UpdateStatus
    <3> QED
      BY <1>1, <3>2
  <2>3. CASE UNCHANGED row
    BY <1>1, <2>3
  <2> QED
    BY <1>1, <2>1, <2>2, <2>3 DEF Next, ReqNext, GrantChanges, Submit, FindGrant,
       LoadDashboard, reqVars, vars
<1>2. ReqTypeOK /\ FoundInv /\ [Next]_vars =>
        [\A q \in Requests : row[q] = NoRow /\ row'[q] # NoRow =>
           row'[q].guest \in grant \cup late]_vars
  BY <1>1
<1> QED
  BY <1>2, ReqAlways, PTL DEF Spec, PlacedDuringStay
=============================================================================
