------------------------------ MODULE Directory ------------------------------
(***************************************************************************)
(* The staff directory: DirectoryService, the administrator's staff page   *)
(* that adds to it, and the login of staff.                                *)
(*                                                                         *)
(* The tenant's hotel and departments are there from the seed; an          *)
(* administrator may make more units.  The name of a unit matters only     *)
(* where the tree is sorted: a root is early if its name comes before the  *)
(* hotel's.  Rows are never deleted, so a handler that looks a row up and  *)
(* then writes is one step.  Texts, and what listAll, listByOrgUnit and the *)
(* search by words read of the entries that are active, are left out.      *)
(***************************************************************************)
EXTENDS Integers, FiniteSets

CONSTANTS
  People,     \* members of staff, by full name
  Seeded,     \* those of the seed
  Depts,      \* departments that the form offers
  DeptOf,     \* the department of each member of staff
  NewUnits,   \* units that an administrator may make
  Foreign,    \* a unit of another tenant
  Tabs,       \* staff pages that are open; a second click on Add is another
  MaxFaults,  \* bound: requests that fail
  None

ASSUME DirectoryAssumption ==
  /\ Seeded \subseteq People
  /\ DeptOf \in [People -> Depts]
  /\ MaxFaults \in Nat
  /\ "hotel" \notin Depts
  /\ None \notin People \cup Depts \cup NewUnits \cup {Foreign, "hotel"}

OwnUnits == {"hotel"} \cup Depts \cup NewUnits

VARIABLES
  parent,      \* parentId of the tenant's units that exist; None of a root
  early,       \* roots whose name comes before the hotel's
  identities,  \* members of staff who have an ACTIVE identity
  entries,     \* the entry of each identity: its unit, and if it is active
  tab,         \* handleAdd of each page: the request it has sent, and for whom
  session,     \* staff who are logged in
  failed,      \* history: for whom handleAdd has thrown after the identity was there
  faults       \* requests that have failed

units == <<parent, early>>
dirVars == <<units, identities, entries, tab, session, failed, faults>>

Resting == [at |-> "form", who |-> None]

DirInit ==
  /\ parent = [u \in {"hotel"} \cup Depts |-> IF u = "hotel" THEN None ELSE "hotel"]
  /\ early = {}
  /\ identities = Seeded
  /\ entries = [p \in People |->
       IF p \in Seeded THEN [unit |-> DeptOf[p], active |-> TRUE]
       ELSE [unit |-> None, active |-> FALSE]]
  /\ tab = [t \in Tabs |-> Resting]
  /\ session = {} /\ failed = {} /\ faults = 0

----------------------------------------------------------------------------
(* DirectoryService *)

Units == DOMAIN parent
HasEntry(p) == entries[p].unit # None

\* Mutant: the units are not sorted, and the latest may be the first.
FirstRootUnsorted ==
  IF \E u \in NewUnits \cap Units : parent[u] = None
  THEN CHOOSE u \in NewUnits \cap Units : parent[u] = None
  ELSE "hotel"

\* getOrgTree: the roots are sorted by name, and this is the first; a unit
\* whose parent is another tenant's is nowhere in the tree.
FirstRoot ==
  IF early = {} THEN "hotel" ELSE CHOOSE u \in early : TRUE

Children(u) == {v \in Units : parent[v] = u}

\* createOrgUnit: the parent may be any unit, and of any tenant.
CreateOrgUnit(u, p, first) ==
  /\ u \in NewUnits \ Units
  /\ p \in Units \cup {Foreign, None}
  /\ parent' = [v \in Units \cup {u} |-> IF v = u THEN p ELSE parent[v]]
  /\ early' = IF first THEN early \cup {u} ELSE early
  /\ first => p = None
  /\ UNCHANGED <<identities, entries, tab, session, failed, faults>>

\* createEntry for an identity, by an administrator: in the tenant's units
\* only.  An identity may have any number of entries: here it has one.
CreateEntry(p, u) ==
  /\ p \in identities /\ ~HasEntry(p) /\ u \in Units
  /\ entries' = [entries EXCEPT ![p] = [unit |-> u, active |-> TRUE]]

CreateEntryByHand(p, u) ==
  /\ CreateEntry(p, u)
  /\ UNCHANGED <<units, identities, tab, session, failed, faults>>

\* updateEntry: the entry has to be the tenant's, not its new unit.
UpdateEntry(p, u) ==
  /\ HasEntry(p) /\ u \in Units \cup {Foreign}
  /\ entries' = [entries EXCEPT ![p] = [@ EXCEPT !.unit = u]]
  /\ UNCHANGED <<units, identities, tab, session, failed, faults>>

----------------------------------------------------------------------------
(* The staff page.  handleAdd sends three requests, and stops at the first  *)
(* that fails: nothing catches what it throws, and the form stays.          *)

At(t, where) == tab[t].at = where
Goes(t, where) ==
  tab' = [tab EXCEPT ![t] = IF where = "form" THEN Resting ELSE [@ EXCEPT !.at = where]]

PressAdd(t, p) ==
  /\ At(t, "form") /\ p \notin Seeded
  /\ tab' = [tab EXCEPT ![t] = [at |-> "identity", who |-> p]]
  /\ UNCHANGED <<units, identities, entries, session, failed, faults>>

\* POST /identities: the name is taken if there is an identity of it.  The
\* password goes into password_hash as it was typed.
AddIdentity(t) ==
  /\ At(t, "identity")
  /\ IF tab[t].who \in identities
     THEN tab' = [tab EXCEPT ![t] = Resting] /\ UNCHANGED identities
     ELSE identities' = identities \cup {tab[t].who} /\ Goes(t, "tree")
  /\ UNCHANGED <<units, entries, session, failed, faults>>

\* GET /directory/units: the department is looked for under the first root,
\* and without it there is no entry to add.
ReadTree(t) ==
  /\ At(t, "tree")
  /\ Goes(t, IF DeptOf[tab[t].who] \in Children(FirstRoot) THEN "entry" ELSE "form")
  /\ UNCHANGED <<units, identities, entries, session, failed, faults>>

\* POST /directory/entries
AddEntry(t) ==
  /\ At(t, "entry") /\ Goes(t, "form")
  /\ \/ HasEntry(tab[t].who) /\ UNCHANGED entries
     \/ CreateEntry(tab[t].who, DeptOf[tab[t].who])
  /\ UNCHANGED <<units, identities, session, failed, faults>>

\* deactivate, of an entry of the page's list, which may be an old one.  The
\* identity stays ACTIVE.
Deactivate(p) ==
  /\ HasEntry(p)
  /\ entries' = [entries EXCEPT ![p] = [@ EXCEPT !.active = FALSE]]
  /\ UNCHANGED <<units, identities, tab, session, failed, faults>>

\* A request fails, before or after it has done its work.
RequestFails(t) ==
  /\ ~At(t, "form") /\ faults < MaxFaults
  /\ faults' = faults + 1
  /\ tab' = [tab EXCEPT ![t] = Resting]
  /\ \/ UNCHANGED <<identities, entries>>
     \/ /\ At(t, "identity")
        /\ identities' = identities \cup {tab[t].who}
        /\ UNCHANGED entries
     \/ /\ At(t, "entry")
        /\ CreateEntry(tab[t].who, DeptOf[tab[t].who])
        /\ UNCHANGED identities
  /\ failed' = IF tab[t].who \notin identities' THEN failed
               ELSE failed \cup {tab[t].who}
  /\ UNCHANGED <<units, session>>

----------------------------------------------------------------------------
(* StaffAuthService.login and the staff app's sessionStorage *)

\* The seed has hashed its passwords; the staff page sends them as typed.
Hashed(p) == p \in Seeded

\* An ACTIVE identity whose password_hash bcrypt can compare with, entry or
\* no entry.
Login(p) ==
  /\ p \in identities /\ Hashed(p)
  /\ session' = session \cup {p}
  /\ UNCHANGED <<units, identities, entries, tab, failed, faults>>

Logout(p) ==
  /\ p \in session /\ session' = session \ {p}
  /\ UNCHANGED <<units, identities, entries, tab, failed, faults>>

DirNext ==
  \/ \E u \in NewUnits, q \in OwnUnits \cup {Foreign, None}, first \in BOOLEAN :
       CreateOrgUnit(u, q, first)
  \/ \E p \in People :
       \/ Login(p) \/ Logout(p) \/ Deactivate(p)
       \/ \E u \in OwnUnits \cup {Foreign} :
            CreateEntryByHand(p, u) \/ UpdateEntry(p, u)
  \/ \E t \in Tabs :
       \/ AddIdentity(t) \/ ReadTree(t) \/ AddEntry(t) \/ RequestFails(t)
       \/ \E p \in People : PressAdd(t, p)

----------------------------------------------------------------------------
(* Properties *)

\* The shape of the state.
DirTypeOK ==
  /\ Units \subseteq OwnUnits
  /\ parent \in [Units -> OwnUnits \cup {Foreign, None}]
  /\ early \subseteq NewUnits
  /\ identities \subseteq People
  /\ entries \in [People -> [unit : OwnUnits \cup {Foreign, None},
                             active : BOOLEAN]]
  /\ tab \in [Tabs -> [at : {"form", "identity", "tree", "entry"},
                       who : People \cup {None}]]
  /\ session \subseteq People /\ failed \subseteq People
  /\ faults \in 0..MaxFaults

\* Whoever an administrator adds comes into the directory, unless a request
\* of handleAdd failed when the identity was already there (and then no
\* second attempt gets further than the identity), or a unit without a
\* parent is sorted before the hotel, and the department not found.
StaffInDirectory ==
  \A p \in identities :
    \/ HasEntry(p)
    \/ p \in failed
    \/ \E t \in Tabs : tab[t].who = p /\ tab[t].at \in {"tree", "entry"}
    \/ early # {}

(* What the documents say and the code does not do: it is refuted.         *)

\* "Verify org unit exists and belongs to tenant" (createEntry): an entry is
\* in a unit of its tenant.
EntryInOwnUnit == \A p \in People : entries[p].unit # Foreign

\* REQ-AUTH-03, "email + password with bcrypt hashing": whoever was added
\* can log in.
StaffCanLogIn == \A p \in identities : Hashed(p)

\* REQ-DIR-04, "deactivate": whoever was deactivated is not logged in anew.
DeactivatedStaysOut ==
  [][\A p \in session' \ session : HasEntry(p) => entries[p].active]_dirVars
=============================================================================
