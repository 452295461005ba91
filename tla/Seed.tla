-------------------------------- MODULE Seed --------------------------------
(***************************************************************************)
(* The seed script (packages/db/prisma/seed.ts): the rows a new            *)
(* installation starts with.  It may be run again at any time, also while  *)
(* another copy of it runs, and may end after any command.                 *)
(*                                                                         *)
(* Every command is a step.  Rules and directory entries are looked for    *)
(* and then written; the rest are upserts by a fixed id with nothing to    *)
(* update, INSERT ... ON CONFLICT, so one step.  Passwords, names and      *)
(* configuration are left out.                                             *)
(***************************************************************************)
EXTENDS Integers, Sequences, FiniteSets, SequencesExt

CONSTANTS
  Seeders,     \* processes that run the script
  Categories,  \* purposes that have a platform-wide retention rule
  Depts,       \* departments
  Staff,       \* seeded identities, each with its department's entry
  DeptOf,      \* the department of each
  MaxRuns      \* bound: runs of the script that begin

ASSUME SeedAssumption ==
  /\ DeptOf \in [Staff -> Depts] /\ MaxRuns \in Nat
  /\ IsFiniteSet(Categories) /\ IsFiniteSet(Depts) /\ IsFiniteSet(Staff)

\* The script: what each part creates, in order.
Parts(what, S) == SetToSeq({[do |-> what, of |-> x] : x \in S})
StaffParts ==
  LET people == SetToSeq(Staff) IN
  [k \in 1..(2 * Len(people)) |->
     [do |-> IF k % 2 = 1 THEN "identity" ELSE "entry",
      of |-> people[(k + 1) \div 2]]]

Script ==
  Parts("rule", Categories) \o <<[do |-> "unit", of |-> "tenant"],
                                 [do |-> "unit", of |-> "root"]>>
    \o Parts("unit", Depts) \o StaffParts

Units == Depts \cup {"tenant", "root"}

VARIABLES
  rules,       \* retention_rules of the platform: copies in each category
  units,       \* the tenant and org_units that exist
  identities,  \* staff identities that exist
  entries,     \* directory_entries of each member of staff in its department
  line,        \* the part of the script each process is at; 0 when not running
  found,       \* what its findFirst has returned
  runs,        \* runs begun
  overlapped,  \* history: a run has begun while another was in progress
  finished     \* history: a run has come to its end

seedVars == <<rules, units, identities, entries, line, found, runs,
              overlapped, finished>>
seeded == <<rules, units, identities, entries>>

SeedInit ==
  /\ rules = [c \in Categories |-> 0]
  /\ units = {} /\ identities = {}
  /\ entries = [s \in Staff |-> 0]
  /\ line = [p \in Seeders |-> 0]
  /\ found = [p \in Seeders |-> "unread"]
  /\ runs = 0 /\ overlapped = FALSE /\ finished = FALSE

At(p, what) == line[p] > 0 /\ Script[line[p]].do = what
Of(p) == Script[line[p]].of

\* On by n parts, or to the end of the script.
AdvanceBy(p, n) ==
  LET over == line[p] + n > Len(Script) IN
  /\ line' = [line EXCEPT ![p] = IF over THEN 0 ELSE @ + n]
  /\ found' = [found EXCEPT ![p] = "unread"]
  /\ finished' = (finished \/ over)
  /\ UNCHANGED <<runs, overlapped>>

Advance(p) == AdvanceBy(p, 1)

RunSeed(p) ==
  /\ line[p] = 0 /\ runs < MaxRuns
  /\ line' = [line EXCEPT ![p] = 1]
  /\ runs' = runs + 1
  /\ overlapped' = (overlapped \/ \E q \in Seeders : line[q] > 0)
  /\ UNCHANGED <<seeded, found, finished>>

Find(p, exists) ==
  /\ found[p] = "unread"
  /\ found' = [found EXCEPT ![p] = IF exists THEN "one" ELSE "none"]
  /\ UNCHANGED <<seeded, line, runs, overlapped, finished>>

\* Mutant: the rule is looked for in the tenant that is being seeded.
FindRuleOfTenant(p) == At(p, "rule") /\ Find(p, FALSE)

FindRule(p) == At(p, "rule") /\ Find(p, rules[Of(p)] > 0)

\* The update of a rule that exists writes the days it has already.
WriteRule(p) ==
  /\ At(p, "rule") /\ found[p] # "unread"
  /\ rules' = IF found[p] = "one" THEN rules ELSE [rules EXCEPT ![Of(p)] = @ + 1]
  /\ Advance(p)
  /\ UNCHANGED <<units, identities, entries>>

UpsertUnit(p) ==
  /\ At(p, "unit")
  /\ units' = units \cup {Of(p)}
  /\ Advance(p)
  /\ UNCHANGED <<rules, identities, entries>>

\* Mutant: an identity that exists is taken to have its entry.
UpsertIdentityOnce(p) ==
  /\ At(p, "identity")
  /\ identities' = identities \cup {Of(p)}
  /\ AdvanceBy(p, IF Of(p) \in identities THEN 2 ELSE 1)
  /\ UNCHANGED <<rules, units, entries>>

UpsertIdentity(p) ==
  /\ At(p, "identity")
  /\ identities' = identities \cup {Of(p)}
  /\ Advance(p)
  /\ UNCHANGED <<rules, units, entries>>

FindEntry(p) == At(p, "entry") /\ Find(p, entries[Of(p)] > 0)

WriteEntry(p) ==
  /\ At(p, "entry") /\ found[p] # "unread"
  /\ entries' = IF found[p] = "one" THEN entries
                ELSE [entries EXCEPT ![Of(p)] = @ + 1]
  /\ Advance(p)
  /\ UNCHANGED <<rules, units, identities>>

\* A command fails: the script ends, and what it has written stays.
SeedFails(p) ==
  /\ line[p] > 0
  /\ line' = [line EXCEPT ![p] = 0]
  /\ found' = [found EXCEPT ![p] = "unread"]
  /\ UNCHANGED <<seeded, runs, overlapped, finished>>

SeedStep(p) ==
  \/ RunSeed(p) \/ FindRule(p) \/ WriteRule(p) \/ UpsertUnit(p)
  \/ UpsertIdentity(p) \/ FindEntry(p) \/ WriteEntry(p) \/ SeedFails(p)

----------------------------------------------------------------------------
(* Properties *)

\* The shape of the state.
SeedTypeOK ==
  /\ rules \in [Categories -> Nat] /\ units \subseteq Units
  /\ identities \subseteq Staff /\ entries \in [Staff -> Nat]
  /\ line \in [Seeders -> 0..Len(Script)]
  /\ found \in [Seeders -> {"unread", "none", "one"}]
  /\ runs \in 0..MaxRuns
  /\ overlapped \in BOOLEAN /\ finished \in BOOLEAN

\* "Safe to re-run: uses upsert / findFirst patterns throughout": wherever
\* earlier runs have ended, a rule or an entry is there twice only when two
\* runs have overlapped (the unique index on rules does not bind the
\* platform's, whose tenant is NULL, and entries have none).
CopiesOnlyByOverlap ==
  ~overlapped => /\ \A c \in Categories : rules[c] <= 1
                 /\ \A s \in Staff : entries[s] <= 1

\* A run that comes to its end leaves everything in place, whatever pieces
\* the runs before it have left.
FinishedIsComplete ==
  finished => /\ units = Units /\ identities = Staff
              /\ \A c \in Categories : rules[c] > 0
              /\ \A s \in Staff : entries[s] > 0
=============================================================================
