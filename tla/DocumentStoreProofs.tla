------------------------- MODULE DocumentStoreProofs -------------------------
(* Theorems about the seed script and the document store, for any rules,   *)
(* departments, staff, processes, uploads and bounds.                      *)
EXTENDS DocumentStore, SequenceTheorems, FiniteSetTheorems, FunctionTheorems, TLAPS

(***************************************************************************)
(* The script: what it contains, and in which order.                       *)
(***************************************************************************)

\* A finite set listed as a sequence: its elements and nothing else.
LEMMA SetToSeqLists ==
  ASSUME NEW S, IsFiniteSet(S)
  PROVE  /\ SetToSeq(S) \in Seq(S) /\ Len(SetToSeq(S)) \in Nat
         /\ \A x \in S : \E i \in 1..Len(SetToSeq(S)) : SetToSeq(S)[i] = x
<1> DEFINE n == Cardinality(S)
           q == SetToSeq(S)
<1>1. n \in Nat /\ ExistsBijection(1..n, S)
  BY FS_CardinalityType
<1>2. PICK f : f \in Bijection(1..n, S)
  BY <1>1 DEF ExistsBijection
<1>3. f \in [1..n -> S] /\ IsInjective(f)
  BY <1>2 DEF Bijection, Injection
<1>4. q \in [1..n -> S] /\ IsInjective(q)
  BY <1>3 DEF SetToSeq
<1>5. q \in Injection(1..n, S)
  BY <1>4 DEF Injection
<1>6. Cardinality(1..n) = n
  BY <1>1, FS_Interval
<1>7. q \in Surjection(1..n, S)
  BY <1>5, <1>6, FS_Injection
<1>8. \A x \in S : \E i \in 1..n : q[i] = x
  BY <1>7 DEF Surjection
<1>9. q \in Seq(S) /\ Len(q) = n
  BY <1>1, <1>4, SeqDef, LenProperties
<1> QED
  BY <1>1, <1>8, <1>9

Part == [do : {"rule", "unit", "identity", "entry"}, of : Categories \cup Units \cup Staff]

LEMMA PartsLists ==
  ASSUME NEW what \in {"rule", "unit"}, NEW S \in SUBSET (Categories \cup Units),
         IsFiniteSet(S)
  PROVE  /\ Parts(what, S) \in Seq(Part) /\ Len(Parts(what, S)) \in Nat
         /\ \A i \in 1..Len(Parts(what, S)) :
              Parts(what, S)[i].do = what /\ Parts(what, S)[i].of \in S
         /\ \A x \in S : \E i \in 1..Len(Parts(what, S)) :
              Parts(what, S)[i] = [do |-> what, of |-> x]
<1> DEFINE T == {[do |-> what, of |-> x] : x \in S}
           f == [x \in S |-> [do |-> what, of |-> x]]
<1>1. f \in Surjection(S, T)
  BY Fun_IsSurj
<1>2. IsFiniteSet(T)
  BY <1>1, FS_Surjection
<1>3. Parts(what, S) = SetToSeq(T)
  BY DEF Parts
<1>4. /\ SetToSeq(T) \in Seq(T) /\ Len(SetToSeq(T)) \in Nat
      /\ \A x \in T : \E i \in 1..Len(SetToSeq(T)) : SetToSeq(T)[i] = x
  BY <1>2, SetToSeqLists
<1>5. T \subseteq Part /\ \A x \in T : x.do = what /\ x.of \in S
  BY DEF Part
<1>6. \A i \in 1..Len(SetToSeq(T)) : SetToSeq(T)[i] \in T
  BY <1>4, ElementOfSeq
<1>7. SetToSeq(T) \in Seq(Part)
  BY <1>4, <1>5
<1> QED
  BY <1>3, <1>4, <1>5, <1>6, <1>7

Joined(S, q, r) ==
  /\ q \o r \in Seq(S) /\ Len(q \o r) = Len(q) + Len(r)
  /\ \A i \in 1..(Len(q) + Len(r)) :
       (q \o r)[i] = IF i <= Len(q) THEN q[i] ELSE r[i - Len(q)]

LEMMA JoinedSequences ==
  ASSUME NEW S, NEW q \in Seq(S), NEW r \in Seq(S)
  PROVE  Joined(S, q, r)
  BY ConcatProperties DEF Joined

LEMMA StaffPartsLists ==
  /\ StaffParts \in Seq(Part) /\ Len(StaffParts) \in Nat
  /\ \A i \in 1..Len(StaffParts) :
       StaffParts[i].do \in {"identity", "entry"} /\ StaffParts[i].of \in Staff
  /\ \A what \in {"identity", "entry"}, s \in Staff :
       \E i \in 1..Len(StaffParts) : StaffParts[i] = [do |-> what, of |-> s]
<1> DEFINE people == SetToSeq(Staff)
           n == Len(people)
           part(k) == [do |-> IF k % 2 = 1 THEN "identity" ELSE "entry",
                       of |-> people[(k + 1) \div 2]]
<1>1. /\ people \in Seq(Staff) /\ n \in Nat
      /\ \A s \in Staff : \E i \in 1..n : people[i] = s
  BY SetToSeqLists, SeedAssumption
<1>2. \A i \in 1..n : people[i] \in Staff
  BY <1>1, ElementOfSeq
<1>3. \A k \in 1..(2 * n) : (k + 1) \div 2 \in 1..n
  BY <1>1
<1>4. \A i \in 1..n : /\ 2 * i \in 1..(2 * n) /\ 2 * i - 1 \in 1..(2 * n)
                      /\ (2 * i) % 2 = 0 /\ (2 * i - 1) % 2 = 1
                      /\ (2 * i + 1) \div 2 = i /\ (2 * i - 1 + 1) \div 2 = i
  BY <1>1
<1>5. StaffParts = [k \in 1..(2 * n) |-> part(k)]
  BY DEF StaffParts
<1> HIDE DEF n, people
<1>6. \A k \in 1..(2 * n) : part(k) \in Part /\ part(k).of \in Staff
                            /\ part(k).do \in {"identity", "entry"}
  BY <1>2, <1>3 DEF Part
<1> HIDE DEF part
<1>7. StaffParts \in [1..(2 * n) -> Part] /\ 2 * n \in Nat
  BY <1>1, <1>5, <1>6
<1>8. StaffParts \in Seq(Part) /\ Len(StaffParts) = 2 * n
  BY <1>7, SeqDef, LenProperties
<1>9. \A i \in 1..n : StaffParts[2 * i] = part(2 * i) /\ StaffParts[2 * i - 1] = part(2 * i - 1)
  BY <1>4, <1>5
<1>10. \A i \in 1..n : /\ StaffParts[2 * i] = [do |-> "entry", of |-> people[i]]
                       /\ StaffParts[2 * i - 1] = [do |-> "identity", of |-> people[i]]
  BY <1>4, <1>9 DEF part
<1>11. ASSUME NEW s \in Staff, NEW what \in {"identity", "entry"}
       PROVE  \E i \in 1..Len(StaffParts) : StaffParts[i] = [do |-> what, of |-> s]
  <2>1. PICK i \in 1..n : people[i] = s
    BY <1>1
  <2> QED
    BY <1>4, <1>8, <1>10, <2>1
<1> QED
  BY <1>5, <1>6, <1>7, <1>8, <1>11

Names(x) ==
  \/ x.do = "rule" /\ x.of \in Categories
  \/ x.do = "unit" /\ x.of \in Units
  \/ x.do \in {"identity", "entry"} /\ x.of \in Staff

\* Everything has its part in the script, and every rule comes before any unit.
LEMMA ScriptLists ==
  /\ Script \in Seq(Part) /\ Len(Script) \in Nat \ {0}
  /\ \A i \in 1..Len(Script) : Names(Script[i])
  /\ \A c \in Categories : \E i \in 1..Len(Script) :
       Script[i] = [do |-> "rule", of |-> c]
  /\ \A u \in Units : \E i \in 1..Len(Script) : Script[i] = [do |-> "unit", of |-> u]
  /\ \A what \in {"identity", "entry"}, s \in Staff : \E i \in 1..Len(Script) :
       Script[i] = [do |-> what, of |-> s]
  /\ \A k \in 1..Len(Script) : Script[k].do = "unit" =>
       \A c \in Categories : \E i \in 1..(k - 1) : Script[i] = [do |-> "rule", of |-> c]
<1> DEFINE a == Parts("rule", Categories)
           b == <<[do |-> "unit", of |-> "tenant"], [do |-> "unit", of |-> "root"]>>
           d == Parts("unit", Depts)
           e == StaffParts
           na == Len(a)
           nd == Len(d)
           ne == Len(e)
           ab == a \o b
           abd == ab \o d
<1>1. /\ a \in Seq(Part) /\ na \in Nat
      /\ \A i \in 1..na : a[i].do = "rule" /\ a[i].of \in Categories
      /\ \A x \in Categories : \E i \in 1..na : a[i] = [do |-> "rule", of |-> x]
  BY PartsLists, SeedAssumption
<1>2. /\ d \in Seq(Part) /\ nd \in Nat
      /\ \A i \in 1..nd : d[i].do = "unit" /\ d[i].of \in Depts
      /\ \A x \in Depts : \E i \in 1..nd : d[i] = [do |-> "unit", of |-> x]
  BY PartsLists, SeedAssumption DEF Units
<1>3. /\ e \in Seq(Part) /\ ne \in Nat
      /\ \A i \in 1..ne : e[i].do \in {"identity", "entry"} /\ e[i].of \in Staff
      /\ \A what \in {"identity", "entry"}, s \in Staff :
           \E i \in 1..ne : e[i] = [do |-> what, of |-> s]
  BY StaffPartsLists
<1>4. /\ b \in Seq(Part) /\ Len(b) = 2
      /\ b[1] = [do |-> "unit", of |-> "tenant"] /\ b[2] = [do |-> "unit", of |-> "root"]
  BY DEF Part, Units
<1>5. Script = ((a \o b) \o d) \o e
  BY DEF Script
<1> HIDE DEF a, b, d, e
<1>6. /\ ab \in Seq(Part) /\ Len(ab) = na + 2
      /\ \A i \in 1..(na + 2) : ab[i] = IF i <= na THEN a[i] ELSE b[i - na]
  <2>1. Joined(Part, a, b)
    BY <1>1, <1>4, JoinedSequences, Zenon
  <2> QED
    BY <1>1, <1>4, <2>1 DEF Joined
<1>7. /\ abd \in Seq(Part) /\ Len(abd) = na + 2 + nd
      /\ \A i \in 1..(na + 2 + nd) : abd[i] =
           IF i <= na + 2 THEN ab[i] ELSE d[i - (na + 2)]
  <2>1. Joined(Part, ab, d)
    BY <1>2, <1>6, JoinedSequences, Zenon
  <2> QED
    BY <1>2, <1>6, <2>1 DEF Joined
<1>8. /\ Script \in Seq(Part) /\ Len(Script) = na + 2 + nd + ne
      /\ \A i \in 1..(na + 2 + nd + ne) : Script[i] =
           IF i <= na + 2 + nd THEN abd[i] ELSE e[i - (na + 2 + nd)]
  <2>1. Joined(Part, abd, e)
    BY <1>3, <1>7, JoinedSequences, Zenon
  <2>2. Script = abd \o e
    BY <1>5
  <2> HIDE DEF ab, abd
  <2> QED
    BY <1>3, <1>7, <2>1, <2>2 DEF Joined
<1> HIDE DEF na, nd, ne, ab, abd
<1>0. na \in Nat /\ nd \in Nat /\ ne \in Nat
  BY <1>1, <1>2, <1>3
<1>9. /\ \A i \in 1..na : Script[i] = a[i]
      /\ Script[na + 1] = b[1] /\ Script[na + 2] = b[2]
      /\ \A i \in 1..nd : Script[na + 2 + i] = d[i]
      /\ \A i \in 1..ne : Script[na + 2 + nd + i] = e[i]
  <2>1. ASSUME NEW i \in 1..na PROVE Script[i] = a[i]
    <3>1. ab[i] = a[i]
      BY <1>0, <1>6
    <3>2. abd[i] = ab[i]
      BY <1>0, <1>7
    <3>3. Script[i] = abd[i]
      BY <1>0, <1>8
    <3> QED
      BY <3>1, <3>2, <3>3
  <2>2. Script[na + 1] = ab[na + 1] /\ Script[na + 2] = ab[na + 2]
    <3>1. abd[na + 1] = ab[na + 1] /\ abd[na + 2] = ab[na + 2]
      BY <1>0, <1>7
    <3>2. Script[na + 1] = abd[na + 1] /\ Script[na + 2] = abd[na + 2]
      BY <1>0, <1>8
    <3> QED
      BY <3>1, <3>2
  <2>3. ab[na + 1] = b[1] /\ ab[na + 2] = b[2]
    BY <1>0, <1>6
  <2>4. ASSUME NEW i \in 1..nd PROVE Script[na + 2 + i] = d[i]
    <3>1. Script[na + 2 + i] = abd[na + 2 + i]
      BY <1>0, <1>8
    <3> QED
      BY <1>0, <1>7, <3>1
  <2>5. ASSUME NEW i \in 1..ne PROVE Script[na + 2 + nd + i] = e[i]
    BY <1>0, <1>8
  <2> QED
    BY <2>1, <2>2, <2>3, <2>4, <2>5
<1>10. ASSUME NEW i \in 1..Len(Script)
       PROVE  \/ i \in 1..na /\ Script[i] = a[i]
              \/ i = na + 1 /\ Script[i] = b[1]
              \/ i = na + 2 /\ Script[i] = b[2]
              \/ i > na /\ \E j \in 1..nd : Script[i] = d[j]
              \/ i > na /\ \E j \in 1..ne : Script[i] = e[j]
  <2>1. CASE i \in 1..na
    BY <1>9, <2>1
  <2>2. CASE i = na + 1 \/ i = na + 2
    BY <1>9, <2>2
  <2>3. ASSUME NEW j \in 1..nd, i = na + 2 + j PROVE i > na /\ Script[i] = d[j]
    BY <1>0, <1>9, <2>3
  <2>4. ASSUME NEW j \in 1..ne, i = na + 2 + nd + j PROVE i > na /\ Script[i] = e[j]
    BY <1>0, <1>9, <2>4
  <2>5. \/ i \in 1..na \/ i = na + 1 \/ i = na + 2
        \/ i - (na + 2) \in 1..nd \/ i - (na + 2 + nd) \in 1..ne
    BY <1>0, <1>8
  <2>6. /\ i - (na + 2) \in 1..nd => \E j \in 1..nd : i = na + 2 + j
        /\ i - (na + 2 + nd) \in 1..ne => \E j \in 1..ne : i = na + 2 + nd + j
    <3>1. i \in Int
      BY <1>8
    <3>2. i = na + 2 + (i - (na + 2)) /\ i = na + 2 + nd + (i - (na + 2 + nd))
      BY <1>0, <3>1
    <3> QED
      BY <3>2
  <2> QED
    BY <2>1, <2>2, <2>3, <2>4, <2>5, <2>6
<1>11. ASSUME NEW i \in 1..Len(Script)
       PROVE  Names(Script[i])
  <2>1. ASSUME NEW j \in 1..na PROVE Names(a[j])
    BY <1>1, <2>1 DEF Names
  <2>2. Names(b[1]) /\ Names(b[2])
    BY <1>4 DEF Names, Units
  <2>3. ASSUME NEW j \in 1..nd PROVE Names(d[j])
    BY <1>2, <2>3 DEF Names, Units
  <2>4. ASSUME NEW j \in 1..ne PROVE Names(e[j])
    BY <1>3, <2>4 DEF Names
  <2> QED
    BY <1>10, <2>1, <2>2, <2>3, <2>4
<1>12. \A k \in 1..Len(Script) : Script[k].do = "unit" => k > na
  BY <1>0, <1>1, <1>10
<1>13. \A u \in Units : \E i \in 1..Len(Script) : Script[i] = [do |-> "unit", of |-> u]
  <2>1. \A i \in 1..nd : na + 2 + i \in 1..Len(Script)
    BY <1>1, <1>2, <1>3, <1>8
  <2>2. na + 1 \in 1..Len(Script) /\ na + 2 \in 1..Len(Script)
    BY <1>1, <1>2, <1>3, <1>8
  <2>3. ASSUME NEW u \in Depts
        PROVE  \E i \in 1..Len(Script) : Script[i] = [do |-> "unit", of |-> u]
    <3>1. PICK j \in 1..nd : d[j] = [do |-> "unit", of |-> u]
      BY <1>2
    <3>2. Script[na + 2 + j] = [do |-> "unit", of |-> u]
      BY <1>9, <3>1
    <3> QED
      BY <2>1, <3>2
  <2> QED
    BY <1>4, <1>9, <2>2, <2>3 DEF Units
<1>14. \A what \in {"identity", "entry"}, s \in Staff : \E i \in 1..Len(Script) :
         Script[i] = [do |-> what, of |-> s]
  <2>1. \A i \in 1..ne : na + 2 + nd + i \in 1..Len(Script)
    BY <1>1, <1>2, <1>3, <1>8
  <2> SUFFICES ASSUME NEW what \in {"identity", "entry"}, NEW s \in Staff
               PROVE  \E i \in 1..Len(Script) : Script[i] = [do |-> what, of |-> s]
    OBVIOUS
  <2>2. PICK j \in 1..ne : e[j] = [do |-> what, of |-> s]
    BY <1>3
  <2>3. Script[na + 2 + nd + j] = [do |-> what, of |-> s]
    BY <1>9, <2>2
  <2> QED
    BY <2>1, <2>3
<1>15. \A i \in 1..na : i \in 1..Len(Script)
  BY <1>1, <1>2, <1>3, <1>8
<1>16. \A c \in Categories : \E i \in 1..na : Script[i] = [do |-> "rule", of |-> c]
  BY <1>1, <1>9
<1>17. ASSUME NEW k \in 1..Len(Script), Script[k].do = "unit", NEW c \in Categories
       PROVE  \E i \in 1..(k - 1) : Script[i] = [do |-> "rule", of |-> c]
  <2>1. k > na /\ k \in Int
    BY <1>8, <1>12, <1>17
  <2>2. \A i \in 1..na : i \in 1..(k - 1)
    BY <1>1, <2>1
  <2> QED
    BY <1>16, <2>2
<1> QED
  <2>1. Len(Script) \in Nat \ {0}
    BY <1>1, <1>2, <1>3, <1>8
  <2> QED
    BY <1>8, <1>11, <1>13, <1>14, <1>15, <1>16, <1>17, <2>1

(***************************************************************************)
(* The seed: what a run has behind it is there.                            *)
(***************************************************************************)

\* What a part of the script creates is there.
Done(x) ==
  /\ x.do = "rule" => rules[x.of] > 0
  /\ x.do = "unit" => x.of \in units
  /\ x.do = "identity" => x.of \in identities
  /\ x.do = "entry" => entries[x.of] > 0
Current(p) == Script[line[p]]
Running(p) == line[p] > 0

\* Behind the line of a run everything is there, and what it has found is.
Behind(p) ==
  /\ \A k \in 1..Len(Script) : k < line[p] => Done(Script[k])
  /\ found[p] = "one" => Running(p) /\ Done(Current(p))
  /\ found[p] # "unread" => Running(p) /\ Current(p).do \in {"rule", "entry"}

SeedInv ==
  /\ SeedTypeOK
  /\ \A p \in Seeders : Behind(p)
  /\ finished => \A k \in 1..Len(Script) : Done(Script[k])
  /\ units # {} => \A c \in Categories : rules[c] > 0

\* Until two runs overlap there is one at most, and what it has not found is
\* not there.
OneRun ==
  /\ \A p, q \in Seeders : Running(p) /\ Running(q) => p = q
  /\ \A p \in Seeders : found[p] = "none" => ~Done(Current(p))
SoloInv == ~overlapped => OneRun /\ CopiesOnlyByOverlap

LEMMA CurrentNames ==
  ASSUME SeedTypeOK, NEW p \in Seeders, Running(p)
  PROVE  /\ line[p] \in 1..Len(Script) /\ Names(Current(p))
         /\ Current(p).do = "rule" => Current(p).of \in Categories
         /\ Current(p).do = "unit" => Current(p).of \in Units
         /\ Current(p).do \in {"identity", "entry"} => Current(p).of \in Staff
<1>1. line[p] \in 1..Len(Script)
  BY ScriptLists DEF SeedTypeOK, Running
<1> QED
  BY <1>1, ScriptLists DEF Current, Names

LEMMA AdvanceEffect ==
  ASSUME SeedTypeOK, NEW p \in Seeders, Running(p), Advance(p)
  PROVE  /\ line' \in [Seeders -> 0..Len(Script)]
         /\ found' \in [Seeders -> {"unread", "none", "one"}]
         /\ finished' \in BOOLEAN
         /\ line'[p] = IF line[p] = Len(Script) THEN 0 ELSE line[p] + 1
         /\ found'[p] = "unread"
         /\ \A q \in Seeders \ {p} : line'[q] = line[q] /\ found'[q] = found[q]
         /\ finished' <=> finished \/ line[p] = Len(Script)
         /\ UNCHANGED <<runs, overlapped>>
<1>1. line[p] \in 1..Len(Script) /\ Len(Script) \in Nat
  BY CurrentNames, ScriptLists
<1>2. line[p] + 1 > Len(Script) <=> line[p] = Len(Script)
  BY <1>1
<1>3. line' = [line EXCEPT ![p] = IF line[p] = Len(Script) THEN 0 ELSE line[p] + 1]
  BY <1>2 DEF Advance, AdvanceBy
<1>4. found' = [found EXCEPT ![p] = "unread"] /\ UNCHANGED <<runs, overlapped>>
  BY DEF Advance, AdvanceBy
<1>5. finished' <=> finished \/ line[p] = Len(Script)
  BY <1>2 DEF Advance, AdvanceBy
<1>6. finished' \in BOOLEAN
  BY Zenon DEF Advance, AdvanceBy
<1>7. (IF line[p] = Len(Script) THEN 0 ELSE line[p] + 1) \in 0..Len(Script)
  BY <1>1
<1> QED
  BY <1>3, <1>4, <1>5, <1>6, <1>7 DEF SeedTypeOK

\* The four commands that write: what the part creates is there, nothing is
\* lost, and the script goes on.
Writes(p) == WriteRule(p) \/ UpsertUnit(p) \/ UpsertIdentity(p) \/ WriteEntry(p)

LEMMA WriteEffect ==
  ASSUME SeedInv, NEW p \in Seeders, Writes(p), NEW x, x = Current(p)
  PROVE  /\ Running(p) /\ Advance(p) /\ Done(x)'
         /\ rules' \in [Categories -> Nat] /\ entries' \in [Staff -> Nat]
         /\ identities' \subseteq Staff /\ identities \subseteq identities'
         /\ units' = units \cup (IF x.do = "unit" THEN {x.of} ELSE {})
         /\ \A c \in Categories :
              \/ rules'[c] = rules[c]
              \/ x.do = "rule" /\ x.of = c /\ found[p] = "none" /\ rules'[c] = rules[c] + 1
         /\ \A s \in Staff :
              \/ entries'[s] = entries[s]
              \/ x.do = "entry" /\ x.of = s /\ found[p] = "none" /\ entries'[s] = entries[s] + 1
<1>1. /\ SeedTypeOK /\ Behind(p) /\ Running(p) /\ Advance(p) /\ Of(p) = x.of
      /\ \A what : At(p, what) => x.do = what
  BY DEF SeedInv, Writes, WriteRule, UpsertUnit, UpsertIdentity, WriteEntry, At, Of,
         Running, Current
<1>2. /\ x.do = "rule" => x.of \in Categories
      /\ x.do \in {"identity", "entry"} => x.of \in Staff
  BY <1>1, CurrentNames
<1>3. /\ rules \in [Categories -> Nat] /\ entries \in [Staff -> Nat]
      /\ identities \subseteq Staff /\ found[p] \in {"unread", "one", "none"}
      /\ found[p] = "one" => Done(x)
  BY <1>1 DEF SeedTypeOK, Behind
<1>4. CASE WriteRule(p)
  <2>1. x.do = "rule" /\ found[p] # "unread" /\ UNCHANGED <<units, identities, entries>>
    BY <1>1, <1>4 DEF WriteRule
  <2>2. CASE found[p] = "one"
    <3>1. rules' = rules
      BY <1>4, <2>2 DEF WriteRule
    <3> QED
      BY <1>1, <1>3, <2>1, <2>2, <3>1 DEF Done
  <2>3. CASE found[p] = "none"
    <3>1. rules' = [rules EXCEPT ![x.of] = rules[x.of] + 1]
      BY <1>1, <1>4, <2>3 DEF WriteRule
    <3> QED
      BY <1>1, <1>2, <1>3, <2>1, <2>3, <3>1 DEF Done
  <2> QED
    BY <1>3, <2>1, <2>2, <2>3
<1>5. CASE UpsertUnit(p)
  BY <1>1, <1>3, <1>5 DEF UpsertUnit, Done
<1>6. CASE UpsertIdentity(p)
  BY <1>1, <1>2, <1>3, <1>6 DEF UpsertIdentity, Done
<1>7. CASE WriteEntry(p)
  <2>1. x.do = "entry" /\ found[p] # "unread" /\ UNCHANGED <<rules, units, identities>>
    BY <1>1, <1>7 DEF WriteEntry
  <2>2. CASE found[p] = "one"
    <3>1. entries' = entries
      BY <1>7, <2>2 DEF WriteEntry
    <3> QED
      BY <1>1, <1>3, <2>1, <2>2, <3>1 DEF Done
  <2>3. CASE found[p] = "none"
    <3>1. entries' = [entries EXCEPT ![x.of] = entries[x.of] + 1]
      BY <1>1, <1>7, <2>3 DEF WriteEntry
    <3> QED
      BY <1>1, <1>2, <1>3, <2>1, <2>3, <3>1 DEF Done
  <2> QED
    BY <1>3, <2>1, <2>2, <2>3
<1> QED
  BY <1>4, <1>5, <1>6, <1>7 DEF Writes

\* What is there stays there.
LEMMA DoneStays ==
  ASSUME SeedInv, NEW p \in Seeders, Writes(p), NEW k \in 1..Len(Script), Done(Script[k])
  PROVE  Done(Script[k])'
<1> DEFINE y == Script[k]
<1>1. /\ y.do = "rule" => y.of \in Categories
      /\ y.do = "entry" => y.of \in Staff
  BY ScriptLists DEF Names
<1>2. PICK x : x = Current(p)
  OBVIOUS
<1>3. /\ \A c \in Categories : rules[c] \in Nat /\ rules'[c] \in {rules[c], rules[c] + 1}
      /\ \A s \in Staff : entries[s] \in Nat /\ entries'[s] \in {entries[s], entries[s] + 1}
      /\ units \subseteq units' /\ identities \subseteq identities'
  BY <1>2, WriteEffect DEF SeedInv, SeedTypeOK
<1> HIDE DEF y
<1>4. Done(y) => Done(y)'
  BY <1>1, <1>3 DEF Done
<1>5. Script' = Script
  OBVIOUS
<1> QED
  BY <1>4 DEF y

\* The three other steps of a run write nothing.
Reads(p) == FindRule(p) \/ FindEntry(p)

LEMMA ReadEffect ==
  ASSUME SeedTypeOK, NEW p \in Seeders, Reads(p)
  PROVE  /\ Running(p) /\ found[p] = "unread" /\ Current(p).do \in {"rule", "entry"}
         /\ UNCHANGED <<seeded, line, runs, overlapped, finished>>
         /\ found' = [found EXCEPT ![p] = IF Done(Current(p)) THEN "one" ELSE "none"]
<1>1. Running(p) /\ Of(p) = Current(p).of /\ \A what : At(p, what) => Current(p).do = what
  BY DEF Reads, FindRule, FindEntry, At, Of, Running, Current
<1>2. CASE FindRule(p)
  <2>1. Current(p).do = "rule" /\ Find(p, rules[Current(p).of] > 0)
    BY <1>1, <1>2 DEF FindRule
  <2>2. Done(Current(p)) <=> rules[Current(p).of] > 0
    BY <2>1 DEF Done
  <2> QED
    BY <1>1, <2>1, <2>2 DEF Find
<1>3. CASE FindEntry(p)
  <2>1. Current(p).do = "entry" /\ Find(p, entries[Current(p).of] > 0)
    BY <1>1, <1>3 DEF FindEntry
  <2>2. Done(Current(p)) <=> entries[Current(p).of] > 0
    BY <2>1 DEF Done
  <2> QED
    BY <1>1, <2>1, <2>2 DEF Find
<1> QED
  BY <1>2, <1>3 DEF Reads

LEMMA DoneRests ==
  ASSUME UNCHANGED seeded, NEW x
  PROVE  Done(x)' <=> Done(x)
  BY DEF seeded, Done

LEMMA SeedKinds ==
  ASSUME NEW p \in Seeders, SeedStep(p)
  PROVE  RunSeed(p) \/ Reads(p) \/ Writes(p) \/ SeedFails(p)
  BY DEF SeedStep, Reads, Writes

LEMMA SeedInvStep ==
  ASSUME SeedInv, NEW p \in Seeders, SeedStep(p)
  PROVE  SeedInv'
<1>0. SeedTypeOK /\ Len(Script) \in Nat \ {0} /\ MaxRuns \in Nat
  BY ScriptLists, SeedAssumption DEF SeedInv
<1>1. CASE RunSeed(p)
  <2>1. /\ line[p] = 0 /\ line' = [line EXCEPT ![p] = 1] /\ runs' = runs + 1
        /\ UNCHANGED <<seeded, found, finished>> /\ runs < MaxRuns
    BY <1>1 DEF RunSeed
  <2>2. overlapped' \in BOOLEAN
    BY <1>1, Zenon DEF RunSeed
  <2>3. SeedTypeOK'
    BY <1>0, <2>1, <2>2 DEF SeedTypeOK, seeded
  <2>4. found[p] = "unread"
    BY <1>0, <2>1 DEF SeedInv, Behind, Running, SeedTypeOK
  <2>5. ASSUME NEW q \in Seeders PROVE Behind(q)'
    <3>1. Behind(q)
      BY DEF SeedInv
    <3>2. CASE q = p
      <4>1. line'[q] = 1 /\ found'[q] = "unread"
        BY <1>0, <2>1, <2>4, <3>2 DEF SeedTypeOK
      <4> QED
        BY <4>1 DEF Behind
    <3>3. CASE q # p
      <4>1. line'[q] = line[q] /\ found'[q] = found[q]
        BY <1>0, <2>1, <3>3 DEF SeedTypeOK
      <4> QED
        BY <2>1, <3>1, <4>1, DoneRests DEF Behind, Running, Current
    <3> QED
      BY <3>2, <3>3
  <2>6. finished' => \A k \in 1..Len(Script) : Done(Script[k])'
    BY <2>1, DoneRests DEF SeedInv
  <2> QED
    BY <2>1, <2>3, <2>5, <2>6 DEF SeedInv, seeded
<1>2. CASE Reads(p)
  <2>1. /\ Running(p) /\ found[p] = "unread" /\ Current(p).do \in {"rule", "entry"}
        /\ UNCHANGED <<seeded, line, runs, overlapped, finished>>
        /\ found' = [found EXCEPT ![p] = IF Done(Current(p)) THEN "one" ELSE "none"]
    BY <1>0, <1>2, ReadEffect
  <2>2. SeedTypeOK'
    BY <1>0, <2>1 DEF SeedTypeOK, seeded
  <2>3. ASSUME NEW q \in Seeders PROVE Behind(q)'
    <3>1. Behind(q) /\ line'[q] = line[q] /\ Current(q)' = Current(q)
      BY <2>1 DEF SeedInv, Current
    <3>2. CASE q = p
      <4>1. found'[q] = "one" => Done(Current(q))
        BY <1>0, <2>1, <3>2 DEF SeedTypeOK
      <4> QED
        BY <2>1, <3>1, <3>2, <4>1, DoneRests DEF Behind, Running, Current
    <3>3. CASE q # p
      <4>1. found'[q] = found[q]
        BY <1>0, <2>1, <3>3 DEF SeedTypeOK
      <4> QED
        BY <2>1, <3>1, <4>1, DoneRests DEF Behind, Running, Current
    <3> QED
      BY <3>2, <3>3
  <2>4. finished' => \A k \in 1..Len(Script) : Done(Script[k])'
    BY <2>1, DoneRests DEF SeedInv
  <2> QED
    BY <2>1, <2>2, <2>3, <2>4 DEF SeedInv, seeded
<1>3. CASE SeedFails(p)
  <2>1. /\ line' = [line EXCEPT ![p] = 0] /\ found' = [found EXCEPT ![p] = "unread"]
        /\ UNCHANGED <<seeded, runs, overlapped, finished>>
    BY <1>3 DEF SeedFails
  <2>2. SeedTypeOK'
    BY <1>0, <2>1 DEF SeedTypeOK, seeded
  <2>3. ASSUME NEW q \in Seeders PROVE Behind(q)'
    <3>1. Behind(q)
      BY DEF SeedInv
    <3>2. CASE q = p
      <4>1. line'[q] = 0 /\ found'[q] = "unread"
        BY <1>0, <2>1, <3>2 DEF SeedTypeOK
      <4> QED
        BY <4>1 DEF Behind
    <3>3. CASE q # p
      <4>1. line'[q] = line[q] /\ found'[q] = found[q]
        BY <1>0, <2>1, <3>3 DEF SeedTypeOK
      <4> QED
        BY <2>1, <3>1, <4>1, DoneRests DEF Behind, Running, Current
    <3> QED
      BY <3>2, <3>3
  <2>4. finished' => \A k \in 1..Len(Script) : Done(Script[k])'
    BY <2>1, DoneRests DEF SeedInv
  <2> QED
    BY <2>1, <2>2, <2>3, <2>4 DEF SeedInv, seeded
<1>4. CASE Writes(p)
  <2> DEFINE n == line[p]
  <2>0. PICK x : x = Current(p)
    OBVIOUS
  <2>1. /\ Running(p) /\ Advance(p) /\ Done(x)'
        /\ rules' \in [Categories -> Nat] /\ entries' \in [Staff -> Nat]
        /\ identities' \subseteq Staff
        /\ units' = units \cup (IF x.do = "unit" THEN {x.of} ELSE {})
    BY <1>4, <2>0, WriteEffect
  <2>3. n \in 1..Len(Script)
    BY <1>0, <2>1, CurrentNames
  <2>4. /\ line' \in [Seeders -> 0..Len(Script)]
        /\ found' \in [Seeders -> {"unread", "none", "one"}]
        /\ finished' \in BOOLEAN
        /\ line'[p] = IF n = Len(Script) THEN 0 ELSE n + 1
        /\ found'[p] = "unread"
        /\ \A q \in Seeders \ {p} : line'[q] = line[q] /\ found'[q] = found[q]
        /\ finished' <=> finished \/ n = Len(Script)
        /\ UNCHANGED <<runs, overlapped>>
    BY <1>0, <2>1, AdvanceEffect
  <2>5. SeedTypeOK'
    BY <1>0, <2>0, <2>1, <2>4, CurrentNames DEF SeedTypeOK
  <2>6. \A k \in 1..Len(Script) : Done(Script[k]) => Done(Script[k])'
    BY <1>4, DoneStays
  <2>7. ASSUME NEW k \in 1..Len(Script), k = n PROVE Done(Script[k])'
    BY <2>0, <2>1, <2>7 DEF Current, Done
  <2>8. ASSUME NEW k \in 1..Len(Script), k <= n PROVE Done(Script[k])'
    <3>1. CASE k = n
      BY <2>7, <3>1
    <3>2. CASE k < n
      <4>1. Done(Script[k])
        BY <3>2 DEF SeedInv, Behind
      <4> QED
        BY <2>6, <4>1
    <3> QED
      BY <1>0, <2>3, <2>8, <3>1, <3>2
  <2> HIDE DEF n
  <2>9. ASSUME NEW q \in Seeders PROVE Behind(q)'
    <3>1. Behind(q)
      BY DEF SeedInv
    <3>2. CASE q = p
      <4>1. ASSUME NEW k \in 1..Len(Script), k < line'[q] PROVE Done(Script[k])'
        BY <1>0, <2>3, <2>4, <2>8, <3>2, <4>1
      <4> QED
        BY <2>4, <3>2, <4>1 DEF Behind
    <3>3. CASE q # p
      <4>1. line'[q] = line[q] /\ found'[q] = found[q]
        BY <2>4, <3>3
      <4>2. Running(q) => line[q] \in 1..Len(Script)
        BY <1>0, CurrentNames
      <4>3. ASSUME Running(q), Done(Current(q)) PROVE Done(Current(q))'
        <5>1. PICK k \in 1..Len(Script) : k = line[q]
          BY <4>2, <4>3
        <5>2. Done(Script[k])'
          BY <2>6, <4>3, <5>1 DEF Current
        <5> QED
          BY <4>1, <5>1, <5>2 DEF Current, Done
      <4>4. \A k \in 1..Len(Script) : k < line'[q] => Done(Script[k])'
        BY <2>6, <3>1, <4>1 DEF Behind
      <4>5. Running(q)' <=> Running(q)
        BY <4>1 DEF Running
      <4>6. Current(q)' = Current(q)
        BY <4>1 DEF Current
      <4>7. /\ found'[q] = "one" => Running(q)' /\ Done(Current(q))'
            /\ found'[q] # "unread" => Running(q)' /\ Current(q)'.do \in {"rule", "entry"}
        BY <3>1, <4>1, <4>3, <4>5, <4>6 DEF Behind
      <4> QED
        BY <4>4, <4>7 DEF Behind
    <3> QED
      BY <3>2, <3>3
  <2>10. finished' => \A k \in 1..Len(Script) : Done(Script[k])'
    <3>1. CASE finished
      BY <2>6, <3>1 DEF SeedInv
    <3>2. CASE n = Len(Script)
      BY <1>0, <2>8, <3>2
    <3> QED
      BY <2>4, <3>1, <3>2
  <2>11. ASSUME units' # {}, NEW c \in Categories PROVE rules'[c] > 0
    <3>1. rules[c] \in Nat /\ rules'[c] \in {rules[c], rules[c] + 1}
      BY <1>0, <1>4, <2>0, WriteEffect DEF SeedTypeOK
    <3>2. CASE units # {}
      BY <3>1, <3>2 DEF SeedInv
    <3>3. CASE x.do = "unit"
      <4>1. PICK k \in 1..(n - 1) : Script[k] = [do |-> "rule", of |-> c]
        BY <2>0, <2>3, <3>3, ScriptLists DEF Current, n
      <4>2. k \in 1..Len(Script) /\ k < n
        BY <1>0, <2>3
      <4>3. Done(Script[k])
        BY <4>2 DEF SeedInv, Behind, n
      <4> QED
        BY <3>1, <4>1, <4>3 DEF Done
    <3> QED
      BY <2>1, <2>11, <3>2, <3>3
  <2> QED
    BY <2>5, <2>9, <2>10, <2>11 DEF SeedInv
<1> QED
  BY <1>1, <1>2, <1>3, <1>4, SeedKinds

LEMMA SoloInvStep ==
  ASSUME SeedInv, SoloInv, NEW p \in Seeders, SeedStep(p)
  PROVE  SoloInv'
<1> SUFFICES ASSUME ~overlapped' PROVE OneRun' /\ CopiesOnlyByOverlap'
  BY DEF SoloInv
<1>0. SeedTypeOK /\ Len(Script) \in Nat \ {0}
  BY ScriptLists DEF SeedInv
<1>1. ~overlapped
  BY SeedKinds DEF RunSeed, Reads, FindRule, FindEntry, Find, Writes, WriteRule,
     UpsertUnit, UpsertIdentity, WriteEntry, Advance, AdvanceBy, SeedFails
<1>2. /\ OneRun
      /\ \A c \in Categories : rules[c] <= 1
      /\ \A s \in Staff : entries[s] <= 1
  BY <1>1 DEF SoloInv, CopiesOnlyByOverlap
<1>3. ASSUME UNCHANGED seeded PROVE CopiesOnlyByOverlap'
  BY <1>1, <1>3 DEF seeded, SoloInv, CopiesOnlyByOverlap
<1>4. ASSUME UNCHANGED seeded, line' = [line EXCEPT ![p] = 0],
             found' = [found EXCEPT ![p] = "unread"]
      PROVE  OneRun'
  <2>1. /\ \A q \in Seeders \ {p} : line'[q] = line[q] /\ found'[q] = found[q]
        /\ line'[p] = 0 /\ found'[p] = "unread"
    BY <1>0, <1>4 DEF SeedTypeOK
  <2> QED
    BY <1>2, <1>4, <2>1, DoneRests DEF OneRun, Running, Current
<1>5. CASE RunSeed(p)
  <2>0. ~ \E q \in Seeders : line[q] > 0
    BY <1>5, Zenon DEF RunSeed
  <2>1. /\ \A q \in Seeders : line[q] = 0
        /\ UNCHANGED <<seeded, found>> /\ line' = [line EXCEPT ![p] = 1]
    BY <1>0, <1>5, <2>0 DEF RunSeed, SeedTypeOK
  <2>2. \A q \in Seeders : found'[q] = "unread"
    BY <1>0, <2>1 DEF SeedInv, Behind, Running, SeedTypeOK
  <2>3. \A q \in Seeders \ {p} : line'[q] = 0
    BY <1>0, <2>1 DEF SeedTypeOK
  <2> QED
    BY <1>3, <2>1, <2>2, <2>3 DEF OneRun, Running
<1>6. CASE Reads(p)
  <2>1. /\ UNCHANGED <<seeded, line>>
        /\ found' = [found EXCEPT ![p] = IF Done(Current(p)) THEN "one" ELSE "none"]
    BY <1>0, <1>6, ReadEffect
  <2>2. ASSUME NEW q \in Seeders, found'[q] = "none" PROVE ~Done(Current(q))'
    <3>1. ~Done(Current(q))
      BY <1>0, <1>2, <2>1, <2>2 DEF OneRun, SeedTypeOK
    <3>2. Current(q)' = Current(q)
      BY <2>1 DEF Current
    <3> QED
      BY <2>1, <3>1, <3>2 DEF Done, seeded
  <2> QED
    BY <1>2, <1>3, <2>1, <2>2 DEF OneRun, Running
<1>7. CASE SeedFails(p)
  BY <1>3, <1>4, <1>7 DEF SeedFails
<1>8. CASE Writes(p)
  <2>0. PICK x : x = Current(p)
    OBVIOUS
  <2>1. /\ Running(p) /\ Advance(p)
        /\ \A c \in Categories :
             \/ rules'[c] = rules[c]
             \/ x.do = "rule" /\ x.of = c /\ found[p] = "none" /\ rules'[c] = rules[c] + 1
        /\ \A s \in Staff :
             \/ entries'[s] = entries[s]
             \/ x.do = "entry" /\ x.of = s /\ found[p] = "none" /\ entries'[s] = entries[s] + 1
    BY <1>8, <2>0, WriteEffect
  <2>2. found[p] = "none" => ~Done(x)
    BY <1>2, <2>0 DEF OneRun
  <2>3. /\ \A c \in Categories : rules[c] \in Nat
        /\ \A s \in Staff : entries[s] \in Nat
    BY <1>0 DEF SeedTypeOK
  <2>4. x.do = "rule" \/ x.do = "entry" => ~(x.do = "rule" /\ x.do = "entry")
    OBVIOUS
  <2>5. ASSUME NEW c \in Categories PROVE rules'[c] <= 1
    BY <1>2, <2>1, <2>2, <2>3 DEF Done
  <2>6. ASSUME NEW s \in Staff PROVE entries'[s] <= 1
    <3>1. CASE entries'[s] = entries[s]
      BY <1>2, <3>1
    <3>2. CASE x.do = "entry" /\ x.of = s /\ found[p] = "none" /\ entries'[s] = entries[s] + 1
      <4>1. ~(entries[s] > 0)
        BY <2>2, <3>2 DEF Done
      <4> QED
        BY <2>3, <3>2, <4>1
    <3> QED
      BY <2>1, <3>1, <3>2
  <2>7. /\ \A q \in Seeders \ {p} : line'[q] = line[q] /\ found'[q] = found[q]
        /\ found'[p] = "unread"
    BY <1>0, <2>1, AdvanceEffect
  <2>8. ASSUME NEW q \in Seeders, q # p PROVE line'[q] = 0 /\ found'[q] = "unread"
    <3>1. ~Running(q)
      BY <1>2, <2>1, <2>8 DEF OneRun
    <3> QED
      BY <1>0, <2>7, <2>8, <3>1 DEF SeedInv, Behind, Running, SeedTypeOK
  <2> QED
    BY <2>5, <2>6, <2>7, <2>8 DEF OneRun, Running, CopiesOnlyByOverlap
<1> QED
  BY <1>3, <1>4, <1>5, <1>6, <1>7, <1>8, SeedKinds

LEMMA SeedRests ==
  ASSUME UNCHANGED seedVars
  PROVE  (SeedInv => SeedInv') /\ (SoloInv => SoloInv')
  BY DEF seedVars, SeedInv, SeedTypeOK, Behind, Running, Current, Done, SoloInv, OneRun,
     CopiesOnlyByOverlap

LEMMA SeedNext ==
  ASSUME [Next]_vars
  PROVE  (\E p \in Seeders : SeedStep(p)) \/ UNCHANGED seedVars
  BY DEF Next, ConfigureRule, DocStep, FindIdentity, PutObject, LookUpDays, InsertRow,
     UploadFails, vars

LEMMA InitSeed == Init => SeedInv /\ SoloInv
<1> SUFFICES ASSUME Init PROVE SeedInv /\ SoloInv
  OBVIOUS
<1>1. SeedTypeOK
  <2>1. Len(Script) \in Nat /\ MaxRuns \in Nat
    BY ScriptLists, SeedAssumption
  <2>2. 0 \in 0..Len(Script) /\ 0 \in 0..MaxRuns
    BY <2>1
  <2> QED
    BY <2>2 DEF Init, SeedInit, SeedTypeOK
<1>2. \A p \in Seeders : ~Running(p) /\ found[p] = "unread" /\ line[p] = 0
  BY DEF Init, SeedInit, Running
<1>3. \A p \in Seeders : Behind(p)
  BY <1>2, ScriptLists DEF Behind
<1>4. OneRun /\ CopiesOnlyByOverlap
  BY <1>2 DEF OneRun, CopiesOnlyByOverlap, Init, SeedInit
<1> QED
  BY <1>1, <1>3, <1>4 DEF SeedInv, SoloInv, Init, SeedInit

\* Wherever runs of the script have ended, all that is behind a run is there.
THEOREM SeedIsBehind == Spec => []SeedInv
<1>1. SeedInv /\ [Next]_vars => SeedInv'
  BY SeedNext, SeedInvStep, SeedRests
<1> QED
  BY <1>1, InitSeed, PTL DEF Spec

\* A rule or an entry is there twice only when two runs have overlapped.
THEOREM CopiesNeedOverlap == Spec => []CopiesOnlyByOverlap
<1>1. SeedInv /\ SoloInv /\ [Next]_vars => SoloInv'
  BY SeedNext, SoloInvStep, SeedRests
<1>2. SoloInv => CopiesOnlyByOverlap
  BY DEF SoloInv, CopiesOnlyByOverlap
<1> QED
  BY <1>1, <1>2, InitSeed, SeedIsBehind, PTL DEF Spec

\* A run that comes to its end leaves the whole installation in place.
THEOREM FinishedRunsAreComplete == Spec => []FinishedIsComplete
<1>1. SeedInv => FinishedIsComplete
  <2> SUFFICES ASSUME SeedInv, finished PROVE FinishedIsComplete
    BY DEF FinishedIsComplete
  <2>1. \A k \in 1..Len(Script) : Done(Script[k])
    BY DEF SeedInv
  <2>2. ASSUME NEW u \in Units PROVE u \in units
    <3>1. PICK k \in 1..Len(Script) : Script[k] = [do |-> "unit", of |-> u]
      BY ScriptLists
    <3> QED
      BY <2>1, <3>1 DEF Done
  <2>3. ASSUME NEW s \in Staff PROVE s \in identities /\ entries[s] > 0
    <3>1. PICK k \in 1..Len(Script) : Script[k] = [do |-> "identity", of |-> s]
      BY ScriptLists
    <3>2. PICK j \in 1..Len(Script) : Script[j] = [do |-> "entry", of |-> s]
      BY ScriptLists
    <3>3. Done(Script[k]) /\ Done(Script[j])
      BY <2>1
    <3> QED
      BY <3>1, <3>2, <3>3 DEF Done
  <2>4. ASSUME NEW c \in Categories PROVE rules[c] > 0
    <3>1. PICK k \in 1..Len(Script) : Script[k] = [do |-> "rule", of |-> c]
      BY ScriptLists
    <3> QED
      BY <2>1, <3>1 DEF Done
  <2> QED
    BY <2>2, <2>3, <2>4 DEF FinishedIsComplete, SeedInv, SeedTypeOK
<1> QED
  BY <1>1, SeedIsBehind, PTL

(***************************************************************************)
(* The document store.                                                     *)
(***************************************************************************)

\* What an upload in progress knows is so.
UploadInv(u) ==
  /\ upload[u].at = "idle" => upload[u] = Idle
  /\ upload[u].at = "put" => upload[u].doc = None
  /\ upload[u].at # "idle" => upload[u].on \in Ids
  /\ upload[u].at \in {"rule", "row"} =>
       upload[u].doc \in Docs /\ objects[upload[u].doc] = upload[u].on
  /\ upload[u].at = "row" => upload[u].days \in {Year, TenantDays}

\* Each row is of the guest in the key.
RowsMatch == \A d \in Docs : rows[d] # None => objects[d] = rows[d].subject
Recorded ==
  \A d \in Docs : objects[d] # None /\ rows[d] = None =>
    d \in cut \/ \E u \in Uploads : upload[u].doc = d

DocInv ==
  /\ TypeOK
  /\ \A u \in Uploads : UploadInv(u)
  /\ RowsMatch /\ Recorded

LEMMA DocInvImplies == DocInv => StoredAndRecorded
<1> SUFFICES ASSUME DocInv PROVE StoredAndRecorded
  OBVIOUS
<1>1. ASSUME NEW i \in Ids, NEW d \in Listed(i) PROVE objects[SignedUrl(i, d)] = i
  BY DEF DocInv, RowsMatch, Listed, SignedUrl
<1> QED
  BY <1>1 DEF StoredAndRecorded, DocInv, Recorded

UploadTypes ==
  [at : {"idle", "put", "rule", "row"}, on : Ids \cup {None},
   doc : Docs \cup {None}, days : {Year, TenantDays, None}]

\* A step of one upload: the others keep what they know, if objects stay.
LEMMA UploadStep ==
  ASSUME DocInv, NEW u \in Uploads, NEW r \in UploadTypes,
         upload' = [upload EXCEPT ![u] = r],
         \A d \in Docs : objects[d] # None => objects'[d] = objects[d],
         UploadInv(u)'
  PROVE  /\ upload' \in [Uploads -> UploadTypes]
         /\ \A v \in Uploads : UploadInv(v)'
<1>1. upload \in [Uploads -> UploadTypes]
  BY DEF DocInv, TypeOK, UploadTypes
<1>2. upload' \in [Uploads -> UploadTypes]
  BY <1>1
<1>3. ASSUME NEW v \in Uploads, v # u PROVE UploadInv(v)'
  <2>1. upload'[v] = upload[v] /\ UploadInv(v)
    BY <1>1, <1>3 DEF DocInv
  <2>2. upload[v].at \in {"rule", "row"} => objects'[upload[v].doc] = upload[v].on
    BY <2>1, DocumentAssumption DEF UploadInv
  <2> QED
    BY <2>1, <2>2 DEF UploadInv
<1> QED
  BY <1>2, <1>3

LEMMA UnitsStay ==
  ASSUME SeedInv, NEW p \in Seeders, SeedStep(p)
  PROVE  units \subseteq units'
<1>1. CASE Writes(p)
  <2>1. PICK x : x = Current(p)
    OBVIOUS
  <2> QED
    BY <1>1, <2>1, WriteEffect
<1>2. CASE RunSeed(p) \/ Reads(p) \/ SeedFails(p)
  BY <1>2 DEF RunSeed, Reads, FindRule, FindEntry, Find, SeedFails, seeded
<1> QED
  BY <1>1, <1>2, SeedKinds

LEMMA DocInvSeedStep ==
  ASSUME SeedInv, DocInv, NEW p \in Seeders, SeedStep(p), UNCHANGED docVars
  PROVE  DocInv'
<1>1. SeedTypeOK' /\ units \subseteq units'
  BY SeedInvStep, UnitsStay DEF SeedInv
<1>2. UNCHANGED <<objects, rows, tenantRule, upload, cut, faults>>
  BY DEF docVars
<1>3. TypeOK'
  BY <1>1, <1>2 DEF DocInv, TypeOK
<1>4. \A u \in Uploads : UploadInv(u)'
  BY <1>2 DEF DocInv, UploadInv
<1>5. RowsMatch' /\ Recorded'
  BY <1>2 DEF DocInv, RowsMatch, Recorded
<1> QED
  BY <1>1, <1>2, <1>3, <1>4, <1>5 DEF DocInv

LEMMA DocInvFind ==
  ASSUME DocInv, NEW u \in Uploads, NEW user \in Ids \cup {None}, NEW i \in Ids,
         FindIdentity(u, user, i)
  PROVE  DocInv'
<1> DEFINE r == [upload[u] EXCEPT !.at = "put", !.on = Effective(user, i)]
<1>1. /\ upload[u] = Idle /\ upload' = [upload EXCEPT ![u] = r]
      /\ UNCHANGED <<seedVars, objects, rows, tenantRule, cut, faults>>
  BY DEF FindIdentity
<1>2. Effective(user, i) \in Ids
  BY DEF Effective
<1>3. Idle \in UploadTypes /\ Idle.doc = None
  BY DEF UploadTypes, Idle
<1>4. r \in UploadTypes /\ r.at = "put" /\ r.on = Effective(user, i) /\ r.doc = None
  BY <1>1, <1>2, <1>3 DEF UploadTypes
<1> HIDE DEF r
<1>5. upload'[u] = r
  BY <1>1 DEF DocInv, TypeOK
<1>6. UploadInv(u)'
  BY <1>2, <1>4, <1>5 DEF UploadInv
<1>7. upload' \in [Uploads -> UploadTypes] /\ \A v \in Uploads : UploadInv(v)'
  BY <1>1, <1>4, <1>6, UploadStep
<1>8. Recorded'
  <2>1. \A v \in Uploads : upload[v].doc # None => upload'[v] = upload[v]
    BY <1>1 DEF Idle, DocInv, TypeOK
  <2>2. \A d \in Docs : d # None
    BY DocumentAssumption
  <2> QED
    BY <1>1, <2>1, <2>2 DEF DocInv, Recorded
<1>9. SeedTypeOK'
  BY <1>1 DEF DocInv, TypeOK, SeedTypeOK, seedVars
<1> QED
  BY <1>1, <1>7, <1>8, <1>9 DEF DocInv, TypeOK, UploadTypes, RowsMatch, seedVars

LEMMA DocInvPut ==
  ASSUME DocInv, NEW u \in Uploads, NEW d \in Docs, PutObject(u, d)
  PROVE  DocInv'
<1> DEFINE r == [upload[u] EXCEPT !.at = "rule", !.doc = d]
<1>1. /\ upload[u].at = "put" /\ objects[d] = None
      /\ objects' = [objects EXCEPT ![d] = upload[u].on]
      /\ upload' = [upload EXCEPT ![u] = r]
      /\ UNCHANGED <<seedVars, rows, tenantRule, cut, faults>>
  BY DEF PutObject
<1>2. UploadInv(u) /\ upload[u] \in UploadTypes
  BY DEF DocInv, TypeOK, UploadTypes
<1>3. upload[u].on \in Ids /\ upload[u].doc = None
  BY <1>1, <1>2 DEF UploadInv
<1>4. r \in UploadTypes /\ r.at = "rule" /\ r.on = upload[u].on /\ r.doc = d
  BY <1>2 DEF UploadTypes
<1> HIDE DEF r
<1>5. upload'[u] = r
  BY <1>1 DEF DocInv, TypeOK
<1>6. objects \in [Docs -> Ids \cup {None}]
  BY DEF DocInv, TypeOK
<1>7. /\ objects' \in [Docs -> Ids \cup {None}] /\ objects'[d] = upload[u].on
      /\ \A e \in Docs : e # d => objects'[e] = objects[e]
  BY <1>1, <1>3, <1>6
<1>8. UploadInv(u)'
  BY <1>3, <1>4, <1>5, <1>7 DEF UploadInv
<1>9. \A e \in Docs : objects[e] # None => objects'[e] = objects[e]
  BY <1>1, <1>7
<1>10. upload' \in [Uploads -> UploadTypes] /\ \A v \in Uploads : UploadInv(v)'
  BY <1>1, <1>4, <1>8, <1>9, UploadStep
<1>11. rows[d] = None
  BY <1>1, DocumentAssumption DEF DocInv, RowsMatch, TypeOK, Row
<1>12. RowsMatch'
  BY <1>1, <1>7, <1>11 DEF DocInv, RowsMatch
<1>13. Recorded'
  <2>1. \A v \in Uploads : upload[v].doc # None => upload'[v] = upload[v]
    BY <1>1, <1>3 DEF DocInv, TypeOK
  <2>2. \A e \in Docs : e # None
    BY DocumentAssumption
  <2>3. upload'[u].doc = d
    BY <1>4, <1>5
  <2> QED
    BY <1>1, <1>7, <2>1, <2>2, <2>3 DEF DocInv, Recorded
<1>14. SeedTypeOK'
  BY <1>1 DEF DocInv, TypeOK, SeedTypeOK, seedVars
<1> QED
  BY <1>1, <1>7, <1>10, <1>12, <1>13, <1>14
  DEF DocInv, TypeOK, UploadTypes, seedVars

LEMMA DocInvLookUp ==
  ASSUME DocInv, NEW u \in Uploads, LookUpDays(u)
  PROVE  DocInv'
<1> DEFINE r == [upload[u] EXCEPT !.at = "row", !.days = RetentionDays]
<1>1. /\ upload[u].at = "rule" /\ upload' = [upload EXCEPT ![u] = r]
      /\ UNCHANGED <<seedVars, objects, rows, tenantRule, cut, faults>>
  BY DEF LookUpDays
<1>2. RetentionDays \in {Year, TenantDays}
  BY DEF RetentionDays
<1>3. UploadInv(u) /\ upload[u] \in UploadTypes
  BY DEF DocInv, TypeOK, UploadTypes
<1>4. r \in UploadTypes /\ r.at = "row" /\ r.on = upload[u].on
      /\ r.doc = upload[u].doc /\ r.days \in {Year, TenantDays}
  BY <1>2, <1>3 DEF UploadTypes
<1> HIDE DEF r
<1>5. upload'[u] = r
  BY <1>1 DEF DocInv, TypeOK
<1>6. UploadInv(u)'
  BY <1>1, <1>3, <1>4, <1>5 DEF UploadInv
<1>7. upload' \in [Uploads -> UploadTypes] /\ \A v \in Uploads : UploadInv(v)'
  BY <1>1, <1>4, <1>6, UploadStep
<1>8. \A v \in Uploads : upload'[v].doc = upload[v].doc
  BY <1>1, <1>4 DEF DocInv, TypeOK
<1>9. Recorded'
  BY <1>1, <1>8 DEF DocInv, Recorded
<1>10. SeedTypeOK'
  BY <1>1 DEF DocInv, TypeOK, SeedTypeOK, seedVars
<1> QED
  BY <1>1, <1>7, <1>9, <1>10 DEF DocInv, TypeOK, UploadTypes, RowsMatch, seedVars

LEMMA DocInvInsert ==
  ASSUME DocInv, NEW u \in Uploads, InsertRow(u)
  PROVE  DocInv'
<1> DEFINE k == upload[u].doc
           w == [subject |-> upload[u].on, days |-> upload[u].days]
<1>1. /\ upload[u].at = "row" /\ rows' = [rows EXCEPT ![k] = w]
      /\ upload' = [upload EXCEPT ![u] = Idle]
      /\ UNCHANGED <<seedVars, objects, tenantRule, cut, faults>>
  BY DEF InsertRow
<1>2. UploadInv(u) /\ upload \in [Uploads -> UploadTypes]
  BY DEF DocInv, TypeOK, UploadTypes
<1>3. /\ k \in Docs /\ objects[k] = upload[u].on /\ upload[u].on \in Ids
      /\ upload[u].days \in {Year, TenantDays}
  BY <1>1, <1>2 DEF UploadInv
<1>4. w \in Row /\ w # None /\ w.subject = objects[k]
  <2>1. w \in Row /\ w.subject = objects[k]
    BY <1>3 DEF Row
  <2> QED
    BY <2>1, DocumentAssumption
<1> HIDE DEF w, k
<1>5. rows' \in [Docs -> Row \cup {None}] /\ rows'[k] = w
      /\ \A e \in Docs : e # k => rows'[e] = rows[e]
  BY <1>1, <1>3, <1>4 DEF DocInv, TypeOK
<1>6. Idle \in UploadTypes /\ upload'[u] = Idle
  BY <1>1, <1>2 DEF UploadTypes, Idle
<1>7. UploadInv(u)'
  BY <1>6 DEF UploadInv, Idle
<1>8. upload' \in [Uploads -> UploadTypes] /\ \A v \in Uploads : UploadInv(v)'
  BY <1>1, <1>6, <1>7, UploadStep
<1>9. RowsMatch'
  BY <1>1, <1>3, <1>4, <1>5 DEF DocInv, RowsMatch
<1>10. Recorded'
  <2>1. \A v \in Uploads : upload[v].doc # k => upload'[v] = upload[v] \/ v = u
    BY <1>1, <1>2
  <2>2. ASSUME NEW e \in Docs, objects'[e] # None, rows'[e] = None
        PROVE  e \in cut' \/ \E v \in Uploads : upload'[v].doc = e
    <3>1. e # k /\ rows[e] = None
      BY <1>4, <1>5, <2>2
    <3>2. e \in cut \/ \E v \in Uploads : upload[v].doc = e
      BY <1>1, <2>2, <3>1 DEF DocInv, Recorded
    <3>3. upload[u].doc # e
      BY <3>1 DEF k
    <3> QED
      BY <1>1, <1>2, <3>2, <3>3
  <2> QED
    BY <2>2 DEF Recorded
<1>11. SeedTypeOK'
  BY <1>1 DEF DocInv, TypeOK, SeedTypeOK, seedVars
<1> QED
  BY <1>1, <1>5, <1>8, <1>9, <1>10, <1>11 DEF DocInv, TypeOK, UploadTypes, seedVars

LEMMA DocInvFails ==
  ASSUME DocInv, NEW u \in Uploads, UploadFails(u)
  PROVE  DocInv'
<1>1. /\ faults < MaxFaults /\ faults' = faults + 1
      /\ upload' = [upload EXCEPT ![u] = Idle]
      /\ cut' = cut \cup ({upload[u].doc} \ {None})
      /\ UNCHANGED <<seedVars, objects, rows, tenantRule>>
  BY DEF UploadFails
<1>2. upload \in [Uploads -> UploadTypes] /\ upload[u] \in UploadTypes
  BY DEF DocInv, TypeOK, UploadTypes
<1>3. Idle \in UploadTypes /\ upload'[u] = Idle
  BY <1>1, <1>2 DEF UploadTypes, Idle
<1>4. UploadInv(u)'
  BY <1>3 DEF UploadInv, Idle
<1>5. upload' \in [Uploads -> UploadTypes] /\ \A v \in Uploads : UploadInv(v)'
  BY <1>1, <1>3, <1>4, UploadStep
<1>6. cut' \subseteq Docs /\ faults' \in 0..MaxFaults
  BY <1>1, <1>2, DocumentAssumption DEF DocInv, TypeOK, UploadTypes
<1>7. Recorded'
  <2>1. ASSUME NEW e \in Docs, objects'[e] # None, rows'[e] = None
        PROVE  e \in cut' \/ \E v \in Uploads : upload'[v].doc = e
    <3>1. e # None
      BY DocumentAssumption
    <3>2. e \in cut \/ \E v \in Uploads : upload[v].doc = e
      BY <1>1, <2>1 DEF DocInv, Recorded
    <3>3. CASE e \in cut \/ upload[u].doc = e
      BY <1>1, <3>1, <3>3
    <3>4. CASE \E v \in Uploads \ {u} : upload[v].doc = e
      BY <1>1, <1>2, <3>4
    <3> QED
      BY <3>2, <3>3, <3>4
  <2> QED
    BY <2>1 DEF Recorded
<1>8. SeedTypeOK'
  BY <1>1 DEF DocInv, TypeOK, SeedTypeOK, seedVars
<1> QED
  BY <1>1, <1>5, <1>6, <1>7, <1>8
  DEF DocInv, TypeOK, UploadTypes, RowsMatch, seedVars

LEMMA DocInvRests ==
  ASSUME DocInv, ConfigureRule \/ UNCHANGED vars
  PROVE  DocInv'
<1>1. UNCHANGED <<seedVars, objects, rows, upload, cut, faults>>
      /\ tenantRule' \in BOOLEAN
  <2>1. CASE ConfigureRule
    <3>1. tenantRule' = TRUE
      BY <2>1 DEF ConfigureRule
    <3> QED
      BY <2>1, <3>1 DEF ConfigureRule
  <2>2. CASE UNCHANGED vars
    BY <2>2 DEF vars, docVars, DocInv, TypeOK
  <2> QED
    BY <2>1, <2>2
<1>2. UNCHANGED <<rules, units, identities, entries, line, found, runs, overlapped, finished>>
  BY <1>1 DEF seedVars
<1>3. TypeOK'
  BY <1>1, <1>2 DEF DocInv, TypeOK, SeedTypeOK
<1>4. \A u \in Uploads : UploadInv(u)'
  BY <1>1 DEF DocInv, UploadInv
<1> QED
  BY <1>1, <1>2, <1>3, <1>4 DEF DocInv, RowsMatch, Recorded

LEMMA DocInvNext ==
  ASSUME SeedInv, DocInv, [Next]_vars
  PROVE  DocInv'
<1>1. ASSUME NEW u \in Uploads, DocStep(u) PROVE DocInv'
  BY <1>1, DocInvFind, DocInvPut, DocInvLookUp, DocInvInsert, DocInvFails DEF DocStep
<1>2. ASSUME NEW p \in Seeders, SeedStep(p), UNCHANGED docVars PROVE DocInv'
  BY <1>2, DocInvSeedStep
<1> QED
  BY <1>1, <1>2, DocInvRests DEF Next

LEMMA InitDoc == Init => DocInv
<1> SUFFICES ASSUME Init PROVE DocInv
  OBVIOUS
<1>1. SeedTypeOK /\ MaxFaults \in Nat
  BY InitSeed, DocumentAssumption DEF SeedInv
<1>2. \A u \in Uploads : upload[u] = Idle
  BY DEF Init
<1>3. TypeOK
  <2>1. /\ objects \in [Docs -> Ids \cup {None}] /\ rows \in [Docs -> Row \cup {None}]
        /\ cut \subseteq Docs /\ faults \in 0..MaxFaults
    BY <1>1 DEF Init
  <2>2. Idle \in UploadTypes
    BY DEF UploadTypes, Idle
  <2>3. upload \in [Uploads -> UploadTypes]
    BY <2>2 DEF Init
  <2>4. tenantRule \in BOOLEAN
    BY Zenon DEF Init
  <2> QED
    BY <1>1, <2>1, <2>3, <2>4 DEF TypeOK, UploadTypes
<1>4. \A u \in Uploads : UploadInv(u)
  BY <1>2 DEF UploadInv, Idle
<1>5. RowsMatch /\ Recorded
  BY DEF Init, RowsMatch, Recorded
<1> QED
  BY <1>3, <1>4, <1>5 DEF DocInv

\* Every variable keeps its shape.
THEOREM TypeCorrect == Spec => []TypeOK
<1>1. SeedInv /\ DocInv /\ [Next]_vars => DocInv'
  BY DocInvNext
<1>2. DocInv => TypeOK
  BY DEF DocInv
<1> QED
  BY <1>1, <1>2, InitDoc, SeedIsBehind, PTL DEF Spec

\* Uploads in parallel never lose an object's row or swap one for another's.
THEOREM DocumentsAreRecorded == Spec => []StoredAndRecorded
<1>1. SeedInv /\ DocInv /\ [Next]_vars => DocInv'
  BY DocInvNext
<1> QED
  BY <1>1, DocInvImplies, InitDoc, SeedIsBehind, PTL DEF Spec
=============================================================================
