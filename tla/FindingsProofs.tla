--------------------------- MODULE FindingsProofs ---------------------------
(***************************************************************************)
(* Theorems about Findings, for any startup entries, snapshots and scans:  *)
(* the promise of each of its parts.                                       *)
(*                                                                         *)
(* The startup index. Entries shift under the loop that reads them by      *)
(* position. An entry is Ahead while its key is still to be opened, or it  *)
(* stands behind the position in the key that is read; an entry of the     *)
(* start that is neither taken nor ahead is Lost. No step loses more than  *)
(* one, and only a removal loses any (WalkInv).                            *)
(*                                                                         *)
(* The snapshot. What a row still owes to the snapshot that it was scanned *)
(* against (Judged), and what the snapshot owes to the rows that were last *)
(* recorded (KeptRecorded). The findings that are added later, from the    *)
(* other rows, the tracker and the index, never touch those two.           *)
(*                                                                         *)
(* The measures. A ranking puts the largest in front (TopFiveFacts); a     *)
(* median has half of the values on either side (MedianFacts), and is that *)
(* of all values but one where these are the same (MedianOfMost), so that  *)
(* a value beyond the limit exceeds most of its peers, and one that leaves *)
(* equal ones behind is beyond it (Compared). Every refresh finishes with  *)
(* these comparisons.                                                      *)
(***************************************************************************)
EXTENDS Findings, FiniteSetTheorems, SequenceTheorems, WellFoundedInduction, TLAPS

AboutBaseline == {"New", "DifferentPath"}

MatchOf(r, recs, allow) == Match(recs, allow, r.name, Normal[r.path])

\* What a row says of the snapshot is what classify_evidence made of its match.
JudgedBy(r, acc, recs, allow) ==
    /\ r.path \in RawPaths
    /\ r.trust = Trust(acc, MatchOf(r, recs, allow))
    /\ "New" \in r.findings <=> acc /\ MatchOf(r, recs, allow) = "None" /\ DOMAIN recs # {}
    /\ "DifferentPath" \in r.findings <=> acc /\ MatchOf(r, recs, allow) = "PathMismatch"

Judged == \A i \in DOMAIN rows : \E acc \in BOOLEAN : JudgedBy(rows[i], acc, records, allowed)

KeptRecorded ==
    kept # {} =>
        /\ DOMAIN records # {} /\ \A n \in DOMAIN records : records[n] # {}
        /\ \A n, q : <<n, q>> \in kept <=> n \in DOMAIN records /\ q \in records[n]
        /\ \A n, q : <<n, q>> \in kept => q \in Exes

Inv == Judged /\ KeptRecorded

-----------------------------------------------------------------------------
(* The walk: sequences with one element more or less *)

LEMMA InsertFacts ==
  ASSUME NEW T, NEW s \in Seq(T), NEW n \in 1 .. Len(s) + 1, NEW e \in T
  PROVE  /\ InsertAt(s, n, e) \in Seq(T) /\ Len(InsertAt(s, n, e)) = Len(s) + 1
         /\ InsertAt(s, n, e)[n] = e
         /\ \A m \in 1 .. n - 1 : InsertAt(s, n, e)[m] = s[m]
         /\ \A m \in n .. Len(s) : InsertAt(s, n, e)[m + 1] = s[m]
<1> DEFINE a == SubSeq(s, 1, n - 1)
           b == SubSeq(s, n, Len(s))
           u == a \o <<e>>
           w == u \o b
<1>1. Len(s) \in Nat /\ n \in Nat /\ n >= 1 /\ n <= Len(s) + 1 /\ \A i \in 1 .. Len(s) : s[i] \in T
  BY ElementOfSeq, LenProperties
<1>2. a \in Seq(T) /\ Len(a) = n - 1 /\ \A i \in 1 .. n - 1 : a[i] = s[i]
  <2>1. \A i \in 1 .. n - 1 : s[i] \in T
    BY <1>1
  <2>2. /\ a \in Seq(T) /\ Len(a) = IF 1 <= n - 1 THEN n - 1 - 1 + 1 ELSE 0
        /\ \A i \in 1 .. n - 1 - 1 + 1 : a[i] = s[1 + i - 1]
    BY <1>1, <2>1, SubSeqProperties
  <2> HIDE DEF a
  <2> QED  BY <1>1, <2>2
<1>3. b \in Seq(T) /\ Len(b) = Len(s) - n + 1 /\ \A i \in 1 .. Len(s) - n + 1 : b[i] = s[n + i - 1]
  <2>1. \A i \in n .. Len(s) : s[i] \in T
    BY <1>1
  <2>2. /\ b \in Seq(T) /\ Len(b) = IF n <= Len(s) THEN Len(s) - n + 1 ELSE 0
        /\ \A i \in 1 .. Len(s) - n + 1 : b[i] = s[n + i - 1]
    BY <1>1, <2>1, SubSeqProperties
  <2> HIDE DEF b
  <2> QED  BY <1>1, <2>2
<1> HIDE DEF a, b
<1>4. <<e>> \in Seq(T) /\ Len(<<e>>) = 1 /\ <<e>>[1] = e
  OBVIOUS
<1>5. u \in Seq(T) /\ Len(u) = n /\ u[n] = e /\ \A i \in 1 .. n - 1 : u[i] = s[i]
  <2>1. /\ u \in Seq(T) /\ Len(u) = Len(a) + Len(<<e>>)
        /\ \A i \in 1 .. Len(a) + Len(<<e>>) : u[i] = IF i <= Len(a) THEN a[i] ELSE <<e>>[i - Len(a)]
    BY <1>2, <1>4, ConcatProperties
  <2> HIDE DEF u
  <2>2. Len(u) = n /\ \A i \in 1 .. n : u[i] = IF i <= n - 1 THEN a[i] ELSE <<e>>[i - (n - 1)]
    BY <1>1, <1>2, <1>4, <2>1
  <2>3. u[n] = <<e>>[n - (n - 1)] /\ n - (n - 1) = 1
    BY <1>1, <2>2
  <2>4. \A i \in 1 .. n - 1 : u[i] = s[i]
    BY <1>1, <1>2, <2>2
  <2> QED  BY <1>4, <2>1, <2>2, <2>3, <2>4
<1> HIDE DEF u
<1>6. /\ w \in Seq(T) /\ Len(w) = Len(u) + Len(b)
      /\ \A i \in 1 .. Len(u) + Len(b) : w[i] = IF i <= Len(u) THEN u[i] ELSE b[i - Len(u)]
  BY <1>3, <1>5, ConcatProperties
<1> HIDE DEF w
<1>7. Len(w) = Len(s) + 1 /\ w[n] = e /\ \A m \in 1 .. n - 1 : w[m] = s[m]
  <2>1. Len(w) = Len(s) + 1
    BY <1>1, <1>3, <1>5, <1>6
  <2>2. ASSUME NEW m \in 1 .. n
        PROVE  w[m] = u[m]
    <3>1. m \in 1 .. Len(u) + Len(b) /\ m <= Len(u)
      BY <1>1, <1>3, <1>5
    <3> QED  BY <1>6, <3>1
  <2>3. w[n] = e
    BY <1>1, <1>5, <2>2
  <2>4. \A m \in 1 .. n - 1 : w[m] = s[m]
    BY <1>1, <1>5, <2>2
  <2> QED  BY <2>1, <2>3, <2>4
<1>8. ASSUME NEW m \in n .. Len(s)
      PROVE  w[m + 1] = s[m]
  <2>1. m + 1 \in 1 .. Len(u) + Len(b) /\ ~ (m + 1 <= Len(u)) /\ m + 1 - Len(u) \in 1 .. Len(s) - n + 1
        /\ n + (m + 1 - n) - 1 = m
    <3>1. /\ Len(u) = n /\ Len(b) = Len(s) - n + 1 /\ Len(s) \in Nat
          /\ n \in Nat /\ 1 <= n /\ m \in Nat /\ n <= m /\ m <= Len(s)
      BY <1>1, <1>3, <1>5
    <3> QED  BY <3>1
  <2>2. w[m + 1] = b[m + 1 - n]
    BY <1>5, <1>6, <2>1
  <2> QED  BY <1>3, <1>5, <2>1, <2>2
<1>9. InsertAt(s, n, e) = w
  BY DEF InsertAt, w, u, a, b
<1> QED  BY <1>6, <1>7, <1>8, <1>9

LEMMA RemoveFacts ==
  ASSUME NEW T, NEW s \in Seq(T), NEW n \in 1 .. Len(s)
  PROVE  /\ RemoveAt(s, n) \in Seq(T) /\ Len(RemoveAt(s, n)) = Len(s) - 1
         /\ \A m \in 1 .. n - 1 : RemoveAt(s, n)[m] = s[m]
         /\ \A m \in n .. Len(s) - 1 : RemoveAt(s, n)[m] = s[m + 1]
<1> DEFINE a == SubSeq(s, 1, n - 1)
           b == SubSeq(s, n + 1, Len(s))
           w == a \o b
<1>1. Len(s) \in Nat /\ n \in Nat /\ n >= 1 /\ n <= Len(s) /\ \A i \in 1 .. Len(s) : s[i] \in T
  BY ElementOfSeq, LenProperties
<1>2. a \in Seq(T) /\ Len(a) = n - 1 /\ \A i \in 1 .. n - 1 : a[i] = s[i]
  <2>1. \A i \in 1 .. n - 1 : s[i] \in T
    BY <1>1
  <2>2. /\ a \in Seq(T) /\ Len(a) = IF 1 <= n - 1 THEN n - 1 - 1 + 1 ELSE 0
        /\ \A i \in 1 .. n - 1 - 1 + 1 : a[i] = s[1 + i - 1]
    BY <1>1, <2>1, SubSeqProperties
  <2> HIDE DEF a
  <2> QED  BY <1>1, <2>2
<1>3. b \in Seq(T) /\ Len(b) = Len(s) - n /\ \A i \in 1 .. Len(s) - n : b[i] = s[n + i]
  <2>1. \A i \in n + 1 .. Len(s) : s[i] \in T
    BY <1>1
  <2>2. /\ b \in Seq(T) /\ Len(b) = IF n + 1 <= Len(s) THEN Len(s) - (n + 1) + 1 ELSE 0
        /\ \A i \in 1 .. Len(s) - (n + 1) + 1 : b[i] = s[n + 1 + i - 1]
    BY <1>1, <2>1, SubSeqProperties
  <2>3. \A i \in 1 .. Len(s) - n : n + 1 + i - 1 = n + i /\ i \in 1 .. Len(s) - (n + 1) + 1
    BY <1>1
  <2> HIDE DEF b
  <2> QED  BY <1>1, <2>2, <2>3
<1> HIDE DEF a, b
<1>4. /\ w \in Seq(T) /\ Len(w) = Len(a) + Len(b)
      /\ \A i \in 1 .. Len(a) + Len(b) : w[i] = IF i <= Len(a) THEN a[i] ELSE b[i - Len(a)]
  BY <1>2, <1>3, ConcatProperties
<1> HIDE DEF w
<1>5. Len(w) = Len(s) - 1 /\ \A m \in 1 .. n - 1 : w[m] = s[m]
  <2>1. Len(a) + Len(b) = Len(s) - 1
    BY <1>1, <1>2, <1>3
  <2>2. ASSUME NEW m \in 1 .. n - 1
        PROVE  w[m] = s[m]
    <3>1. m \in 1 .. Len(a) + Len(b) /\ m <= Len(a)
      BY <1>1, <1>2, <1>3
    <3> QED  BY <1>2, <1>4, <3>1
  <2> QED  BY <1>4, <2>1, <2>2
<1>6. ASSUME NEW m \in n .. Len(s) - 1
      PROVE  w[m] = s[m + 1]
  <2>1. m \in 1 .. Len(a) + Len(b) /\ ~ (m <= Len(a)) /\ m - (n - 1) \in 1 .. Len(s) - n
        /\ n + (m - (n - 1)) = m + 1
    BY <1>1, <1>2, <1>3
  <2>2. w[m] = b[m - (n - 1)]
    BY <1>2, <1>4, <2>1
  <2>3. b[m - (n - 1)] = s[n + (m - (n - 1))]
    BY <1>3, <2>1
  <2> QED  BY <2>1, <2>2, <2>3
<1>7. RemoveAt(s, n) = w
  BY DEF RemoveAt, w, a, b
<1> QED  BY <1>4, <1>5, <1>6, <1>7

-----------------------------------------------------------------------------
(* The walk: what is still ahead of it *)

\* The executable of pe will be found, if the keys can be read and unless it is
\* removed.
Ahead(pe) ==
    \E v \in visit .. Len(Visits) : \E n \in 1 .. Len(registry[pe[1]]) :
        /\ Visits[v] = pe[1] /\ registry[pe[1]][n] = pe[2]
        /\ v = visit => n >= position

Lost == {pe \in Missed : ~Ahead(pe)}

WalkTypes ==
    /\ registry \in [Places -> Seq(Entries)]
    /\ visit \in 1 .. Len(Visits) + 1 /\ position \in Nat
    /\ index \subseteq Exes

WalkInv ==
    /\ InRegistry(registry) \subseteq present
    /\ original \subseteq Places \X Entries
    /\ \A x \in index : \E pe \in present : x \in Taken(pe[2])
    /\ removed \in Nat /\ IsFiniteSet(Lost) /\ Cardinality(Lost) <= removed

LEMMA VisitFacts ==
  /\ Len(Visits) = 5 /\ \A v \in 1 .. 5 : Visits[v] \in Places
  /\ \A p \in Places : \E v \in 1 .. 5 : Visits[v] = p
<1>1. /\ Len(Visits) = 5 /\ Visits[1] = "machine64" /\ Visits[2] = "machine32"
      /\ Visits[3] = "user" /\ Visits[4] = "user" /\ Visits[5] = "services"
  BY DEF Visits
<1> QED  BY <1>1 DEF Places

\* The entries of a key.
LEMMA EntriesOf ==
  ASSUME NEW reg \in [Places -> Seq(Entries)], NEW p \in Places, NEW e
  PROVE  <<p, e>> \in InRegistry(reg) <=> \E n \in 1 .. Len(reg[p]) : reg[p][n] = e
<1>1. DOMAIN reg[p] = 1 .. Len(reg[p]) /\ \A n \in 1 .. Len(reg[p]) : reg[p][n] \in Entries
  BY ElementOfSeq, LenProperties
<1> QED  BY <1>1 DEF InRegistry, Range

LEMMA WalkStart ==
  ASSUME NEW reg \in [Places -> Seq(Entries)], WalkInit(reg)
  PROVE  WalkTypes /\ WalkInv
<1>1. /\ registry = reg /\ visit = 1 /\ position = 0 /\ index = {} /\ removed = 0
      /\ original = InRegistry(reg) /\ present = original
  BY DEF WalkInit
<1>2. WalkTypes
  BY <1>1, VisitFacts DEF WalkTypes
<1>3. Lost = {}
  <2> SUFFICES ASSUME NEW pe \in Lost  PROVE FALSE
    OBVIOUS
  <2>1. pe \in InRegistry(reg)
    BY <1>1 DEF Lost, Missed
  <2>2. pe \in Places \X Entries /\ pe = <<pe[1], pe[2]>> /\ pe[1] \in Places
    BY <2>1 DEF InRegistry
  <2>3. PICK n \in 1 .. Len(reg[pe[1]]) : reg[pe[1]][n] = pe[2]
    BY <2>1, <2>2, EntriesOf
  <2>4. PICK v \in 1 .. 5 : Visits[v] = pe[1]
    BY <2>2, VisitFacts
  <2>5. n >= 0
    OBVIOUS
  <2>6. Ahead(pe)
    BY <1>1, <2>3, <2>4, <2>5, VisitFacts DEF Ahead
  <2> QED  BY <2>6 DEF Lost
<1>4. WalkInv
  <2>1. IsFiniteSet(Lost) /\ Cardinality(Lost) = 0
    BY <1>3, FS_EmptySet
  <2> QED  BY <1>1, <2>1 DEF WalkInv, InRegistry
<1> QED  BY <1>2, <1>4

\* A step that loses nothing more.
LEMMA NothingLost ==
  ASSUME WalkInv, removed' = removed, Lost' \subseteq Lost
  PROVE  IsFiniteSet(Lost') /\ Cardinality(Lost') <= removed'
<1>1. IsFiniteSet(Lost') /\ Cardinality(Lost') <= Cardinality(Lost)
  BY FS_Subset DEF WalkInv
<1>2. Cardinality(Lost) \in Nat /\ Cardinality(Lost') \in Nat
  BY <1>1, FS_CardinalityType DEF WalkInv
<1> QED  BY <1>1, <1>2 DEF WalkInv

LEMMA LostOnly ==
  ASSUME original' = original, index \subseteq index', refused \subseteq refused',
         \A pe \in Missed' : Ahead(pe) => Ahead(pe)'
  PROVE  Lost' \subseteq Lost
<1> SUFFICES ASSUME NEW pe \in Lost'  PROVE pe \in Lost
  OBVIOUS
<1>1. pe \in Missed' /\ ~ Ahead(pe)'
  BY DEF Lost
<1>2. pe \in Missed
  BY <1>1 DEF Missed
<1>3. ~ Ahead(pe)
  BY <1>1
<1> QED  BY <1>2, <1>3 DEF Lost

\* The walk leaves a key, since it is refused or was read to the end.
LEMMA LeavingKey ==
  ASSUME WalkTypes, WalkInv, Walking, registry' = registry, original' = original, index' = index,
         present' = present, removed' = removed, refused \subseteq refused', NextVisit,
         Place \in refused' \/ position > Len(registry[Place])
  PROVE  WalkTypes' /\ WalkInv'
<1>1. /\ visit \in 1 .. 5 /\ position \in Nat /\ visit' = visit + 1 /\ position' = 0 /\ Len(Visits) = 5
  BY VisitFacts DEF WalkTypes, Walking, NextVisit
<1>2. WalkTypes'
  BY <1>1 DEF WalkTypes
<1>3. ASSUME NEW pe \in Missed', Ahead(pe)
      PROVE  Ahead(pe)'
  <2>1. PICK v \in visit .. 5, n \in 1 .. Len(registry[pe[1]]) :
          /\ Visits[v] = pe[1] /\ registry[pe[1]][n] = pe[2]
          /\ v = visit => n >= position
    BY <1>1, <1>3 DEF Ahead
  <2>2. pe[1] \notin refused'
    BY DEF Missed
  <2>3. pe \in Places \X Entries
    BY DEF Missed, WalkInv
  <2>4. Len(registry[pe[1]]) \in Nat
    <3>1. registry[pe[1]] \in Seq(Entries)
      BY <2>3 DEF WalkTypes
    <3> QED  BY <3>1, LenProperties
  <2>5. v # visit
    <3> SUFFICES ASSUME v = visit  PROVE FALSE
      OBVIOUS
    <3>1. Place = pe[1] /\ n >= position
      BY <2>1 DEF Place
    <3>2. position > Len(registry[pe[1]])
      BY <2>2, <3>1
    <3> QED  BY <1>1, <2>4, <3>1, <3>2
  <2>6. v \in visit' .. 5 /\ n >= position'
    BY <1>1, <2>1, <2>5, <2>4
  <2> QED  BY <1>1, <2>1, <2>6 DEF Ahead
<1>4. Lost' \subseteq Lost
  BY <1>3, LostOnly
<1>5. IsFiniteSet(Lost') /\ Cardinality(Lost') <= removed'
  BY <1>4, NothingLost
<1> QED  BY <1>2, <1>5 DEF WalkInv

LEMMA Opening ==
  ASSUME WalkTypes, WalkInv, OpenKey
  PROVE  WalkTypes' /\ WalkInv'
<1>1. /\ Walking /\ position = 0 /\ registry' = registry /\ original' = original
      /\ index' = index /\ present' = present /\ removed' = removed
  BY DEF OpenKey
<1>2. CASE position' = 1 /\ visit' = visit /\ refused' = refused
  <2>1. WalkTypes'
    BY <1>1, <1>2 DEF WalkTypes
  <2>2. ASSUME NEW pe \in Missed', Ahead(pe)
        PROVE  Ahead(pe)'
    BY <1>1, <1>2, <2>2 DEF Ahead
  <2>3. Lost' \subseteq Lost
    BY <1>1, <1>2, <2>2, LostOnly
  <2>4. IsFiniteSet(Lost') /\ Cardinality(Lost') <= removed'
    BY <1>1, <2>3, NothingLost
  <2> QED  BY <1>1, <2>1, <2>4 DEF WalkInv
<1>3. CASE NextVisit /\ refused' = refused \cup {Place}
  BY <1>1, <1>3, LeavingKey
<1> QED  BY <1>2, <1>3 DEF OpenKey

LEMMA Failing ==
  ASSUME WalkTypes, WalkInv, EnumerateFails
  PROVE  WalkTypes' /\ WalkInv'
BY LeavingKey DEF EnumerateFails

LEMMA Reading ==
  ASSUME WalkTypes, WalkInv, Enumerate
  PROVE  WalkTypes' /\ WalkInv'
<1>1. /\ Walking /\ position > 0 /\ registry' = registry /\ original' = original
      /\ present' = present /\ removed' = removed /\ refused' = refused
  BY DEF Enumerate
<1>2. CASE position > Len(registry[Place])
  BY <1>1, <1>2, LeavingKey DEF Enumerate
<1>3. CASE ~ (position > Len(registry[Place]))
  <2> DEFINE e == registry[Place][position]
  <2>1. index' = index \cup Taken(e) /\ position' = position + 1 /\ visit' = visit
    BY <1>3 DEF Enumerate
  <2>2. /\ visit \in 1 .. 5 /\ position \in Nat /\ Len(Visits) = 5 /\ Place \in Places
    BY <1>1, VisitFacts DEF WalkTypes, Walking, Place
  <2>3. registry[Place] \in Seq(Entries) /\ position \in 1 .. Len(registry[Place])
    <3>1. registry[Place] \in Seq(Entries)
      BY <2>2 DEF WalkTypes
    <3> QED  BY <1>1, <1>3, <2>2, <3>1, LenProperties
  <2>4. e \in Entries /\ Taken(e) \subseteq Exes
    <3>1. e \in Entries
      BY <2>3, ElementOfSeq
    <3> QED  BY <3>1 DEF Entries, Taken
  <2>5. <<Place, e>> \in present
    <3>1. <<Place, e>> \in InRegistry(registry)
      BY <2>2, <2>3, EntriesOf DEF WalkTypes
    <3> QED  BY <3>1 DEF WalkInv
  <2> HIDE DEF e
  <2>6. WalkTypes'
    BY <1>1, <2>1, <2>2, <2>4 DEF WalkTypes
  <2>7. \A x \in index' : \E pe \in present : x \in Taken(pe[2])
    <3> SUFFICES ASSUME NEW x \in index'  PROVE \E pe \in present : x \in Taken(pe[2])
      OBVIOUS
    <3>1. CASE x \in index
      BY <3>1 DEF WalkInv
    <3>2. CASE x \in Taken(e)
      <4>1. x \in Taken(<<Place, e>>[2])
        BY <3>2
      <4> QED  BY <2>5, <4>1
    <3> QED  BY <2>1, <3>1, <3>2
  <2>8. ASSUME NEW pe \in Missed', Ahead(pe)
        PROVE  Ahead(pe)'
    <3>1. PICK v \in visit .. 5, n \in 1 .. Len(registry[pe[1]]) :
            /\ Visits[v] = pe[1] /\ registry[pe[1]][n] = pe[2]
            /\ v = visit => n >= position
      BY <2>2, <2>8 DEF Ahead
    <3>2. v = visit => n # position
      <4> SUFFICES ASSUME v = visit, n = position  PROVE FALSE
        OBVIOUS
      <4>1. pe[2] = e
        BY <3>1 DEF Place, e
      <4> QED  BY <2>1, <4>1 DEF Missed
    <3>3. v = visit => n >= position'
      BY <2>1, <2>2, <3>1, <3>2
    <3> QED  BY <1>1, <2>1, <2>2, <3>1, <3>3 DEF Ahead
  <2>9. Lost' \subseteq Lost
    BY <1>1, <2>1, <2>8, LostOnly
  <2>10. IsFiniteSet(Lost') /\ Cardinality(Lost') <= removed'
    BY <1>1, <2>9, NothingLost
  <2> QED  BY <1>1, <2>6, <2>7, <2>10 DEF WalkInv
<1> QED  BY <1>2, <1>3

\* An entry more moves others on, and none back.
LEMMA Adding ==
  ASSUME WalkTypes, WalkInv, NEW p \in Places, NEW n \in 1 .. Len(registry[p]) + 1, NEW e \in Entries,
         AddEntry(p, n, e)
  PROVE  WalkTypes' /\ WalkInv'
<1>1. /\ registry' = [registry EXCEPT ![p] = InsertAt(@, n, e)] /\ present' = present \cup {<<p, e>>}
      /\ UNCHANGED <<visit, position, index, original, removed, refused>>
  BY DEF AddEntry
<1> DEFINE s == registry[p]
           w == InsertAt(s, n, e)
<1>2. s \in Seq(Entries) /\ Len(s) \in Nat /\ \A q \in Places : registry[q] \in Seq(Entries)
  BY LenProperties DEF WalkTypes
<1>3. /\ w \in Seq(Entries) /\ Len(w) = Len(s) + 1 /\ w[n] = e
      /\ \A m \in 1 .. n - 1 : w[m] = s[m]
      /\ \A m \in n .. Len(s) : w[m + 1] = s[m]
  BY <1>2, InsertFacts
<1>4. registry'[p] = w /\ \A q \in Places : q # p => registry'[q] = registry[q]
  BY <1>1 DEF WalkTypes
<1> HIDE DEF s, w
<1>5. registry' \in [Places -> Seq(Entries)]
  BY <1>1, <1>3, <1>4 DEF WalkTypes, w, s
<1>6. WalkTypes'
  BY <1>1, <1>5 DEF WalkTypes
<1>7. InRegistry(registry') \subseteq present'
  <2> SUFFICES ASSUME NEW pe \in InRegistry(registry')  PROVE pe \in present'
    OBVIOUS
  <2>1. pe[1] \in Places /\ pe = <<pe[1], pe[2]>>
    BY DEF InRegistry
  <2>2. PICK m \in 1 .. Len(registry'[pe[1]]) : registry'[pe[1]][m] = pe[2]
    <3>1. \A q \in Places : \A x :
            <<q, x>> \in InRegistry(registry') => \E m \in 1 .. Len(registry'[q]) : registry'[q][m] = x
      BY <1>5, EntriesOf
    <3> QED  BY <2>1, <3>1
  <2>3. pe = <<p, e>> \/ \E j \in 1 .. Len(registry[pe[1]]) : registry[pe[1]][j] = pe[2]
    <3>1. CASE pe[1] # p
      <4>1. registry'[pe[1]] = registry[pe[1]]
        BY <3>1, <1>4, <2>1
      <4> QED  BY <2>2, <4>1
    <3>2. CASE pe[1] = p
      <4>1. m \in 1 .. Len(s) + 1 /\ w[m] = pe[2]
        <5>1. registry'[pe[1]] = w
          BY <1>4, <3>2
        <5> QED  BY <1>3, <2>2, <5>1
      <4>2. CASE m < n
        <5>1. m \in 1 .. n - 1 /\ m \in 1 .. Len(s)
          BY <4>1, <4>2, <1>2 DEF s
        <5> QED  BY <5>1, <4>1, <1>3, <3>2 DEF s
      <4>3. CASE m = n
        BY <4>1, <4>3, <1>3, <2>1, <3>2
      <4>4. CASE m > n
        <5>1. m - 1 \in n .. Len(s) /\ m - 1 \in 1 .. Len(s) /\ (m - 1) + 1 = m
          BY <4>1, <4>4, <1>2 DEF s
        <5>2. s[m - 1] = pe[2]
          BY <5>1, <4>1, <1>3
        <5> QED  BY <5>1, <5>2, <3>2 DEF s
      <4> QED  BY <4>1, <4>2, <4>3, <4>4
    <3> QED  BY <3>1, <3>2
  <2>4. CASE \E j \in 1 .. Len(registry[pe[1]]) : registry[pe[1]][j] = pe[2]
    <3>1. <<pe[1], pe[2]>> \in InRegistry(registry)
      BY <2>1, <2>4, EntriesOf DEF WalkTypes
    <3> QED  BY <1>1, <2>1, <3>1 DEF WalkInv
  <2> QED  BY <1>1, <2>3, <2>4
<1>8. ASSUME NEW pe \in Missed', Ahead(pe)
      PROVE  Ahead(pe)'
  <2>1. PICK v \in visit .. Len(Visits), m \in 1 .. Len(registry[pe[1]]) :
          /\ Visits[v] = pe[1] /\ registry[pe[1]][m] = pe[2]
          /\ v = visit => m >= position
    BY <1>8 DEF Ahead
  <2>2. pe[1] \in Places
    BY <1>1 DEF Missed, WalkInv
  <2>3. CASE pe[1] # p
    <3>1. registry'[pe[1]] = registry[pe[1]]
      BY <1>4, <2>2, <2>3
    <3> QED  BY <1>1, <2>1, <3>1 DEF Ahead
  <2>4. CASE pe[1] = p /\ m < n
    <3>1. m \in 1 .. n - 1 /\ m \in 1 .. Len(w) /\ m \in 1 .. Len(s)
      BY <1>2, <1>3, <2>1, <2>4 DEF s
    <3>2. registry'[pe[1]][m] = pe[2] /\ m \in 1 .. Len(registry'[pe[1]])
      BY <1>3, <1>4, <2>1, <2>4, <3>1 DEF s
    <3> QED  BY <1>1, <2>1, <3>2 DEF Ahead
  <2>5. CASE pe[1] = p /\ m >= n
    <3>1. m \in n .. Len(s) /\ m + 1 \in 1 .. Len(w)
      BY <1>2, <1>3, <2>1, <2>5 DEF s
    <3>2. registry'[pe[1]][m + 1] = pe[2] /\ m + 1 \in 1 .. Len(registry'[pe[1]])
      BY <1>3, <1>4, <2>1, <2>5, <3>1 DEF s
    <3>3. v = visit => m + 1 >= position
      BY <1>2, <2>1, <2>5 DEF WalkTypes, s
    <3> QED  BY <1>1, <2>1, <3>2, <3>3 DEF Ahead
  <2> QED  BY <1>2, <2>1, <2>3, <2>4, <2>5
<1>9. Lost' \subseteq Lost
  BY <1>1, <1>8, LostOnly
<1>10. IsFiniteSet(Lost') /\ Cardinality(Lost') <= removed'
  BY <1>1, <1>9, NothingLost
<1>11. \A x \in index' : \E pe \in present' : x \in Taken(pe[2])
  BY <1>1 DEF WalkInv
<1> QED  BY <1>1, <1>6, <1>7, <1>10, <1>11 DEF WalkInv

\* An entry less costs that entry, or moves one out of the way of the walk.
LEMMA Removing ==
  ASSUME WalkTypes, WalkInv, NEW p \in Places, NEW n, RemoveEntry(p, n)
  PROVE  WalkTypes' /\ WalkInv'
<1>1. /\ Walking /\ n \in DOMAIN registry[p]
      /\ registry' = [registry EXCEPT ![p] = RemoveAt(@, n)] /\ removed' = removed + 1
      /\ UNCHANGED <<visit, position, index, original, present, refused>>
  BY DEF RemoveEntry, Changes
<1> DEFINE s == registry[p]
           w == RemoveAt(s, n)
<1>2. s \in Seq(Entries) /\ Len(s) \in Nat /\ DOMAIN s = 1 .. Len(s) /\ n \in 1 .. Len(s)
  BY <1>1, LenProperties DEF WalkTypes
<1>3. /\ w \in Seq(Entries) /\ Len(w) = Len(s) - 1
      /\ \A m \in 1 .. n - 1 : w[m] = s[m]
      /\ \A m \in n .. Len(s) - 1 : w[m] = s[m + 1]
  BY <1>2, RemoveFacts
<1>4. registry'[p] = w /\ \A q \in Places : q # p => registry'[q] = registry[q]
  BY <1>1 DEF WalkTypes
<1>a. visit \in 1 .. 5 /\ position \in Nat /\ Len(Visits) = 5 /\ visit' = visit /\ position' = position
  BY <1>1, VisitFacts DEF WalkTypes, Walking
<1> HIDE DEF s, w
<1>5. registry' \in [Places -> Seq(Entries)]
  BY <1>1, <1>3, <1>4 DEF WalkTypes, w, s
<1>6. WalkTypes'
  BY <1>1, <1>5 DEF WalkTypes
<1>7. InRegistry(registry') \subseteq present'
  <2> SUFFICES ASSUME NEW pe \in InRegistry(registry')  PROVE pe \in present'
    OBVIOUS
  <2>1. pe[1] \in Places /\ pe = <<pe[1], pe[2]>>
    BY DEF InRegistry
  <2>2. PICK m \in 1 .. Len(registry'[pe[1]]) : registry'[pe[1]][m] = pe[2]
    BY <1>5, <2>1, EntriesOf
  <2>3. \E j \in 1 .. Len(registry[pe[1]]) : registry[pe[1]][j] = pe[2]
    <3>1. CASE pe[1] # p
      BY <3>1, <1>4, <2>1, <2>2
    <3>2. CASE pe[1] = p
      <4>1. m \in 1 .. Len(s) - 1 /\ w[m] = pe[2]
        BY <1>3, <1>4, <2>2, <3>2
      <4>2. CASE m < n
        <5>1. m \in 1 .. n - 1 /\ m \in 1 .. Len(s)
          BY <4>1, <4>2, <1>2 DEF s
        <5> QED  BY <5>1, <4>1, <1>3, <3>2 DEF s
      <4>3. CASE m >= n
        <5>1. m \in n .. Len(s) - 1 /\ m + 1 \in 1 .. Len(s)
          BY <4>1, <4>3, <1>2 DEF s
        <5>2. s[m + 1] = pe[2]
          BY <5>1, <4>1, <1>3
        <5> QED  BY <5>1, <5>2, <3>2 DEF s
      <4> QED  BY <1>2, <4>1, <4>2, <4>3
    <3> QED  BY <3>1, <3>2
  <2>4. <<pe[1], pe[2]>> \in InRegistry(registry)
    BY <2>1, <2>3, EntriesOf DEF WalkTypes
  <2> QED  BY <1>1, <2>1, <2>4 DEF WalkInv
<1>8. ASSUME NEW pe \in Missed', NEW v \in visit .. 5, NEW m \in 1 .. Len(registry[pe[1]]),
             Visits[v] = pe[1], registry[pe[1]][m] = pe[2],
             \/ pe[1] # p
             \/ m # n /\ m < n
             \/ m # n /\ (v = visit => m > position),
             v = visit => m >= position
      PROVE  Ahead(pe)'
  <2>1. pe[1] \in Places
    BY <1>1 DEF Missed, WalkInv
  <2>2. CASE pe[1] # p
    <3>1. registry'[pe[1]] = registry[pe[1]]
      BY <1>4, <2>1, <2>2
    <3> QED  BY <1>8, <1>a, <3>1 DEF Ahead
  <2>3. CASE pe[1] = p /\ m < n
    <3>1. m \in 1 .. n - 1 /\ m \in 1 .. Len(w)
      BY <1>2, <1>3, <1>8, <2>3 DEF s
    <3>2. registry'[pe[1]][m] = pe[2] /\ m \in 1 .. Len(registry'[pe[1]])
      BY <1>3, <1>4, <1>8, <2>3, <3>1 DEF s
    <3> QED  BY <1>8, <1>a, <3>2 DEF Ahead
  <2>4. CASE pe[1] = p /\ m > n /\ (v = visit => m > position)
    <3>1. m - 1 \in n .. Len(s) - 1 /\ (m - 1) + 1 = m /\ m - 1 \in 1 .. Len(w)
      BY <1>2, <1>3, <1>8, <2>4 DEF s
    <3>2. registry'[pe[1]][m - 1] = pe[2] /\ m - 1 \in 1 .. Len(registry'[pe[1]])
      BY <1>3, <1>4, <1>8, <2>4, <3>1 DEF s
    <3>3. v = visit => m - 1 >= position
      BY <1>2, <1>8, <1>a, <2>4 DEF s
    <3> QED  BY <1>8, <1>a, <3>2, <3>3 DEF Ahead
  <2> QED  BY <1>2, <1>8, <2>2, <2>3, <2>4 DEF s
<1> DEFINE later == \E v \in visit + 1 .. 5 : Visits[v] = p
<1>9. \E x : \A pe \in Missed' : Ahead(pe) /\ pe # x => Ahead(pe)'
  <2>1. CASE later \/ Place # p \/ n >= position
    <3> DEFINE x == <<p, s[n]>>
    <3> SUFFICES ASSUME NEW pe \in Missed', Ahead(pe), pe # x
                 PROVE  Ahead(pe)'
      OBVIOUS
    <3>1. PICK v \in visit .. 5, m \in 1 .. Len(registry[pe[1]]) :
            /\ Visits[v] = pe[1] /\ registry[pe[1]][m] = pe[2]
            /\ v = visit => m >= position
      BY <1>a DEF Ahead
    <3>2. pe = <<pe[1], pe[2]>>
      BY <1>1 DEF Missed, WalkInv
    <3>3. CASE pe[1] # p
      BY <3>1, <3>3, <1>8
    <3>4. CASE pe[1] = p
      <4>1. m # n
        BY <3>1, <3>2, <3>4 DEF s
      <4>2. CASE m < n \/ v # visit \/ m > position
        BY <3>1, <3>4, <4>1, <4>2, <1>8
      <4>3. CASE m > n /\ v = visit /\ m = position
        <5>1. Place = p /\ ~ (n >= position)
          BY <3>1, <3>4, <4>3, <1>2 DEF Place
        <5>2. PICK u \in visit + 1 .. 5 : Visits[u] = p
          BY <2>1, <5>1
        <5>3. u \in visit .. 5 /\ u # visit
          BY <1>a
        <5> QED  BY <3>1, <3>4, <4>1, <5>2, <5>3, <1>8
      <4> QED  BY <3>1, <3>4, <4>1, <4>2, <4>3, <1>2, <1>a DEF s
    <3> QED  BY <3>3, <3>4
  <2>2. CASE ~ later /\ Place = p /\ n < position
    <3> DEFINE x == <<p, s[position]>>
    <3> SUFFICES ASSUME NEW pe \in Missed', Ahead(pe), pe # x
                 PROVE  Ahead(pe)'
      OBVIOUS
    <3>1. PICK v \in visit .. 5, m \in 1 .. Len(registry[pe[1]]) :
            /\ Visits[v] = pe[1] /\ registry[pe[1]][m] = pe[2]
            /\ v = visit => m >= position
      BY <1>a DEF Ahead
    <3>2. pe = <<pe[1], pe[2]>>
      BY <1>1 DEF Missed, WalkInv
    <3>3. CASE pe[1] # p
      BY <3>1, <3>3, <1>8
    <3>4. CASE pe[1] = p
      <4>1. v = visit
        <5> SUFFICES ASSUME v # visit  PROVE FALSE
          OBVIOUS
        <5>1. v \in visit + 1 .. 5
          BY <1>a
        <5> QED  BY <2>2, <3>1, <3>4, <5>1
      <4>2. m # position
        BY <3>1, <3>2, <3>4 DEF s
      <4>3. m > position /\ m # n
        BY <1>2, <1>a, <2>2, <3>1, <3>4, <4>1, <4>2 DEF s
      <4> QED  BY <3>1, <4>3, <1>8
    <3> QED  BY <3>3, <3>4
  <2> QED  BY <2>1, <2>2, <1>2, <1>a
<1>10. PICK x : \A pe \in Missed' : Ahead(pe) /\ pe # x => Ahead(pe)'
  BY <1>9
<1>11. Lost' \subseteq Lost \cup {x}
  <2> SUFFICES ASSUME NEW pe \in Lost', pe # x  PROVE pe \in Lost
    OBVIOUS
  <2>1. pe \in Missed' /\ ~ Ahead(pe)'
    BY DEF Lost
  <2>2. pe \in Missed
    BY <1>1, <2>1 DEF Missed
  <2> QED  BY <1>10, <2>1, <2>2 DEF Lost
<1>12. IsFiniteSet(Lost') /\ Cardinality(Lost') <= removed'
  <2>1. /\ IsFiniteSet(Lost \cup {x})
        /\ Cardinality(Lost \cup {x}) = IF x \in Lost THEN Cardinality(Lost) ELSE Cardinality(Lost) + 1
    BY FS_AddElement DEF WalkInv
  <2>2. IsFiniteSet(Lost') /\ Cardinality(Lost') <= Cardinality(Lost \cup {x})
    BY <1>11, <2>1, FS_Subset
  <2>3. Cardinality(Lost) \in Nat /\ Cardinality(Lost') \in Nat
    BY <2>2, FS_CardinalityType DEF WalkInv
  <2> QED  BY <1>1, <2>1, <2>2, <2>3 DEF WalkInv
<1>13. removed' \in Nat /\ \A y \in index' : \E pe \in present' : y \in Taken(pe[2])
  BY <1>1 DEF WalkInv
<1>14. original' \subseteq Places \X Entries
  BY <1>1 DEF WalkInv
<1> QED  BY <1>6, <1>7, <1>12, <1>13, <1>14 DEF WalkInv

LEMMA WalkStep ==
  ASSUME WalkTypes, WalkInv, Walk
  PROVE  WalkTypes' /\ WalkInv'
<1>1. ASSUME NEW p \in Places, NEW n \in 1 .. Len(registry[p]) + 1, NEW e \in Entries,
             AddEntry(p, n, e)
      PROVE  WalkTypes' /\ WalkInv'
  BY <1>1, Adding
<1>2. ASSUME NEW p \in Places, NEW n \in 1 .. Len(registry[p]) + 1, RemoveEntry(p, n)
      PROVE  WalkTypes' /\ WalkInv'
  BY <1>2, Removing
<1> QED  BY <1>1, <1>2, Opening, Reading, Failing DEF Walk

\* Once the walk is over nothing is ahead of it.
LEMMA WalkOver ==
  ASSUME WalkTypes, WalkInv
  PROVE  WalkFaithful
<1>1. ASSUME ~ Walking
      PROVE  Cardinality(Missed) <= removed
  <2>1. visit \in Nat /\ Len(Visits) = 5 /\ visit > Len(Visits)
    BY <1>1, VisitFacts DEF WalkTypes, Walking
  <2>2. \A pe : ~ Ahead(pe)
    BY <2>1 DEF Ahead
  <2>3. Lost = Missed
    BY <2>2 DEF Lost
  <2> QED  BY <2>3 DEF WalkInv
<1> QED  BY <1>1 DEF WalkInv, WalkFaithful

\* Once build returned, nothing looks at what the walk remembers.
WalkKnown == WalkTypes /\ (~ Built => WalkInv)

LEMMA WalkKept ==
  ASSUME WalkKnown, [Next]_vars
  PROVE  WalkKnown'
<1>1. CASE walk' = walk
  BY <1>1 DEF walk, WalkKnown, WalkTypes, WalkInv, InRegistry, Lost, Missed, Ahead, Built, Walking
<1>2. CASE Build
  <2>1. Walk /\ Walking
    BY <1>2 DEF Build, Walk, OpenKey, Enumerate, EnumerateFails, AddEntry, RemoveEntry, Changes
  <2>2. WalkTypes' /\ WalkInv'
    BY <2>1, WalkStep DEF WalkKnown, Built
  <2> QED  BY <2>2 DEF WalkKnown
<1>3. CASE Return
  <2>1. /\ registry' = NoEntries /\ original' = {} /\ ~ Walking
        /\ visit' = visit /\ position' = position /\ index' = index
    BY <1>3 DEF Return
  <2>2. Built'
    BY <2>1 DEF Built, Walking
  <2>3. NoEntries \in [Places -> Seq(Entries)]
    BY DEF NoEntries
  <2> QED  BY <2>1, <2>2, <2>3 DEF WalkKnown, WalkTypes
<1> QED
  BY <1>1, <1>2, <1>3 DEF Next, vars, Scan, RecordBaseline, Allow, Unallow

-----------------------------------------------------------------------------
(* The rows of a scan *)

\* What the other rows add to a row is never about the snapshot.
LEMMA LiveIsOther ==
  ASSUME NEW rs, NEW i, NEW heavy, NEW outliers, NEW restarting, NEW startup
  PROVE  LiveFindings(rs, i, heavy, outliers, restarting, startup) \cap AboutBaseline = {}
BY Zenon DEF LiveFindings, AboutBaseline, HeavyFlags

\* A row before the others are looked at.
LEMMA RowJudged ==
  ASSUME NEW m, NEW recs, NEW allow,
         m.path \in RawPaths, m.accessible \in BOOLEAN, m.parent \cap AboutBaseline = {}
  PROVE  JudgedBy(RowOf(m, recs, allow), m.accessible, recs, allow)
<1> DEFINE r     == RowOf(m, recs, allow)
           match == Match(recs, allow, m.name, Normal[m.path])
<1>1. /\ r.trust = Trust(m.accessible, match)
      /\ r.name = m.name /\ r.path = m.path
      /\ r.findings = AboutSnapshot(m.accessible, recs, match)
                        \cup (IF m.accessible THEN m.parent ELSE {})
  BY DEF RowOf
<1>2. MatchOf(r, recs, allow) = match
  BY <1>1 DEF MatchOf
<1> HIDE DEF r, match
<1>3. "New" \in r.findings <=> m.accessible /\ match = "None" /\ DOMAIN recs # {}
  BY <1>1 DEF AboutSnapshot, AboutBaseline
<1>4. "DifferentPath" \in r.findings <=> m.accessible /\ match = "PathMismatch"
  BY <1>1 DEF AboutSnapshot, AboutBaseline
<1> QED  BY <1>1, <1>2, <1>3, <1>4 DEF JudgedBy, r

\* The rows before they are compared.
Base(ms, recs, allow) == [i \in DOMAIN ms |-> RowOf(ms[i], recs, allow)]

\* The row i of rs as it is shown: what the others add to it are findings.
Shown(row, rs, i, heavy, restarting) ==
    /\ row.name = rs[i].name /\ row.path = rs[i].path /\ row.trust = rs[i].trust
    /\ row.cpu = rs[i].cpu /\ row.memory = rs[i].memory /\ row.disk = rs[i].disk
    /\ row.findings = rs[i].findings
         \cup LiveFindings(rs, i, heavy, PeerOutliers(rs), restarting, InIndex)

LEMMA RefreshRows ==
  ASSUME NEW ms, NEW restarting, Refresh(ms, restarting)
  PROVE  \E heavy \in ResourceFindings(Base(ms, records', allowed')) :
           /\ DOMAIN rows' = DOMAIN ms
           /\ \A i \in DOMAIN ms :
                Shown(rows'[i], Base(ms, records', allowed'), i, heavy, restarting)
<1> DEFINE base  == Base(ms, records', allowed')
           out   == PeerOutliers(base)
<1>1. PICK heavy \in ResourceFindings(base) :
        rows' = [i \in DOMAIN base |->
                   [base[i] EXCEPT !.findings =
                      @ \cup LiveFindings(base, i, heavy, out, restarting, InIndex)]]
  BY DEF Refresh, WithLiveFindings, Base
<1>2. DOMAIN base = DOMAIN ms
  BY DEF Base
<1>3. ASSUME NEW i \in DOMAIN ms
      PROVE  Shown(rows'[i], base, i, heavy, restarting)
  <2> DEFINE more == LiveFindings(base, i, heavy, out, restarting, InIndex)
  <2>1. base[i] = RowOf(ms[i], records', allowed')
    BY DEF Base
  <2>2. rows'[i] = [base[i] EXCEPT !.findings = @ \cup more]
    BY <1>1, <1>2
  <2>3. /\ rows'[i].trust = base[i].trust /\ rows'[i].name = base[i].name
        /\ rows'[i].path = base[i].path /\ rows'[i].cpu = base[i].cpu
        /\ rows'[i].memory = base[i].memory /\ rows'[i].disk = base[i].disk
        /\ rows'[i].findings = base[i].findings \cup more
    <3> HIDE DEF more, base
    <3>1. base[i] = [name |-> ms[i].name, path |-> ms[i].path, cpu |-> base[i].cpu,
                     memory |-> base[i].memory, disk |-> base[i].disk,
                     trust |-> base[i].trust, findings |-> base[i].findings]
      BY <2>1 DEF RowOf
    <3> QED  BY <2>2, <3>1
  <2> HIDE DEF base
  <2> QED  BY <2>3 DEF Shown
<1> HIDE DEF base
<1>4. DOMAIN rows' = DOMAIN ms
  BY <1>1, <1>2
<1> QED  BY <1>1, <1>3, <1>4 DEF base

\* And the rows of a whole scan.
LEMMA RefreshJudges ==
  ASSUME NEW ms, NEW restarting,
         \A i \in DOMAIN ms : /\ ms[i].path \in RawPaths /\ ms[i].accessible \in BOOLEAN
                              /\ ms[i].parent \cap AboutBaseline = {},
         Refresh(ms, restarting)
  PROVE  Judged'
<1> DEFINE base == Base(ms, records', allowed')
<1>1. PICK heavy : /\ DOMAIN rows' = DOMAIN ms
                   /\ \A i \in DOMAIN ms : Shown(rows'[i], base, i, heavy, restarting)
  BY RefreshRows
<1> SUFFICES ASSUME NEW i \in DOMAIN ms
             PROVE  JudgedBy(rows'[i], ms[i].accessible, records', allowed')
  BY <1>1 DEF Judged
<1>2. base[i] = RowOf(ms[i], records', allowed')
  BY DEF Base
<1> HIDE DEF base
<1> DEFINE more == LiveFindings(base, i, heavy, PeerOutliers(base), restarting, InIndex)
<1>3. more \cap AboutBaseline = {}
  BY LiveIsOther
<1>4. JudgedBy(base[i], ms[i].accessible, records', allowed')
  BY <1>2, RowJudged
<1>5. /\ rows'[i].trust = base[i].trust /\ rows'[i].name = base[i].name
      /\ rows'[i].path = base[i].path
      /\ rows'[i].findings = base[i].findings \cup more
  BY <1>1 DEF Shown
<1> HIDE DEF more
<1>6. MatchOf(rows'[i], records', allowed') = MatchOf(base[i], records', allowed')
  BY <1>5 DEF MatchOf
<1> QED  BY <1>3, <1>4, <1>5, <1>6 DEF JudgedBy, AboutBaseline

\* The scans that may come are such.
LEMMA ScansJudge ==
  ASSUME Scans
  PROVE  Judged'
<1>1. PICK f \in Found : Refresh(f.processes, f.restarting)
  BY DEF Scans
<1>2. f \in FirstScans \cup LaterScans
  BY <1>1 DEF Found
<1>3. \A i \in DOMAIN f.processes :
        /\ f.processes[i].path \in RawPaths /\ f.processes[i].accessible \in BOOLEAN
        /\ f.processes[i].parent \cap AboutBaseline = {}
  BY <1>2, FindingsAssumption DEF AboutBaseline
<1> QED  BY <1>1, <1>3, RefreshJudges

\* A step that leaves the rows and the snapshot alone leaves the judgment.
LEMMA JudgedStays ==
  ASSUME Judged, rows' = rows, records' = records, allowed' = allowed
  PROVE  Judged'
BY DEF Judged, JudgedBy, MatchOf

-----------------------------------------------------------------------------
(* The snapshot *)

\* replacement_from_rows drops no row that has a path, and makes none up.
LEMMA RecordsAreRows ==
  ASSUME NEW rs, NEW n
  PROVE  /\ n \in DOMAIN RecordsOf(rs) <=> \E r \in NamedOnly(rs) : n = r.name
         /\ n \in DOMAIN RecordsOf(rs) =>
              \A q : q \in RecordsOf(rs)[n]
                        <=> \E r \in NamedOnly(rs) : n = r.name /\ q = Normal[r.path]
BY DEF RecordsOf

-----------------------------------------------------------------------------
(* The rows and their types *)

RowTyped(r) ==
    /\ r.path \in RawPaths /\ r.trust \in Trusts /\ r.findings \subseteq Flags
    /\ r.trust = "Protected" => ~ Has(r, {"New", "DifferentPath", "ParentEnded"})

Typed ==
    /\ \A i \in DOMAIN rows : RowTyped(rows[i])
    /\ allowed \subseteq Exes /\ \A n \in DOMAIN records : records[n] \subseteq Exes

LEMMA RefreshTyped ==
  ASSUME NEW ms, NEW restarting,
         \A i \in DOMAIN ms : /\ ms[i].path \in RawPaths /\ ms[i].accessible \in BOOLEAN
                              /\ ms[i].parent \subseteq {"ParentEnded", "LaunchedByKnown"},
         Refresh(ms, restarting)
  PROVE  \A i \in DOMAIN rows' : RowTyped(rows'[i])
<1> DEFINE base == Base(ms, records', allowed')
<1>1. PICK heavy : /\ DOMAIN rows' = DOMAIN ms
                   /\ \A i \in DOMAIN ms : Shown(rows'[i], base, i, heavy, restarting)
  BY RefreshRows
<1> SUFFICES ASSUME NEW i \in DOMAIN ms
             PROVE  RowTyped(rows'[i])
  BY <1>1
<1> DEFINE match == Match(records', allowed', ms[i].name, Normal[ms[i].path])
           acc   == ms[i].accessible
<1>2. base[i] = RowOf(ms[i], records', allowed')
  BY DEF Base
<1>3. /\ base[i].path = ms[i].path /\ base[i].trust = Trust(acc, match)
      /\ base[i].findings = AboutSnapshot(acc, records', match)
                              \cup (IF acc THEN ms[i].parent ELSE {})
  <2> HIDE DEF base
  <2> QED  BY <1>2 DEF RowOf
<1> DEFINE more == LiveFindings(base, i, heavy, PeerOutliers(base), restarting, InIndex)
<1> HIDE DEF base
<1>4. more \subseteq Flags \ {"New", "DifferentPath", "ParentEnded"}
  BY Zenon DEF LiveFindings, Flags, HeavyFlags
<1>5. /\ rows'[i].path = ms[i].path /\ rows'[i].trust = Trust(acc, match)
      /\ rows'[i].findings = base[i].findings \cup more
  BY <1>1, <1>3 DEF Shown
<1> HIDE DEF more, match
<1>6. base[i].findings \subseteq Flags /\ (~ acc => base[i].findings = {})
  BY <1>3 DEF AboutSnapshot, Flags
<1>7. Trust(acc, match) \in Trusts /\ (Trust(acc, match) = "Protected" => ~ acc)
  BY DEF Trust, Trusts
<1> QED  BY <1>4, <1>5, <1>6, <1>7 DEF RowTyped, Has

\* The scans that may come.
LEMMA ScanFound ==
  ASSUME Scans
  PROVE  \E f \in FirstScans \cup LaterScans : Refresh(f.processes, f.restarting)
BY DEF Scans, Found

LEMMA ScansTyped ==
  ASSUME Scans
  PROVE  \A i \in DOMAIN rows' : RowTyped(rows'[i])
<1>1. PICK f \in FirstScans \cup LaterScans : Refresh(f.processes, f.restarting)
  BY ScanFound
<1>2. \A i \in DOMAIN f.processes :
        /\ f.processes[i].path \in RawPaths /\ f.processes[i].accessible \in BOOLEAN
        /\ f.processes[i].parent \subseteq {"ParentEnded", "LaunchedByKnown"}
  BY FindingsAssumption
<1> QED  BY <1>1, <1>2, RefreshTyped

LEMMA TypedInit ==
  ASSUME Init
  PROVE  Typed
BY FindingsAssumption DEF Init, Typed

LEMMA TypedKept ==
  ASSUME Typed, [Next]_vars
  PROVE  Typed'
<1>1. CASE UNCHANGED vars \/ Build \/ Return
  <2>1. rows' = rows /\ records' = records /\ allowed' = allowed
    BY <1>1 DEF vars, baseline, Build, Return
  <2> QED  BY <2>1 DEF Typed
<1>2. \A r \in NamedOnly(rows) : Normal[r.path] \in Exes
  <2> SUFFICES ASSUME NEW r \in NamedOnly(rows)  PROVE Normal[r.path] \in Exes
    OBVIOUS
  <2>1. r.path # NoPath /\ \E i \in DOMAIN rows : r = rows[i]
    BY DEF NamedOnly, Range
  <2>2. r.path \in RawPaths
    BY <2>1 DEF Typed, RowTyped
  <2> QED  BY <2>1, <2>2, FindingsAssumption
<1>3. CASE Scan
  BY <1>3, ScansTyped DEF Scan, Typed
<1>4. CASE RecordBaseline
  <2>1. records' = RecordsOf(rows) /\ allowed' = allowed
    BY <1>4 DEF RecordBaseline
  <2>2. \A n \in DOMAIN RecordsOf(rows) : RecordsOf(rows)[n] \subseteq Exes
    BY <1>2 DEF RecordsOf
  <2> QED  BY <1>4, <2>1, <2>2, ScansTyped DEF RecordBaseline, Typed
<1>5. CASE Allow
  BY <1>2, <1>5, ScansTyped DEF Allow, Typed
<1>6. CASE Unallow
  BY <1>6, ScansTyped DEF Unallow, Typed
<1> QED  BY <1>1, <1>3, <1>4, <1>5, <1>6 DEF Next

-----------------------------------------------------------------------------
(* The top five *)

\* s names each element of S once.
LEMMA Enumerates ==
  ASSUME NEW S, IsFiniteSet(S), NEW s \in [1 .. Cardinality(S) -> S],
         \A i, j \in 1 .. Cardinality(S) : s[i] = s[j] => i = j
  PROVE  Cardinality(S) \in Nat /\ s \in Bijection(1 .. Cardinality(S), S)
<1> DEFINE D == 1 .. Cardinality(S)
<1>1. Cardinality(S) \in Nat
  BY FS_CardinalityType
<1>2. s \in Injection(D, S)
  BY DEF Injection, IsInjective
<1>3. IsFiniteSet(D) /\ Cardinality(D) = Cardinality(S)
  BY <1>1, FS_Interval
<1>4. s \in Surjection(D, S)
  BY <1>2, <1>3, FS_Injection
<1> QED  BY <1>1, <1>2, <1>4 DEF Bijection

\* The places where s holds an element of Q: as many as Q has.
PlacesOf(s, N, Q) == {n \in 1 .. N : s[n] \in Q}

LEMMA Counted ==
  ASSUME NEW N \in Nat, NEW S, NEW s \in Bijection(1 .. N, S), NEW Q \in SUBSET S
  PROVE  Cardinality(PlacesOf(s, N, Q)) = Cardinality(Q)
<1> DEFINE P == PlacesOf(s, N, Q)
           g == [n \in P |-> s[n]]
<1>1. IsFiniteSet(P)
  <2>1. P \in SUBSET (1 .. N)
    BY DEF PlacesOf
  <2>2. IsFiniteSet(1 .. N)
    BY FS_Interval
  <2> HIDE DEF P
  <2> QED  BY <2>1, <2>2, FS_Subset
<1>2. /\ \A n \in P : n \in 1 .. N /\ s[n] \in Q
      /\ \A m, n \in P : s[m] = s[n] => m = n
      /\ \A x \in Q : \E n \in P : s[n] = x
  BY DEF Bijection, Injection, Surjection, IsInjective, PlacesOf
<1> HIDE DEF P
<1>3. g \in Bijection(P, Q)
  BY <1>2 DEF Bijection, Injection, Surjection, IsInjective
<1> QED  BY <1>1, <1>3, FS_Bijection DEF ExistsBijection, P

LEMMA TopFiveFacts ==
  ASSUME NEW value, IsFiniteSet(DOMAIN value), \A i \in DOMAIN value : value[i] \in Nat,
         NEW minimum \in Nat, NEW H \in TopFive(value, minimum)
  PROVE  /\ H \subseteq DOMAIN value /\ Cardinality(H) <= Top
         /\ \A i \in H : value[i] >= minimum
         /\ \A i \in DOMAIN value \ H : value[i] >= minimum =>
              Cardinality(H) = Top /\ \A j \in H : value[j] >= value[i]
<1> DEFINE S == {i \in DOMAIN value : value[i] >= minimum}
           N == Cardinality(S)
<1>1. PICK s \in Rankings(S, value) : H = {s[n] : n \in {m \in DOMAIN s : m <= Top}}
  BY DEF TopFive
<1>2. S \in SUBSET DOMAIN value /\ IsFiniteSet(S)
  <2>1. S \in SUBSET DOMAIN value
    OBVIOUS
  <2> HIDE DEF S
  <2> QED  BY <2>1, FS_Subset
<1>3. Top \in Nat
  BY EvidenceAssumption
<1>a. \A i \in S : i \in DOMAIN value /\ value[i] \in Nat /\ value[i] >= minimum
  OBVIOUS
<1>b. \A i \in DOMAIN value : value[i] >= minimum => i \in S
  OBVIOUS
<1> HIDE DEF S
<1>4. /\ s \in [1 .. N -> S] /\ \A m, n \in 1 .. N : s[m] = s[n] => m = n
      /\ \A m, n \in 1 .. N : m < n => value[s[m]] >= value[s[n]]
  BY <1>1 DEF Rankings, SetToSeqs
<1>5. N \in Nat /\ s \in Bijection(1 .. N, S)
  BY <1>2, <1>4, Enumerates
<1> HIDE DEF N
<1>6. H = {s[n] : n \in {m \in 1 .. N : m <= Top}} /\ H \in SUBSET S
  BY <1>1, <1>4
<1>7. Cardinality(H) = IF N <= Top THEN N ELSE Top
  <2> DEFINE P == PlacesOf(s, N, H)
  <2>1. \A n \in 1 .. N : s[n] \in H <=> n <= Top
    BY <1>4, <1>6
  <2>4. Cardinality(P) = Cardinality(H)
    BY <1>5, <1>6, Counted
  <2>2. CASE N <= Top
    <3>1. P = 1 .. N
      BY <1>3, <1>5, <2>1, <2>2 DEF PlacesOf
    <3>2. Cardinality(1 .. N) = N
      BY <1>5, FS_Interval
    <3> HIDE DEF P
    <3> QED  BY <2>2, <2>4, <3>1, <3>2
  <2>3. CASE ~ (N <= Top)
    <3>1. P = 1 .. Top
      BY <1>3, <1>5, <2>1, <2>3 DEF PlacesOf
    <3>2. Cardinality(1 .. Top) = Top
      BY <1>3, FS_Interval
    <3> HIDE DEF P
    <3> QED  BY <2>3, <2>4, <3>1, <3>2
  <2> QED  BY <2>2, <2>3
<1>8. ASSUME NEW i \in DOMAIN value \ H, value[i] >= minimum
      PROVE  Cardinality(H) = Top /\ \A j \in H : value[j] >= value[i]
  <2>1. i \in S
    BY <1>8, <1>b
  <2>2. PICK n \in 1 .. N : s[n] = i
    BY <1>5, <2>1 DEF Bijection, Surjection
  <2>3. n > Top
    BY <1>3, <1>5, <1>6, <2>2
  <2>4. ASSUME NEW j \in H
        PROVE  value[j] >= value[i]
    <3>1. PICK m \in 1 .. N : m <= Top /\ j = s[m]
      BY <1>6
    <3>2. m < n
      BY <1>3, <1>5, <2>3, <3>1
    <3> QED  BY <1>4, <2>2, <3>1, <3>2
  <2> QED  BY <1>3, <1>5, <1>7, <2>3, <2>4
<1> QED  BY <1>3, <1>5, <1>6, <1>7, <1>8, <1>a

-----------------------------------------------------------------------------
(* Medians *)

\* Min of FiniteSetsExt is the smallest number of a set.
LEMMA Smallest ==
  ASSUME NEW S \in SUBSET Nat, S # {}
  PROVE  Min(S) \in S /\ \A n \in S : Min(S) <= n
<1> DEFINE less == OpToRel(<, Nat)
<1>1. IsWellFoundedOn(less, Nat)
  BY NatLessThanWellFounded
<1>2. \A m, n \in Nat : m < n => <<m, n>> \in less
  BY DEF OpToRel
<1> HIDE DEF less
<1>3. PICK m \in S : \A n \in S : ~ (<<n, m>> \in less)
  BY <1>1, WFMin
<1>4. \A n \in S : m <= n
  <2> SUFFICES ASSUME NEW n \in S  PROVE m <= n
    OBVIOUS
  <2>1. ~ (n < m)
    BY <1>2, <1>3, Zenon
  <2> QED  BY <2>1
<1> QED  BY <1>3, <1>4 DEF Min

Numbers(values, N) == N \in Nat /\ values \in [1 .. N -> Nat] /\ Len(values) = N

LEMMA AtMostFacts ==
  ASSUME NEW values, NEW N, Numbers(values, N), NEW v \in Nat
  PROVE  /\ IsFiniteSet(AtMost(values, v)) /\ AtMost(values, v) \in SUBSET (1 .. N)
         /\ Cardinality(AtMost(values, v)) \in 0 .. N
         /\ \A n \in 1 .. N : n \in AtMost(values, v) <=> values[n] <= v
<1>1. N \in Nat /\ DOMAIN values = 1 .. N
  BY DEF Numbers
<1>2. AtMost(values, v) \in SUBSET (1 .. N) /\ \A n \in 1 .. N : n \in AtMost(values, v) <=> values[n] <= v
  BY <1>1 DEF AtMost
<1>3. IsFiniteSet(1 .. N) /\ Cardinality(1 .. N) = N
  BY <1>1, FS_Interval
<1>4. IsFiniteSet(AtMost(values, v)) /\ Cardinality(AtMost(values, v)) <= N
  BY <1>2, <1>3, FS_Subset
<1>5. Cardinality(AtMost(values, v)) \in Nat
  BY <1>4, FS_CardinalityType
<1> QED  BY <1>1, <1>2, <1>4, <1>5

\* One of the values is the largest.
LEMMA LargestValue ==
  ASSUME NEW values, NEW N, Numbers(values, N), N > 0
  PROVE  \E v \in Range(values) : Cardinality(AtMost(values, v)) = N
<1>1. N \in Nat /\ DOMAIN values = 1 .. N /\ \A n \in 1 .. N : values[n] \in Nat /\ values[n] \in Range(values)
  BY DEF Numbers, Range
<1>2. \A v \in Range(values) : v \in Nat /\ \E n \in 1 .. N : values[n] = v
  BY <1>1 DEF Range
<1> DEFINE c(v) == Cardinality(AtMost(values, v))
           U    == {N - c(v) : v \in Range(values)}
<1>3. \A v \in Range(values) : c(v) \in 0 .. N /\ N - c(v) \in Nat
  <2> SUFFICES ASSUME NEW v \in Range(values)  PROVE c(v) \in 0 .. N /\ N - c(v) \in Nat
    OBVIOUS
  <2>1. Cardinality(AtMost(values, v)) \in 0 .. N
    BY <1>2, AtMostFacts
  <2> QED  BY <1>1, <2>1
<1>4. U \in SUBSET Nat /\ U # {}
  <2>1. values[1] \in Range(values)
    BY <1>1
  <2>2. U # {}
    BY <2>1
  <2>3. \A u \in U : u \in Nat
    BY <1>3
  <2> QED  BY <2>2, <2>3
<1>5. Min(U) \in U /\ \A u \in U : Min(U) <= u
  <2> HIDE DEF U
  <2> QED  BY <1>4, Smallest
<1>6. PICK v \in Range(values) : Min(U) = N - c(v)
  BY <1>5
<1>7. \A w \in Range(values) : c(w) <= c(v)
  <2> SUFFICES ASSUME NEW w \in Range(values)  PROVE c(w) <= c(v)
    OBVIOUS
  <2>1. N - c(v) <= N - c(w)
    BY <1>5, <1>6
  <2>2. c(v) \in 0 .. N /\ c(w) \in 0 .. N
    BY <1>3
  <2> HIDE DEF c
  <2> QED  BY <1>1, <2>1, <2>2
<1>8. \A n \in 1 .. N : values[n] <= v
  <2> SUFFICES ASSUME NEW n \in 1 .. N, ~ (values[n] <= v)  PROVE FALSE
    OBVIOUS
  <2> DEFINE A == AtMost(values, v)
             B == AtMost(values, values[n])
  <2>1. v \in Nat /\ values[n] \in Nat /\ values[n] > v
    BY <1>1, <1>2
  <2>2. /\ IsFiniteSet(A) /\ A \in SUBSET (1 .. N)
        /\ \A m \in 1 .. N : m \in A <=> values[m] <= v
    BY <2>1, AtMostFacts
  <2>3. /\ IsFiniteSet(B) /\ B \in SUBSET (1 .. N) /\ Cardinality(B) \in 0 .. N
        /\ \A m \in 1 .. N : m \in B <=> values[m] <= values[n]
    BY <2>1, AtMostFacts
  <2>4. Cardinality(B) <= Cardinality(A)
    BY <1>1, <1>7
  <2> HIDE DEF A, B
  <2>5. n \notin A /\ A \cup {n} \subseteq B
    BY <1>1, <2>1, <2>2, <2>3
  <2>6. IsFiniteSet(A \cup {n}) /\ Cardinality(A \cup {n}) = Cardinality(A) + 1
    BY <2>2, <2>5, FS_AddElement
  <2>7. Cardinality(A \cup {n}) <= Cardinality(B)
    BY <2>3, <2>5, FS_Subset
  <2>8. Cardinality(A) \in Nat
    BY <2>2, FS_CardinalityType
  <2> QED  BY <2>3, <2>4, <2>6, <2>7, <2>8
<1>9. AtMost(values, v) = 1 .. N
  BY <1>1, <1>8 DEF AtMost
<1> QED  BY <1>1, <1>9, FS_Interval

\* More than half of the values do not exceed the median, and it is the least
\* of them for which that is so.
LEMMA MedianFacts ==
  ASSUME NEW values, NEW N, Numbers(values, N), N > 0
  PROVE  /\ Median(values) \in Nat /\ \E n \in 1 .. N : values[n] = Median(values)
         /\ Cardinality(AtMost(values, Median(values))) > N \div 2
         /\ \A v \in Range(values) : Cardinality(AtMost(values, v)) > N \div 2 => Median(values) <= v
<1> DEFINE S == {v \in Range(values) : Cardinality(AtMost(values, v)) > N \div 2}
<1>1. N \in Nat /\ Len(values) = N /\ DOMAIN values = 1 .. N /\ \A n \in 1 .. N : values[n] \in Nat
  BY DEF Numbers
<1>2. \A v \in Range(values) : v \in Nat /\ \E n \in 1 .. N : values[n] = v
  BY <1>1 DEF Range
<1>3. S \in SUBSET Nat
  BY <1>2
<1>4. S # {}
  <2>1. PICK v \in Range(values) : Cardinality(AtMost(values, v)) = N
    BY LargestValue
  <2>2. N > N \div 2
    BY <1>1
  <2> QED  BY <2>1, <2>2
<1>5. Min(S) \in S /\ \A v \in S : Min(S) <= v
  <2> HIDE DEF S
  <2> QED  BY <1>3, <1>4, Smallest
<1>6. Median(values) = Min(S)
  BY <1>1 DEF Median
<1> QED  BY <1>2, <1>5, <1>6

AllBut(values, N, k, v) == \A n \in 1 .. N : n # k => values[n] = v

\* When all but one agree, that is the median.
LEMMA MedianOfMost ==
  ASSUME NEW values, NEW N, Numbers(values, N), N >= 3, NEW k \in 1 .. N, NEW v \in Nat,
         AllBut(values, N, k, v)
  PROVE  Median(values) = v
<1> USE DEF AllBut
<1>1. N \in Nat /\ DOMAIN values = 1 .. N /\ \A n \in 1 .. N : values[n] \in Nat
  BY DEF Numbers
<1>2. v \in Range(values)
  <2>1. (IF k = 1 THEN 2 ELSE 1) \in 1 .. N /\ (IF k = 1 THEN 2 ELSE 1) # k
    BY <1>1
  <2> QED  BY <1>1, <2>1 DEF Range
<1> DEFINE m == Median(values)
<1>3. /\ m \in Nat /\ \E n \in 1 .. N : values[n] = m
      /\ Cardinality(AtMost(values, m)) > N \div 2
      /\ \A w \in Range(values) : Cardinality(AtMost(values, w)) > N \div 2 => m <= w
  BY <1>1, MedianFacts
<1> HIDE DEF m
<1>4. Cardinality(AtMost(values, v)) > N \div 2
  <2> DEFINE D == 1 .. N
  <2>1. IsFiniteSet(D) /\ Cardinality(D) = N
    BY <1>1, FS_Interval
  <2>2. IsFiniteSet(D \ {k}) /\ Cardinality(D \ {k}) = N - 1
    <3>1. /\ IsFiniteSet(D \ {k})
          /\ Cardinality(D \ {k}) = IF k \in D THEN Cardinality(D) - 1 ELSE Cardinality(D)
      BY <2>1, FS_RemoveElement
    <3> QED  BY <2>1, <3>1
  <2>3. D \ {k} \subseteq AtMost(values, v)
    BY <1>1 DEF AtMost
  <2>4. IsFiniteSet(AtMost(values, v)) /\ Cardinality(AtMost(values, v)) \in 0 .. N
    BY AtMostFacts
  <2>5. Cardinality(D \ {k}) <= Cardinality(AtMost(values, v))
    BY <2>3, <2>4, FS_Subset
  <2>6. N - 1 > N \div 2
    BY <1>1
  <2> QED  BY <1>1, <2>2, <2>4, <2>5, <2>6
<1>5. m <= v
  BY <1>2, <1>3, <1>4
<1>6. ~ (m < v)
  <2> SUFFICES ASSUME m < v  PROVE FALSE
    OBVIOUS
  <2>1. AtMost(values, m) \subseteq {k}
    BY <1>1, <1>3 DEF AtMost
  <2>2. Cardinality(AtMost(values, m)) <= 1
    <3>1. IsFiniteSet({k}) /\ Cardinality({k}) = 1
      BY FS_Singleton
    <3> QED  BY <2>1, <3>1, FS_Subset
  <2>3. Cardinality(AtMost(values, m)) \in 0 .. N
    BY <1>3, AtMostFacts
  <2>4. N \div 2 >= 1
    BY <1>1
  <2> QED  BY <1>1, <1>3, <2>2, <2>3, <2>4
<1> QED  BY <1>3, <1>5, <1>6 DEF m

-----------------------------------------------------------------------------
(* What the rows say beside each other *)

LEMMA Fields == \A r : r.cpu = r["cpu"] /\ r.memory = r["memory"] /\ r.disk = r["disk"]
OBVIOUS

\* The values of a measure of some rows, one by one.
LEMMA ValuesFacts ==
  ASSUME NEW rs, NEW S, IsFiniteSet(S), NEW field, \A j \in S : rs[j][field] \in Nat
  PROVE  \E s \in Bijection(1 .. Cardinality(S), S) :
           /\ Numbers(ValuesOf(rs, S, field), Cardinality(S))
           /\ \A n \in 1 .. Cardinality(S) : ValuesOf(rs, S, field)[n] = rs[s[n]][field]
<1> DEFINE N == Cardinality(S)
           s == SetToSeq(S)
<1>1. N \in Nat /\ \E g \in [1 .. N -> S] : \A i, j \in 1 .. N : g[i] = g[j] => i = j
  <2>1. N \in Nat /\ ExistsBijection(1 .. N, S)
    BY FS_CardinalityType
  <2> HIDE DEF N
  <2>2. PICK g \in Bijection(1 .. N, S) : TRUE
    BY <2>1 DEF ExistsBijection
  <2>3. g \in [1 .. N -> S] /\ \A i, j \in 1 .. N : g[i] = g[j] => i = j
    BY <2>2 DEF Bijection, Injection, IsInjective
  <2> QED  BY <2>1, <2>3
<1>2. s \in [1 .. N -> S] /\ \A i, j \in 1 .. N : s[i] = s[j] => i = j
  <2>1. PICK g \in [1 .. N -> S] : \A i, j \in 1 .. N : g[i] = g[j] => i = j
    BY <1>1
  <2>2. IsInjective(g)
    BY <2>1 DEF IsInjective
  <2>3. s \in [1 .. N -> S] /\ IsInjective(s)
    BY <2>2 DEF SetToSeq
  <2> QED  BY <2>3 DEF IsInjective
<1> HIDE DEF s
<1>3. s \in Bijection(1 .. N, S)
  BY <1>2, Enumerates
<1>4. ValuesOf(rs, S, field) = [n \in 1 .. N |-> rs[s[n]][field]]
  BY <1>2 DEF ValuesOf, s
<1>5. ValuesOf(rs, S, field) \in [1 .. N -> Nat] /\ \A n \in 1 .. N : ValuesOf(rs, S, field)[n] = rs[s[n]][field]
  BY <1>2, <1>4
<1>6. Len(ValuesOf(rs, S, field)) = N
  BY <1>1, <1>5
<1> QED  BY <1>1, <1>3, <1>5, <1>6 DEF Numbers

LEMMA SaturatedFacts ==
  ASSUME NEW x \in Nat, NEW y \in Nat
  PROVE  Saturated(x) \in Nat /\ (x <= y => Saturated(x) <= Saturated(y)) /\ Saturated(0) = 0
BY EvidenceAssumption DEF Saturated

\* What exceeds the limit of its peers exceeds most of them by the distance.
LEMMA BeyondLimit ==
  ASSUME NEW rs, NEW S, IsFiniteSet(S), Cardinality(S) >= 3, NEW field,
         \A j \in S : rs[j][field] \in Nat,
         NEW delta \in Nat, NEW x \in Nat, x > RobustLimit(ValuesOf(rs, S, field), delta)
  PROVE  2 * Cardinality({j \in S : x > Saturated(rs[j][field] + delta)}) > Cardinality(S)
<1> DEFINE N      == Cardinality(S)
           values == ValuesOf(rs, S, field)
           mid    == Median(values)
           apart  == [n \in DOMAIN values |-> Distance(values[n], mid)]
           A      == AtMost(values, mid)
           Q      == {j \in S : rs[j][field] <= mid}
           W      == {j \in S : x > Saturated(rs[j][field] + delta)}
<1>1. PICK s \in Bijection(1 .. N, S) :
        Numbers(values, N) /\ \A n \in 1 .. N : values[n] = rs[s[n]][field]
  BY ValuesFacts
<1>2. N \in Nat
  BY FS_CardinalityType
<1> HIDE DEF N, values
<1>3. mid \in Nat /\ Cardinality(A) > N \div 2
  BY <1>1, <1>2, MedianFacts DEF N
<1>4. Median(apart) \in Nat
  <2>1. DOMAIN values = 1 .. N /\ \A n \in 1 .. N : values[n] \in Nat
    BY <1>1 DEF Numbers
  <2> HIDE DEF mid
  <2>2. apart \in [1 .. N -> Nat] /\ Len(apart) = N
    <3>1. \A n \in 1 .. N : Distance(values[n], mid) \in Nat
      BY <1>3, <2>1 DEF Distance
    <3>2. apart \in [1 .. N -> Nat]
      BY <2>1, <3>1
    <3> QED  BY <1>2, <3>2
  <2>3. Numbers(apart, N)
    BY <1>2, <2>2 DEF Numbers
  <2> HIDE DEF apart
  <2> QED  BY <1>2, <2>3, MedianFacts DEF N
<1> HIDE DEF mid, apart
<1> DEFINE more == Greater(Saturated(4 * Median(apart)), delta)
<1>5. more \in Nat /\ more >= delta
  <2>1. Saturated(4 * Median(apart)) \in Nat
    BY <1>4, SaturatedFacts
  <2> QED  BY <2>1 DEF Greater
<1>6. RobustLimit(values, delta) = Saturated(mid + more)
  BY DEF RobustLimit, mid, apart, more
<1> HIDE DEF more
<1>7. Q \subseteq W
  <2> SUFFICES ASSUME NEW j \in S, rs[j][field] <= mid
               PROVE  x > Saturated(rs[j][field] + delta)
    OBVIOUS
  <2> DEFINE low  == rs[j][field] + delta
             high == mid + more
  <2>1. low \in Nat /\ high \in Nat /\ low <= high
    <3>1. rs[j][field] \in Nat
      OBVIOUS
    <3> QED  BY <3>1, <1>3, <1>5
  <2> HIDE DEF low, high
  <2>a. Saturated(low) <= Saturated(high) /\ Saturated(low) \in Nat /\ Saturated(high) \in Nat
    BY <2>1, SaturatedFacts
  <2>2. Saturated(rs[j][field] + delta) <= Saturated(mid + more)
    BY <2>a DEF low, high
  <2>3. Saturated(rs[j][field] + delta) \in Nat /\ Saturated(mid + more) \in Nat
    BY <2>a DEF low, high
  <2>4. x > Saturated(mid + more)
    BY <1>6 DEF values
  <2> QED  BY <2>2, <2>3, <2>4
<1>8. Cardinality(Q) = Cardinality(A)
  <2>1. Q \in SUBSET S /\ \A j \in S : j \in Q <=> rs[j][field] <= mid
    OBVIOUS
  <2> HIDE DEF Q
  <2>2. \A n \in 1 .. N : s[n] \in S
    BY DEF Bijection, Injection
  <2>3. A = PlacesOf(s, N, Q)
    <3>1. DOMAIN values = 1 .. N
      BY <1>1 DEF Numbers
    <3> QED  BY <1>1, <2>1, <2>2, <3>1 DEF AtMost, PlacesOf
  <2> HIDE DEF A, W
  <2>4. Cardinality(PlacesOf(s, N, Q)) = Cardinality(Q)
    BY <1>1, <1>2, <2>1, Counted
  <2> QED  BY <2>3, <2>4
<1>9. Cardinality(Q) <= Cardinality(W) /\ Cardinality(Q) \in Nat /\ Cardinality(W) \in Nat
  <2>1. W \in SUBSET S
    OBVIOUS
  <2> HIDE DEF W, Q
  <2>2. IsFiniteSet(W)
    BY <2>1, FS_Subset
  <2>3. IsFiniteSet(Q) /\ Cardinality(Q) <= Cardinality(W)
    BY <1>7, <2>2, FS_Subset
  <2> QED  BY <2>2, <2>3, FS_CardinalityType
<1> HIDE DEF W, Q, A
<1>10. 2 * Cardinality(W) > N
  BY <1>2, <1>3, <1>8, <1>9
<1> QED  BY <1>10 DEF W, N

\* When all the others agree, they set the limit.
LEMMA LimitOfOthers ==
  ASSUME NEW rs, NEW S, IsFiniteSet(S), Cardinality(S) >= 3, NEW field,
         \A j \in S : rs[j][field] \in Nat,
         NEW delta \in Nat, NEW v \in Nat, NEW i \in S, \A j \in S \ {i} : rs[j][field] = v
  PROVE  RobustLimit(ValuesOf(rs, S, field), delta) = Saturated(v + delta)
<1> DEFINE N      == Cardinality(S)
           values == ValuesOf(rs, S, field)
           apart  == [n \in DOMAIN values |-> Distance(values[n], v)]
<1>1. PICK s \in Bijection(1 .. N, S) :
        Numbers(values, N) /\ \A n \in 1 .. N : values[n] = rs[s[n]][field]
  BY ValuesFacts
<1>2. N \in Nat
  BY FS_CardinalityType
<1>3. N >= 3
  OBVIOUS
<1> HIDE DEF N, values
<1>4. PICK k \in 1 .. N : s[k] = i
  BY DEF Bijection, Surjection
<1>5. \A n \in 1 .. N : n # k => values[n] = v
  <2> SUFFICES ASSUME NEW n \in 1 .. N, n # k  PROVE values[n] = v
    OBVIOUS
  <2>1. s[n] \in S /\ s[n] # i
    BY <1>4 DEF Bijection, Injection, IsInjective
  <2> QED  BY <1>1, <2>1
<1>6. Median(values) = v
  <2>1. AllBut(values, N, k, v)
    BY <1>5 DEF AllBut
  <2> QED  BY <1>1, <1>3, <2>1, MedianOfMost
<1>7. DOMAIN values = 1 .. N /\ \A n \in 1 .. N : values[n] \in Nat
  BY <1>1 DEF Numbers
<1>8. Median(apart) = 0
  <2>1. apart \in [1 .. N -> Nat] /\ \A n \in 1 .. N : n # k => apart[n] = 0
    BY <1>5, <1>7 DEF Distance
  <2>2. Len(apart) = N
    BY <1>2, <2>1
  <2>3. Numbers(apart, N)
    BY <1>2, <2>1, <2>2 DEF Numbers
  <2>4. AllBut(apart, N, k, 0) /\ 0 \in Nat
    BY <2>1 DEF AllBut
  <2> HIDE DEF apart
  <2> QED  BY <1>3, <2>3, <2>4, MedianOfMost
<1>9. RobustLimit(values, delta) = Saturated(v + Greater(Saturated(4 * Median(apart)), delta))
  BY <1>6 DEF RobustLimit, apart
<1> HIDE DEF apart
<1>10. Greater(Saturated(4 * Median(apart)), delta) = delta
  <2>1. 4 * Median(apart) = 0 /\ Saturated(0) = 0
    BY <1>8, SaturatedFacts
  <2> QED  BY <2>1 DEF Greater
<1> QED  BY <1>9, <1>10 DEF values

\* The rows of a scan before they are compared, with measures that are numbers
\* and none of the findings that come of comparing.
Solid(base) ==
    /\ IsFiniteSet(DOMAIN base)
    /\ \A i \in DOMAIN base :
         /\ base[i].cpu \in Nat /\ base[i].memory \in Nat /\ base[i].disk \in Nat
         /\ base[i].findings \cap (HeavyFlags \cup {"PeerOutlier"}) = {}

\* rs are the rows of base with the findings that come of comparing.
Compared(rs, base, heavy) ==
    /\ DOMAIN rs = DOMAIN base
    /\ \A i \in DOMAIN rs :
         /\ rs[i].path = base[i].path
         /\ \A field \in {"cpu", "memory", "disk"} : rs[i][field] = base[i][field]
         /\ \A f \in HeavyFlags : f \in rs[i].findings <=> i \in heavy[f]
         /\ "PeerOutlier" \in rs[i].findings <=> i \in PeerOutliers(base)

LEMMA ShownCompared ==
  ASSUME NEW rs, NEW base, NEW heavy, NEW restarting, Solid(base), DOMAIN rs = DOMAIN base,
         \A i \in DOMAIN base : Shown(rs[i], base, i, heavy, restarting)
  PROVE  Compared(rs, base, heavy)
<1> SUFFICES ASSUME NEW i \in DOMAIN base
             PROVE  /\ rs[i].path = base[i].path
                    /\ \A field \in {"cpu", "memory", "disk"} : rs[i][field] = base[i][field]
                    /\ \A f \in HeavyFlags : f \in rs[i].findings <=> i \in heavy[f]
                    /\ "PeerOutlier" \in rs[i].findings <=> i \in PeerOutliers(base)
  BY Zenon DEF Compared
<1> DEFINE out  == PeerOutliers(base)
           more == LiveFindings(base, i, heavy, out, restarting, InIndex)
<1>1. /\ rs[i].path = base[i].path
      /\ rs[i].cpu = base[i].cpu /\ rs[i].memory = base[i].memory /\ rs[i].disk = base[i].disk
      /\ rs[i].findings = base[i].findings \cup more
  BY DEF Shown
<1>2. base[i].findings \cap (HeavyFlags \cup {"PeerOutlier"}) = {}
  BY DEF Solid
<1>3. /\ \A f \in HeavyFlags : f \in more <=> i \in heavy[f]
      /\ "PeerOutlier" \in more <=> i \in out
  <2> HIDE DEF out
  <2>1. \A f : f \in more <=>
          \/ f \in HeavyFlags /\ i \in heavy[f]
          \/ f = "ManyInstances" /\ Cardinality(Peers(base, base[i].path)) >= 2
          \/ f = "PeerOutlier" /\ i \in out
          \/ f = "Restarting" /\ base[i].path \in restarting
          \/ f = "StartsAutomatically" /\ base[i].path \in InIndex
    BY DEF LiveFindings
  <2> HIDE DEF more
  <2> QED  BY <2>1 DEF HeavyFlags
<1> HIDE DEF out, more
<1>4. \A field \in {"cpu", "memory", "disk"} : rs[i][field] = base[i][field]
  BY <1>1, Fields
<1>5. \A f \in HeavyFlags : f \in rs[i].findings <=> i \in heavy[f]
  BY <1>1, <1>2, <1>3
<1>6. "PeerOutlier" \in rs[i].findings <=> i \in out
  BY <1>1, <1>2, <1>3
<1> QED  BY <1>1, <1>4, <1>5, <1>6 DEF out

\* The rows that are marked for a measure are its largest.
LEMMA LargestAre ==
  ASSUME NEW base, NEW heavy, Solid(base), Compared(rows', base, heavy),
         NEW flag \in HeavyFlags, NEW field \in {"cpu", "memory", "disk"}, NEW minimum \in Nat,
         heavy[flag] \in TopFive(Measured(base, field), minimum)
  PROVE  LargestMarked(flag, field, minimum)'
<1> DEFINE value == Measured(base, field)
           H     == heavy[flag]
<1>1. /\ DOMAIN value = DOMAIN base /\ IsFiniteSet(DOMAIN value)
      /\ \A i \in DOMAIN base : value[i] = base[i][field] /\ value[i] \in Nat
  BY Fields DEF Measured, Solid
<1> HIDE DEF value
<1>2. /\ H \subseteq DOMAIN base /\ Cardinality(H) <= Top
      /\ \A i \in H : value[i] >= minimum
      /\ \A i \in DOMAIN base \ H : value[i] >= minimum =>
           Cardinality(H) = Top /\ \A j \in H : value[j] >= value[i]
  <2>1. H \in TopFive(value, minimum)
    BY DEF value
  <2> HIDE DEF H
  <2> QED  BY <1>1, <2>1, TopFiveFacts
<1>3. DOMAIN rows' = DOMAIN base /\ \A i \in DOMAIN base : rows'[i][field] = value[i]
  BY <1>1 DEF Compared
<1>4. \A i \in DOMAIN base : flag \in rows'[i].findings <=> i \in H
  BY DEF Compared
<1> HIDE DEF H
<1>5. Marked(flag)' = H
  BY <1>2, <1>3, <1>4 DEF Marked
<1> QED  BY <1>2, <1>3, <1>5 DEF LargestMarked

\* A row is an outlier if it exceeds a limit of its own peers.
Exceeds(base, i, field, delta) ==
    base[i][field] > RobustLimit(ValuesOf(base, Peers(base, base[i].path), field), delta)

LEMMA OutlierFacts ==
  ASSUME NEW base, NEW i \in DOMAIN base
  PROVE  i \in PeerOutliers(base) <=>
           /\ base[i].path # NoPath /\ Cardinality(Peers(base, base[i].path)) >= 3
           /\ Exceeds(base, i, "cpu", CpuDelta) \/ Exceeds(base, i, "memory", MemoryHeavy)
<1> DEFINE Limit(p, field, delta) == RobustLimit(ValuesOf(base, Peers(base, p), field), delta)
           Paths   == {q \in {base[j].path : j \in DOMAIN base} : Cardinality(Peers(base, q)) >= 3}
           Out(p)  == {j \in Peers(base, p) :
                         base[j].cpu > Limit(p, "cpu", CpuDelta)
                           \/ base[j].memory > Limit(p, "memory", MemoryHeavy)}
<1>1. PeerOutliers(base) = UNION {Out(p) : p \in Paths}
  BY DEF PeerOutliers
<1>2. \A p : i \in Peers(base, p) <=> p # NoPath /\ base[i].path = p
  BY DEF Peers
<1> HIDE DEF Limit
<1>3. \A p : i \in Out(p) <=>
        /\ p # NoPath /\ base[i].path = p
        /\ base[i].cpu > Limit(p, "cpu", CpuDelta) \/ base[i].memory > Limit(p, "memory", MemoryHeavy)
  BY <1>2
<1>4. base[i].path \in Paths <=> Cardinality(Peers(base, base[i].path)) >= 3
  OBVIOUS
<1> HIDE DEF Paths, Out
<1>5. i \in PeerOutliers(base) <=> base[i].path \in Paths /\ i \in Out(base[i].path)
  BY <1>1, <1>3
<1>6. /\ Exceeds(base, i, "cpu", CpuDelta) <=> base[i].cpu > Limit(base[i].path, "cpu", CpuDelta)
      /\ Exceeds(base, i, "memory", MemoryHeavy)
           <=> base[i].memory > Limit(base[i].path, "memory", MemoryHeavy)
  BY Fields DEF Exceeds, Limit
<1> QED  BY <1>3, <1>4, <1>5, <1>6

LEMMA PeersFacts ==
  ASSUME NEW base, NEW heavy, Solid(base), Compared(rows', base, heavy), NEW path,
         NEW field \in {"cpu", "memory", "disk"}
  PROVE  /\ Peers(rows', path) = Peers(base, path) /\ IsFiniteSet(Peers(base, path))
         /\ Peers(base, path) \subseteq DOMAIN base
         /\ \A j \in Peers(base, path) :
              path # NoPath /\ rows'[j][field] = base[j][field] /\ base[j][field] \in Nat
<1>1. /\ Peers(base, path) \subseteq DOMAIN base
      /\ \A j \in Peers(base, path) : path # NoPath
  BY DEF Peers
<1>2. IsFiniteSet(Peers(base, path))
  BY <1>1, FS_Subset DEF Solid
<1>3. Peers(rows', path) = Peers(base, path)
  BY DEF Peers, Compared
<1>4. \A j \in DOMAIN base : rows'[j][field] = base[j][field]
  BY DEF Compared
<1>5. \A j \in DOMAIN base : base[j][field] \in Nat
  BY Fields DEF Solid
<1> QED  BY <1>1, <1>2, <1>3, <1>4, <1>5

\* A row that exceeds the limit of its peers stands out from them.
LEMMA ExceedingStandsOut ==
  ASSUME NEW base, NEW heavy, Solid(base), Compared(rows', base, heavy), NEW i \in DOMAIN base,
         NEW field \in {"cpu", "memory", "disk"}, NEW delta \in Nat,
         base[i].path # NoPath, Cardinality(Peers(base, base[i].path)) >= 3,
         Exceeds(base, i, field, delta)
  PROVE  StandsOut(i, field, delta)'
<1> DEFINE S == Peers(base, base[i].path)
           x == base[i][field]
           W == {j \in S : x > Saturated(base[j][field] + delta)}
<1>1. /\ Peers(rows', base[i].path) = S /\ IsFiniteSet(S) /\ S \subseteq DOMAIN base
      /\ \A j \in S : rows'[j][field] = base[j][field] /\ base[j][field] \in Nat
  BY PeersFacts
<1>2. i \in S /\ rows'[i].path = base[i].path
  BY DEF Peers, Compared
<1>3. x \in Nat /\ rows'[i][field] = x
  BY <1>1, <1>2
<1>4. x > RobustLimit(ValuesOf(base, S, field), delta)
  BY DEF Exceeds
<1>5. Cardinality(S) >= 3
  OBVIOUS
<1> HIDE DEF S, x
<1>6. 2 * Cardinality(W) > Cardinality(S)
  BY <1>1, <1>3, <1>4, <1>5, BeyondLimit
<1>7. {j \in S : x > Saturated(rows'[j][field] + delta)} = W
  BY <1>1
<1> HIDE DEF W
<1> QED  BY <1>1, <1>2, <1>3, <1>6, <1>7 DEF StandsOut

\* A row that alone leaves its peers behind exceeds their limit.
LEMMA AloneExceeds ==
  ASSUME NEW base, NEW heavy, Solid(base), Compared(rows', base, heavy), NEW i \in DOMAIN base,
         NEW field \in {"cpu", "memory", "disk"}, NEW delta \in Nat,
         OffAlone(i, field, delta)'
  PROVE  /\ base[i].path # NoPath /\ Cardinality(Peers(base, base[i].path)) >= 3
         /\ Exceeds(base, i, field, delta)
<1> DEFINE S == Peers(base, base[i].path)
<1>1. /\ Peers(rows', base[i].path) = S /\ IsFiniteSet(S) /\ S \subseteq DOMAIN base
      /\ \A j \in S : /\ base[i].path # NoPath
                      /\ rows'[j][field] = base[j][field] /\ base[j][field] \in Nat
  BY PeersFacts
<1>2. rows'[i].path = base[i].path
  BY DEF Compared
<1>3. base[i].path # NoPath => i \in S
  BY DEF Peers
<1>a. Exceeds(base, i, field, delta) <=> base[i][field] > RobustLimit(ValuesOf(base, S, field), delta)
  BY DEF Exceeds
<1> HIDE DEF S
<1>4. /\ Cardinality(S) >= 3
      /\ \E v \in {rows'[j][field] : j \in S} :
           (\A j \in S \ {i} : rows'[j][field] = v) /\ rows'[i][field] > Saturated(v + delta)
  BY <1>1, <1>2 DEF OffAlone
<1>5. S # {}
  <2>1. S = {} => Cardinality(S) = 0
    BY FS_EmptySet
  <2> QED  BY <1>4, <2>1
<1>6. base[i].path # NoPath /\ i \in S
  BY <1>1, <1>3, <1>5
<1>7. PICK v \in Nat : (\A j \in S \ {i} : base[j][field] = v) /\ base[i][field] > Saturated(v + delta)
  BY <1>1, <1>4, <1>6
<1>8. RobustLimit(ValuesOf(base, S, field), delta) = Saturated(v + delta)
  BY <1>1, <1>4, <1>6, <1>7, LimitOfOthers
<1> QED  BY <1>4, <1>6, <1>7, <1>8, <1>a DEF S

LEMMA ComparedExact ==
  ASSUME NEW base, Solid(base), NEW heavy \in ResourceFindings(base),
         Compared(rows', base, heavy)
  PROVE  ResourcesExact'
<1> USE EvidenceAssumption
<1>1. /\ heavy["HeavyCpu"] \in TopFive(Measured(base, "cpu"), CpuHeavy)
      /\ heavy["HeavyMemory"] \in TopFive(Measured(base, "memory"), MemoryHeavy)
      /\ heavy["HeavyDisk"] \in TopFive(Measured(base, "disk"), DiskHeavy)
  BY DEF ResourceFindings
<1>2. LargestMarked("HeavyCpu", "cpu", CpuHeavy)'
  BY <1>1, LargestAre DEF HeavyFlags
<1>3. LargestMarked("HeavyMemory", "memory", MemoryHeavy)'
  BY <1>1, LargestAre DEF HeavyFlags
<1>4. LargestMarked("HeavyDisk", "disk", DiskHeavy)'
  BY <1>1, LargestAre DEF HeavyFlags
<1>5. DOMAIN rows' = DOMAIN base
  BY DEF Compared
<1>6. \A i \in DOMAIN base : i \in Marked("PeerOutlier")' <=> i \in PeerOutliers(base)
  BY <1>5 DEF Compared, Marked
<1>7. ASSUME NEW i \in Marked("PeerOutlier")'
      PROVE  /\ Cardinality(Peers(rows', rows'[i].path)) >= 3
             /\ StandsOut(i, "cpu", CpuDelta)' \/ StandsOut(i, "memory", MemoryHeavy)'
  <2>1. i \in DOMAIN base /\ i \in PeerOutliers(base)
    BY <1>5, <1>6 DEF Marked
  <2>2. /\ base[i].path # NoPath /\ Cardinality(Peers(base, base[i].path)) >= 3
        /\ Exceeds(base, i, "cpu", CpuDelta) \/ Exceeds(base, i, "memory", MemoryHeavy)
    BY <2>1, OutlierFacts
  <2>3. Peers(rows', rows'[i].path) = Peers(base, base[i].path)
    BY <1>5, <2>1, PeersFacts DEF Compared
  <2> QED  BY <2>1, <2>2, <2>3, ExceedingStandsOut
<1>8. ASSUME NEW i \in DOMAIN rows',
             OffAlone(i, "cpu", CpuDelta)' \/ OffAlone(i, "memory", MemoryHeavy)'
      PROVE  i \in Marked("PeerOutlier")'
  <2>1. /\ base[i].path # NoPath /\ Cardinality(Peers(base, base[i].path)) >= 3
        /\ Exceeds(base, i, "cpu", CpuDelta) \/ Exceeds(base, i, "memory", MemoryHeavy)
    BY <1>5, <1>8, AloneExceeds
  <2> QED  BY <1>5, <1>6, <2>1, OutlierFacts
<1> QED  BY <1>2, <1>3, <1>4, <1>7, <1>8 DEF ResourcesExact

\* What a scan brings is exact.
LEMMA ScansExact ==
  ASSUME Scans
  PROVE  ResourcesExact'
<1>1. PICK f \in FirstScans \cup LaterScans : Refresh(f.processes, f.restarting)
  BY ScanFound
<1> DEFINE ms   == f.processes
           base == Base(ms, records', allowed')
<1>2. PICK heavy \in ResourceFindings(base) :
        /\ DOMAIN rows' = DOMAIN ms
        /\ \A i \in DOMAIN ms : Shown(rows'[i], base, i, heavy, f.restarting)
  BY <1>1, RefreshRows
<1>3. IsFiniteSet(DOMAIN ms) /\ DOMAIN base = DOMAIN ms
  BY FindingsAssumption DEF Base
<1>4. ASSUME NEW i \in DOMAIN ms
      PROVE  /\ base[i].cpu \in Nat /\ base[i].memory \in Nat /\ base[i].disk \in Nat
             /\ base[i].findings \cap (HeavyFlags \cup {"PeerOutlier"}) = {}
  <2> DEFINE match == Match(records', allowed', ms[i].name, Normal[ms[i].path])
             acc   == ms[i].accessible
  <2>1. base[i] = RowOf(ms[i], records', allowed')
    BY DEF Base
  <2>2. /\ base[i].cpu = ms[i].cpu /\ base[i].memory = ms[i].memory /\ base[i].disk = ms[i].disk
        /\ base[i].findings = AboutSnapshot(acc, records', match)
                                \cup (IF acc THEN ms[i].parent ELSE {})
    <3> HIDE DEF base
    <3> QED  BY <2>1 DEF RowOf
  <2>3. /\ {ms[i].cpu, ms[i].memory, ms[i].disk} \subseteq Nat
        /\ ms[i].parent \subseteq {"ParentEnded", "LaunchedByKnown"}
    BY FindingsAssumption
  <2> HIDE DEF base, match
  <2>4. AboutSnapshot(acc, records', match) \subseteq {"New", "DifferentPath"}
    BY DEF AboutSnapshot
  <2> QED  BY <2>2, <2>3, <2>4 DEF HeavyFlags
<1> HIDE DEF base
<1>5. Solid(base)
  BY <1>3, <1>4 DEF Solid
<1>6. Compared(rows', base, heavy)
  BY <1>2, <1>3, <1>5, ShownCompared
<1> QED  BY <1>5, <1>6, ComparedExact

LEMMA ExactKept ==
  ASSUME ResourcesExact, rows' = rows
  PROVE  ResourcesExact'
BY DEF ResourcesExact, LargestMarked, Marked, StandsOut, OffAlone

LEMMA ExactInit ==
  ASSUME Init
  PROVE  ResourcesExact
<1>1. rows = <<>> /\ DOMAIN rows = {}
  BY DEF Init
<1>2. \A flag : Marked(flag) = {}
  BY <1>1 DEF Marked
<1>3. Cardinality({}) = 0
  BY FS_EmptySet
<1>4. ASSUME NEW flag, NEW field, NEW minimum
      PROVE  LargestMarked(flag, field, minimum)
  <2>1. 0 <= Top
    BY EvidenceAssumption
  <2> QED  BY <1>1, <1>2, <1>3, <2>1, Zenon DEF LargestMarked
<1> QED  BY <1>1, <1>2, <1>4 DEF ResourcesExact

-----------------------------------------------------------------------------
(* The invariant *)

LEMMA InvInit ==
  ASSUME Init
  PROVE  Inv
BY DEF Init, Inv, Judged, KeptRecorded

LEMMA InvNext ==
  ASSUME Inv, [Next]_vars
  PROVE  Inv'
<1> USE DEF Inv
<1>1. CASE UNCHANGED vars
  BY <1>1, JudgedStays DEF vars, baseline, KeptRecorded
<1>2. CASE Build
  BY <1>2, JudgedStays DEF Build, baseline, KeptRecorded
<1>3. CASE Return
  BY <1>3, JudgedStays DEF Return, baseline, KeptRecorded
<1>4. CASE Scan
  <2>1. Judged'
    BY <1>4, ScansJudge DEF Scan
  <2>2. KeptRecorded'
    BY <1>4 DEF Scan, KeptRecorded
  <2> QED  BY <2>1, <2>2
<1>5. CASE RecordBaseline
  <2>1. Judged'
    BY <1>5, ScansJudge DEF RecordBaseline
  <2>2. /\ records' = RecordsOf(rows)
        /\ kept' = {<<r.name, Normal[r.path]>> : r \in NamedOnly(rows)}
    BY <1>5 DEF RecordBaseline
  <2>3. ASSUME NEW n, NEW q
        PROVE  <<n, q>> \in kept' <=> n \in DOMAIN records' /\ q \in records'[n]
    <3>1. <<n, q>> \in kept' <=> \E r \in NamedOnly(rows) : n = r.name /\ q = Normal[r.path]
      BY <2>2
    <3> QED  BY <2>2, <3>1, RecordsAreRows
  <2>4. ASSUME NEW n, NEW q, <<n, q>> \in kept'
        PROVE  q \in Exes
    <3>1. PICK r \in NamedOnly(rows) : n = r.name /\ q = Normal[r.path]
      BY <2>2, <2>4
    <3>2. r.path # NoPath /\ \E i \in DOMAIN rows : r = rows[i]
      BY DEF NamedOnly, Range
    <3>3. r.path \in RawPaths
      BY <3>2 DEF Judged, JudgedBy
    <3> QED  BY <3>1, <3>2, <3>3, FindingsAssumption
  <2>5. ASSUME NEW n \in DOMAIN records'
        PROVE  records'[n] # {}
    <3>1. PICK r \in NamedOnly(rows) : n = r.name
      BY <2>2, RecordsAreRows
    <3>2. Normal[r.path] \in records'[n]
      BY <2>2, <3>1, RecordsAreRows
    <3> QED  BY <3>2
  <2>6. kept' # {} => DOMAIN records' # {}
    <3> SUFFICES ASSUME kept' # {}
                 PROVE  DOMAIN records' # {}
      OBVIOUS
    <3>1. PICK r : r \in NamedOnly(rows)
      BY <2>2
    <3>2. r.name \in DOMAIN records'
      BY <2>2, <3>1, RecordsAreRows
    <3> QED  BY <3>2
  <2>7. KeptRecorded'
    BY <2>3, <2>4, <2>5, <2>6 DEF KeptRecorded
  <2> QED  BY <2>1, <2>7
<1>6. CASE Allow
  <2>1. Judged'
    BY <1>6, ScansJudge DEF Allow
  <2>2. KeptRecorded'
    BY <1>6 DEF Allow, KeptRecorded
  <2> QED  BY <2>1, <2>2
<1>7. CASE Unallow
  <2>1. Judged'
    BY <1>7, ScansJudge DEF Unallow
  <2>2. KeptRecorded'
    BY <1>7 DEF Unallow, KeptRecorded
  <2> QED  BY <2>1, <2>2
<1> QED
  BY <1>1, <1>2, <1>3, <1>4, <1>5, <1>6, <1>7 DEF Next

\* Judged and KeptRecorded hold in every reachable state.
THEOREM Invariance == Spec => []Inv
<1>1. Init => Inv
  BY InvInit
<1>2. Inv /\ [Next]_vars => Inv'
  BY InvNext
<1> QED  BY <1>1, <1>2, PTL DEF Spec

-----------------------------------------------------------------------------
(* The properties *)

\* A new program is unclassified, which the count of the status line relies on.
LEMMA NewIsUnclassified ==
  ASSUME NEW r, NEW acc \in BOOLEAN, JudgedBy(r, acc, records, allowed), "New" \in r.findings
  PROVE  r.trust = "Unclassified"
BY DEF JudgedBy, Trust

\* The filter Review, the rank and the count of the status line agree on what
\* calls for attention, and New with Starts automatically comes first
\* (matches_filter, risk_rank, refresh).
THEOREM ReviewAgrees == Spec => []ReviewIsRisk
<1>1. Inv => ReviewIsRisk
  <2> SUFFICES ASSUME Inv, NEW i \in DOMAIN rows
               PROVE  /\ InReview(rows[i]) <=> RiskRank(rows[i]) <= 3
                      /\ InReview(rows[i]) <=> Anomalous(rows[i])
                      /\ PersistentAndNew(rows[i]) => RiskRank(rows[i]) = 0
    BY DEF ReviewIsRisk
  <2> DEFINE r == rows[i]
  <2>1. "New" \in r.findings => r.trust = "Unclassified"
    BY NewIsUnclassified DEF Inv, Judged
  <2> HIDE DEF r
  <2>2. InReview(r) <=> Anomalous(r)
    BY <2>1 DEF InReview, Anomalous, PersistentAndNew, Has
  <2>3. InReview(r) <=> RiskRank(r) <= 3
    BY DEF InReview, RiskRank, PersistentAndNew, Has
  <2>4. PersistentAndNew(r) => RiskRank(r) = 0
    BY DEF RiskRank
  <2> QED  BY <2>2, <2>3, <2>4 DEF r
<1> QED  BY <1>1, Invariance, PTL

\* The rows tell new, moved and recorded programs apart just as the snapshot that
\* was last made does (replacement_from_rows against classify_normalized).
THEOREM SnapshotIsTold == Spec => []SnapshotTold
<1>1. Inv => SnapshotTold
  <2> SUFFICES ASSUME Inv, kept # {}, NEW i \in DOMAIN rows,
                      rows[i].trust \notin {"Protected", "Allowed"}
               PROVE  LET r == rows[i]
                          q == Normal[r.path]
                      IN  /\ "New" \in r.findings <=> Recorded(r.name) = {}
                          /\ "DifferentPath" \in r.findings
                                <=> Recorded(r.name) # {} /\ q # NoPath /\ q \notin Recorded(r.name)
                          /\ r.trust = "Unclassified" <=> q \notin Recorded(r.name)
    BY DEF SnapshotTold
  <2> DEFINE r == rows[i]
             n == r.name
             q == Normal[r.path]
             match == MatchOf(r, records, allowed)
  <2>1. PICK acc \in BOOLEAN : JudgedBy(r, acc, records, allowed)
    BY DEF Inv, Judged
  <2>2. /\ DOMAIN records # {} /\ (n \in DOMAIN records => records[n] # {})
        /\ \A p : <<n, p>> \in kept <=> n \in DOMAIN records /\ p \in records[n]
        /\ \A p : <<n, p>> \in kept => p \in Exes
    BY DEF Inv, KeptRecorded
  <2>3. \A p : p \in Recorded(n) <=> n \in DOMAIN records /\ p \in records[n]
    BY <2>2 DEF Recorded
  <2>4. Recorded(n) = {} <=> n \notin DOMAIN records
    BY <2>2, <2>3
  <2>5. q \in Recorded(n) => q # NoPath
    BY FindingsAssumption DEF Recorded
  <2>6. /\ r.trust = Trust(acc, match) /\ r.trust \notin {"Protected", "Allowed"}
        /\ "New" \in r.findings <=> acc /\ match = "None" /\ DOMAIN records # {}
        /\ "DifferentPath" \in r.findings <=> acc /\ match = "PathMismatch"
    BY <2>1 DEF JudgedBy
  <2>7. match = Match(records, allowed, n, q)
    BY DEF MatchOf
  <2> HIDE DEF match, r, n, q
  <2>8. acc /\ match # "Allowed" /\ (r.trust = "Unclassified" <=> match # "Path")
    BY <2>6 DEF Trust
  <2>9. q \notin allowed
    BY <2>7, <2>8 DEF Match
  <2>10. CASE n \notin DOMAIN records
    <3>1. match = "None"
      BY <2>7, <2>9, <2>10 DEF Match
    <3> QED  BY <2>2, <2>3, <2>4, <2>6, <2>8, <2>10, <3>1 DEF n, q, r
  <2>11. CASE n \in DOMAIN records
    <3>1. match = IF q = NoPath THEN "PathUnknown"
                  ELSE IF q \in records[n] THEN "Path" ELSE "PathMismatch"
      BY <2>2, <2>7, <2>9, <2>11 DEF Match
    <3> QED  BY <2>2, <2>3, <2>4, <2>5, <2>6, <2>8, <2>11, <3>1 DEF n, q, r
  <2> QED  BY <2>10, <2>11
<1> QED  BY <1>1, Invariance, PTL

-----------------------------------------------------------------------------
(* The startup index *)

\* The startup index is no more and no less than the registry was, as far as
\* it could be read while other programs changed it (autostart::build).
THEOREM IndexIsFaithful == Spec => []IndexFaithful
<1>1. Init => WalkKnown
  BY WalkStart, FindingsAssumption DEF Init, WalkKnown
<1>2. WalkKnown /\ [Next]_vars => WalkKnown'
  BY WalkKept
<1>3. WalkKnown => IndexFaithful
  BY WalkOver DEF WalkKnown, IndexFaithful
<1> QED  BY <1>1, <1>2, <1>3, PTL DEF Spec

\* TypeOK: the index and the snapshot name executables, the rows have a trust
\* and findings, and a process that could not be asked is neither new nor at a
\* different path nor without its parent.
THEOREM TypeCorrect == Spec => []TypeOK
<1>1. Init => WalkKnown /\ Typed
  BY WalkStart, TypedInit, FindingsAssumption DEF Init, WalkKnown
<1>2. WalkKnown /\ Typed /\ [Next]_vars => (WalkKnown /\ Typed)'
  BY WalkKept, TypedKept
<1>3. WalkKnown /\ Typed => TypeOK
  BY DEF WalkKnown, WalkTypes, Typed, RowTyped, TypeOK
<1> QED  BY <1>1, <1>2, <1>3, PTL DEF Spec

-----------------------------------------------------------------------------
(* Resources *)

\* The rows that are marked for a measure are the largest, whatever ties; an
\* outlier exceeds most of the other instances of its program, and one that
\* alone leaves the rest behind is found (mark_top_five, peer_outliers,
\* robust_limit, median).
THEOREM ResourcesAreExact == Spec => []ResourcesExact
<1>1. Init => ResourcesExact
  BY ExactInit
<1>2. ResourcesExact /\ [Next]_vars => ResourcesExact'
  <2> SUFFICES ASSUME ResourcesExact, [Next]_vars  PROVE ResourcesExact'
    OBVIOUS
  <2>1. rows' = rows \/ Scans
    BY Zenon DEF Next, vars, Build, Return, Scan, RecordBaseline, Allow, Unallow
  <2> QED  BY <2>1, ScansExact, ExactKept
<1> QED  BY <1>1, <1>2, PTL DEF Spec
=============================================================================
