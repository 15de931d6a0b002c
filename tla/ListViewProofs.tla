--------------------------- MODULE ListViewProofs ---------------------------
(***************************************************************************)
(* Theorems about ListView, for any processes, scans, filters, searches    *)
(* and any height of the window: what is on screen is current, and the     *)
(* selection stays on its process.                                         *)
(*                                                                         *)
(* The list, what is remembered of it and the control are updated by parts,*)
(* and Aligned says what holds between the three after each part: the same *)
(* processes in the same places, the evidence of the last refresh, and     *)
(* measurements that agree with what is remembered, if not with the last   *)
(* refresh.  That the sort gives rows at all (Sorting) is a lemma about    *)
(* total orders on places.                                                 *)
(***************************************************************************)
EXTENDS ListView, FiniteSetTheorems, WellFoundedInduction, TLAPS

-----------------------------------------------------------------------------
(* Smallest elements and sorted sequences *)

\* Min of FiniteSetsExt is the smallest number of a set.
LEMMA Smallest ==
  ASSUME NEW S \in SUBSET Nat, S # {}
  PROVE  Min(S) \in S /\ \A n \in S : Min(S) <= n
<1> DEFINE less == OpToRel(<, Nat)
<1>1. IsWellFoundedOn(less, Nat)
  BY NatLessThanWellFounded
<1>2. \A m, n \in Nat : m < n => <<m, n>> \in less
  BY DEF OpToRel
<1> HIDE DEF less
<1>3. PICK m \in S : \A n \in S : ~ (<<n, m>> \in less)
  BY <1>1, WFMin
<1>4. \A n \in S : m <= n
  <2> SUFFICES ASSUME NEW n \in S  PROVE m <= n
    OBVIOUS
  <2>1. ~ (n < m)
    BY <1>2, <1>3, Zenon
  <2> QED  BY <2>1
<1> QED  BY <1>3, <1>4 DEF Min

\* The places that go before i, and i.
UpTo(F, order, i) == {j \in F : <<j, i>> \in order}

\* place gives each number of 1 .. Cardinality(F) to one of F.
Counts(F, place) == \A n \in 1 .. Cardinality(F) : \E i \in F : place[i] = n

TotalOrder(F, order) ==
    /\ \A i \in F : <<i, i>> \in order
    /\ \A i, j \in F : <<i, j>> \in order \/ <<j, i>> \in order
    /\ \A i, j \in F : <<i, j>> \in order /\ <<j, i>> \in order => i = j
    /\ \A i, j, k \in F : <<i, j>> \in order /\ <<j, k>> \in order => <<i, k>> \in order

\* Counting the places that go before or with each, a total order gives each
\* place one number of 1 .. Cardinality(F).
LEMMA Ranking ==
  ASSUME NEW F, IsFiniteSet(F), NEW order, TotalOrder(F, order)
  PROVE  Counts(F, [i \in F |-> Cardinality(UpTo(F, order, i))])
<1> DEFINE below(i) == {j \in F : <<j, i>> \in order}
           place    == [i \in F |-> Cardinality(below(i))]
           N        == 1 .. Cardinality(F)
<1>1. \A i \in F : below(i) \in SUBSET F /\ i \in below(i)
  BY DEF TotalOrder
<1>2. Cardinality(F) \in Nat
  BY FS_CardinalityType
<1>3. \A i \in F : IsFiniteSet(below(i)) /\ Cardinality(below(i)) \in Nat
  BY <1>1, FS_Subset, FS_CardinalityType
<1>4. \A i \in F : Cardinality(below(i)) \in N
  <2> SUFFICES ASSUME NEW i \in F  PROVE Cardinality(below(i)) \in N
    OBVIOUS
  <2>1. Cardinality(below(i)) <= Cardinality(F)
    BY <1>1, FS_Subset
  <2>2. Cardinality(below(i)) # 0
    BY <1>1, <1>3, FS_EmptySet
  <2> QED  BY <1>2, <1>3, <2>1, <2>2
<1>5. place \in [F -> N]
  BY <1>4
<1>6. ASSUME NEW i \in F, NEW j \in F, i # j, <<i, j>> \in order
      PROVE  place[i] < place[j]
  <2>1. below(i) \subseteq below(j) /\ j \notin below(i) /\ j \in below(j)
    BY <1>1, <1>6 DEF TotalOrder
  <2>2. IsFiniteSet(below(j)) /\ Cardinality(below(i)) \in Nat /\ Cardinality(below(j)) \in Nat
    BY <1>3
  <2>3. place[i] = Cardinality(below(i)) /\ place[j] = Cardinality(below(j))
    OBVIOUS
  <2> HIDE DEF below, place
  <2>4. below(i) \in SUBSET below(j) /\ below(i) # below(j)
    BY <2>1
  <2>5. /\ Cardinality(below(i)) <= Cardinality(below(j))
        /\ Cardinality(below(j)) = Cardinality(below(i)) => below(j) = below(i)
    BY <2>2, <2>4, FS_Subset
  <2> QED  BY <2>2, <2>3, <2>4, <2>5
<1>7. \A i, j \in F : place[i] = place[j] => i = j
  <2> SUFFICES ASSUME NEW i \in F, NEW j \in F, i # j  PROVE place[i] # place[j]
    OBVIOUS
  <2> HIDE DEF place
  <2>1. place[i] \in Nat /\ place[j] \in Nat
    BY <1>2, <1>5
  <2>2. CASE <<i, j>> \in order
    BY <1>6, <2>1, <2>2
  <2>3. CASE <<j, i>> \in order
    BY <1>6, <2>1, <2>3
  <2> QED  BY <2>2, <2>3 DEF TotalOrder
<1> HIDE DEF place
<1>8. place \in Injection(F, N)
  BY <1>5, <1>7 DEF Injection, IsInjective
<1>9. IsFiniteSet(N) /\ Cardinality(N) = Cardinality(F)
  BY <1>2, FS_Interval
<1>10. place \in Surjection(F, N)
  BY <1>8, <1>9, FS_Injection
<1>11. \A n \in N : \E i \in F : place[i] = n
  BY <1>10 DEF Surjection
<1> QED  BY <1>11 DEF place, UpTo, Counts

\* A sequence is a function on its places, and a function on 1 .. n a sequence.
LEMMA SequenceFacts ==
  ASSUME NEW T, NEW s \in Seq(T)
  PROVE  Len(s) \in Nat /\ DOMAIN s = 1 .. Len(s) /\ \A i \in DOMAIN s : s[i] \in T
<1>1. Len(s) \in Nat /\ DOMAIN s = 1 .. Len(s)
  OBVIOUS
<1>2. \A i \in 1 .. Len(s) : s[i] \in T
  OBVIOUS
<1> QED  BY <1>1, <1>2

LEMMA SequenceOf ==
  ASSUME NEW T, NEW n \in Nat, NEW s, s \in [1 .. n -> T]
  PROVE  s \in Seq(T) /\ Len(s) = n
<1>1. s \in Seq(T)
  OBVIOUS
<1> QED  BY <1>1

\* The places in a sequence of rows.
LEMMA PlacesFinite ==
  ASSUME NEW s \in Seq(Rows), NEW F \in SUBSET DOMAIN s
  PROVE  IsFiniteSet(F) /\ F \subseteq Nat /\ \A i \in F : s[i] \in Rows
<1>1. DOMAIN s = 1 .. Len(s) /\ Len(s) \in Nat
  OBVIOUS
<1>2. IsFiniteSet(DOMAIN s)
  BY <1>1, FS_Interval
<1>3. IsFiniteSet(F)
  BY <1>2, FS_Subset
<1> QED  BY <1>1, <1>3

Listed(s, F, place) ==
    [n \in 1 .. Cardinality(F) |-> s[CHOOSE i \in F : place[i] = n]]

\* A list whose n-th row is one of those with the place n, for places as a total
\* order gives them, is a sequence of rows.
LEMMA Ordered ==
  ASSUME NEW s \in Seq(Rows), NEW F \in SUBSET DOMAIN s, NEW place,
         Counts(F, place)
  PROVE  Listed(s, F, place) \in Seq(Rows)
<1> DEFINE N == Cardinality(F)
           t == [n \in 1 .. N |-> s[CHOOSE i \in F : place[i] = n]]
<1>2. IsFiniteSet(F) /\ \A i \in F : s[i] \in Rows
  BY PlacesFinite
<1>3. N \in Nat
  BY <1>2, FS_CardinalityType
<1>4. \A n \in 1 .. N : (CHOOSE i \in F : place[i] = n) \in F
  BY DEF Counts
<1>6. t \in [1 .. N -> Rows]
  BY <1>2, <1>4
<1> HIDE DEF N, t
<1>7. t \in Seq(Rows)
  BY <1>3, <1>6
<1> QED  BY <1>7 DEF t, N, Listed

\* Where a column puts a row, as two numbers.
Coarse(r, c) == CASE c = "finding" -> RankOf[r.evidence]
                  [] c = "name"    -> NameOf[r.key]
                  [] c = "load"    -> r.load
Fine(r, c) == IF c = "finding" THEN NameOf[r.key] ELSE 0

LEMMA BeforeByNumbers ==
  ASSUME NEW a \in Rows, NEW b \in Rows, NEW c \in Columns
  PROVE  /\ Coarse(a, c) \in Nat /\ Fine(a, c) \in Nat
         /\ Before(a, b, c) <=> \/ Coarse(a, c) < Coarse(b, c)
                               \/ /\ Coarse(a, c) = Coarse(b, c)
                                  /\ Fine(a, c) < Fine(b, c)
<1>1. /\ a.key \in Keys /\ a.evidence \in Evidences /\ a.load \in Loads
      /\ b.key \in Keys /\ b.evidence \in Evidences /\ b.load \in Loads
  BY DEF Rows
<1>2. /\ RankOf[a.evidence] \in Nat /\ NameOf[a.key] \in Nat /\ a.load \in Nat
      /\ RankOf[b.evidence] \in Nat /\ NameOf[b.key] \in Nat /\ b.load \in Nat
  BY <1>1, ListAssumption
<1>3. c \in {"finding", "name", "load"}
  BY ListAssumption
<1>4. CASE c = "finding"
  BY <1>2, <1>4 DEF Before, Coarse, Fine
<1>5. CASE c = "name"
  BY <1>2, <1>5 DEF Before, Coarse, Fine
<1>6. CASE c = "load"
  BY <1>2, <1>6 DEF Before, Coarse, Fine
<1> QED  BY <1>3, <1>4, <1>5, <1>6

-----------------------------------------------------------------------------
(* The sort gives rows *)

\* Who goes before whom when places are compared by two numbers and then, as a
\* stable sort does, by the places themselves.
Less(x, y, i, j) == x[i] < x[j] \/ (x[i] = x[j] /\ y[i] < y[j])

Goes(x, y, down, j, i) ==
    IF down THEN Less(x, y, i, j) \/ (~Less(x, y, j, i) /\ j <= i)
            ELSE Less(x, y, j, i) \/ (~Less(x, y, i, j) /\ j <= i)

\* The places that go before i, and i.
Ahead(F, x, y, down, i) == {j \in F : Goes(x, y, down, j, i)}

Numbering(F, x, y, down) == [i \in F |-> Cardinality(Ahead(F, x, y, down, i))]

\* This is a total order, upwards and downwards, so that it numbers the places.
LEMMA Numbered ==
  ASSUME NEW F \in SUBSET Nat, IsFiniteSet(F), NEW x \in [F -> Nat], NEW y \in [F -> Nat],
         NEW down \in BOOLEAN
  PROVE  Counts(F, Numbering(F, x, y, down))
<1> DEFINE goes(j, i) == Goes(x, y, down, j, i)
           order == {ji \in F \X F : goes(ji[1], ji[2])}
<1>1. \A i \in F : x[i] \in Nat /\ y[i] \in Nat /\ i \in Nat
  OBVIOUS
<1>2. \A i, j \in F : goes(i, j) \/ goes(j, i)
  BY <1>1 DEF Goes, Less
<1>3. \A i, j \in F : goes(i, j) /\ goes(j, i) => i = j
  <2> SUFFICES ASSUME NEW i \in F, NEW j \in F, goes(i, j), goes(j, i)  PROVE i = j
    OBVIOUS
  <2>1. i <= j /\ j <= i
    BY <1>1 DEF Goes, Less
  <2> QED  BY <1>1, <2>1
<1>4. \A i, j, k \in F : goes(i, j) /\ goes(j, k) => goes(i, k)
  <2> SUFFICES ASSUME NEW i \in F, NEW j \in F, NEW k \in F, goes(i, j), goes(j, k)
               PROVE  goes(i, k)
    OBVIOUS
  <2>1. /\ x[i] \in Nat /\ x[j] \in Nat /\ x[k] \in Nat
        /\ y[i] \in Nat /\ y[j] \in Nat /\ y[k] \in Nat
        /\ i \in Nat /\ j \in Nat /\ k \in Nat
    BY <1>1
  <2>2. CASE down
    BY <2>1, <2>2 DEF Goes, Less
  <2>3. CASE ~down
    BY <2>1, <2>3 DEF Goes, Less
  <2> QED  BY <2>2, <2>3
<1>5. \A i, j \in F : <<j, i>> \in order <=> goes(j, i)
  BY Zenon
<1>6. \A i \in F : UpTo(F, order, i) = Ahead(F, x, y, down, i)
  BY <1>5, Zenon DEF UpTo, Ahead
<1> HIDE DEF order
<1>7. TotalOrder(F, order)
  BY <1>2, <1>3, <1>4, <1>5, Zenon DEF TotalOrder
<1>8. Counts(F, [i \in F |-> Cardinality(UpTo(F, order, i))])
  BY <1>7, Ranking
<1>9. [i \in F |-> Cardinality(UpTo(F, order, i))] = Numbering(F, x, y, down)
  BY <1>6, Zenon DEF Numbering
<1> QED  BY <1>8, <1>9

\* A sort by a column gives rows, upwards and downwards.
LEMMA ByColumnType ==
  ASSUME NEW s \in Seq(Rows), NEW F \in SUBSET DOMAIN s, NEW c \in Columns,
         NEW down \in BOOLEAN
  PROVE  ByColumn(s, F, c, down) \in Seq(Rows)
<1> DEFINE before(a, b) == IF down THEN Before(b, a, c) ELSE Before(a, b, c)
           goes(j, i)   == before(s[j], s[i]) \/ (~before(s[i], s[j]) /\ j <= i)
           place == [i \in F |-> Cardinality({j \in F : goes(j, i)})]
           x == [i \in F |-> Coarse(s[i], c)]
           y == [i \in F |-> Fine(s[i], c)]
<1>1. IsFiniteSet(F) /\ F \in SUBSET Nat /\ \A i \in F : s[i] \in Rows
  BY PlacesFinite
<1>2. \A i \in F : /\ Coarse(s[i], c) \in Nat /\ Fine(s[i], c) \in Nat
                   /\ x[i] = Coarse(s[i], c) /\ y[i] = Fine(s[i], c)
  BY <1>1, BeforeByNumbers
<1>3. x \in [F -> Nat] /\ y \in [F -> Nat]
  BY <1>2
<1> HIDE DEF x, y
<1>4. \A i, j \in F : goes(j, i) <=> Goes(x, y, down, j, i)
  BY <1>1, <1>2, BeforeByNumbers DEF Goes, Less
<1>5. \A i \in F : {j \in F : goes(j, i)} = Ahead(F, x, y, down, i)
  BY <1>4, Zenon DEF Ahead
<1>6. place = Numbering(F, x, y, down)
  BY <1>5, Zenon DEF Numbering
<1>7. place = [i \in F |-> Cardinality({j \in F : goes(j, i)})]
  OBVIOUS
<1> HIDE DEF place
<1>8. Counts(F, place)
  BY <1>1, <1>3, <1>6, Numbered
<1>9. Listed(s, F, place) \in Seq(Rows)
  BY <1>8, Ordered
<1> QED  BY <1>7, <1>9 DEF ByColumn, Sorted, Listed

\* Where a row was drawn is a number.
LEMMA PositionType ==
  ASSUME rendered \in Seq(Rows), NEW k
  PROVE  Position(k) \in Nat
<1>1. CASE k \in KeysIn(rendered)
  <2>1. \E i \in DOMAIN rendered : rendered[i].key = k
    BY <1>1 DEF KeysIn
  <2> QED  BY <1>1, <2>1 DEF Position
<1>2. CASE k \notin KeysIn(rendered)
  BY <1>2 DEF Position
<1> QED  BY <1>1, <1>2

\* A list that keeps its order is of rows.
LEMMA HeldType ==
  ASSUME rendered \in Seq(Rows), NEW s \in Seq(Rows), NEW F \in SUBSET DOMAIN s
  PROVE  Sorted(s, F, LAMBDA a, b : Position(a.key) < Position(b.key)) \in Seq(Rows)
<1> DEFINE goes(j, i) == \/ Position(s[j].key) < Position(s[i].key)
                         \/ (~(Position(s[i].key) < Position(s[j].key)) /\ j <= i)
           place == [i \in F |-> Cardinality({j \in F : goes(j, i)})]
           x == [i \in F |-> Position(s[i].key)]
           y == [i \in F |-> 0]
<1>1. IsFiniteSet(F) /\ F \in SUBSET Nat
  BY PlacesFinite
<1>2. x \in [F -> Nat] /\ y \in [F -> Nat]
  BY PositionType
<1>3. \A i, j \in F : goes(j, i) <=> Goes(x, y, FALSE, j, i)
  BY <1>1, PositionType DEF Goes, Less
<1> HIDE DEF x, y
<1>4. \A i \in F : {j \in F : goes(j, i)} = Ahead(F, x, y, FALSE, i)
  BY <1>3, Zenon DEF Ahead
<1>5. place = Numbering(F, x, y, FALSE)
  BY <1>4, Zenon DEF Numbering
<1>6. place = [i \in F |-> Cardinality({j \in F : goes(j, i)})]
  OBVIOUS
<1> HIDE DEF place
<1>7. Counts(F, place)
  BY <1>1, <1>2, <1>5, Numbered
<1>8. Listed(s, F, place) \in Seq(Rows)
  BY <1>7, Ordered
<1> QED  BY <1>6, <1>8 DEF Sorted, Listed

\* Whatever is asked for, the rows that are displayed are rows.
LEMMA Sorting ==
  ASSUME rendered \in Seq(Rows), NEW rs \in Seq(Rows), NEW f, NEW q, NEW c \in Columns,
         NEW down \in BOOLEAN, NEW force \in BOOLEAN
  PROVE  Arranged(rs, f, q, c, down, force) \in Seq(Rows)
<1> DEFINE F == {i \in DOMAIN rs : Matches(rs[i], f, q)}
<1>1. F \in SUBSET DOMAIN rs
  OBVIOUS
<1> HIDE DEF F
<1>2. ByColumn(rs, F, c, down) \in Seq(Rows)
  BY <1>1, ByColumnType
<1>3. Sorted(rs, F, LAMBDA a, b : Position(a.key) < Position(b.key)) \in Seq(Rows)
  BY <1>1, HeldType
<1> QED  BY <1>2, <1>3 DEF Arranged, F

-----------------------------------------------------------------------------
(* The inductive invariant *)

\* The list, what is remembered as drawn and the control have the same lines;
\* of each line, what is remembered is the evidence of the last refresh and the
\* measurements that the control shows; and if nothing was scrolled since, the
\* lines in view have the measurements of the last refresh.
Aligned ==
    /\ Len(cells) = Len(rendered) /\ Len(rendered) = Len(displayed)
    /\ \A i \in DOMAIN rendered :
         /\ cells[i].key = rendered[i].key /\ rendered[i].key = displayed[i].key
         /\ rendered[i].evidence = displayed[i].evidence
         /\ cells[i].label \in {rendered[i].evidence, "Paused by ProcDrift"}
         /\ cells[i].load = rendered[i].load
         /\ (drawn # "scrolled" /\ InView(i)) => rendered[i].load = displayed[i].load

\* A menu is open on the selected process, if any is selected still.
MenuHeld == menu # NoKey => SelectedKey \in {menu, NoKey}

Inv == TypeOK /\ Aligned /\ MenuHeld

\* The keys of rows are not NoKey, and labels are labels.
LEMMA RowFacts ==
  ASSUME NEW r \in Rows
  PROVE  /\ r.key \in Keys /\ r.key # NoKey /\ r.evidence \in Evidences /\ r.load \in Loads
         /\ Label(r) \in {r.evidence, "Paused by ProcDrift"} /\ Label(r) \in Labels
<1>1. r.key \in Keys /\ r.evidence \in Evidences /\ r.load \in Loads /\ r.paused \in BOOLEAN
  BY DEF Rows
<1>2. Keys \subseteq Nat \ {NoKey}
  BY ListAssumption
<1> QED  BY <1>1, <1>2 DEF Label, Labels

\* The control has a line for each row that is remembered as drawn.
LEMMA Lines ==
  ASSUME TypeOK, Aligned
  PROVE  DOMAIN cells = DOMAIN rendered /\ DOMAIN cells \subseteq Nat
         /\ \A i \in DOMAIN rendered : rendered[i] \in Rows
<1>1. rendered \in Seq(Rows) /\ cells \in Seq(Cells) /\ Len(cells) = Len(rendered)
  BY DEF TypeOK, Aligned
<1>2. /\ DOMAIN cells = 1 .. Len(cells) /\ DOMAIN rendered = 1 .. Len(rendered)
      /\ Len(cells) \in Nat /\ \A i \in DOMAIN rendered : rendered[i] \in Rows
  BY <1>1, SequenceFacts
<1> QED  BY <1>1, <1>2

\* The selected process is one that is drawn.
LEMMA SelectedDrawn ==
  ASSUME TypeOK, Aligned, selected # {}
  PROVE  /\ Min(selected) \in DOMAIN rendered
         /\ SelectedKey = rendered[Min(selected)].key
         /\ SelectedKey \in Keys /\ SelectedKey # NoKey
<1>1. /\ rendered \in Seq(Rows) /\ cells \in Seq(Cells) /\ selected \subseteq DOMAIN cells
      /\ Len(cells) = Len(rendered)
  BY DEF TypeOK, Aligned
<1>2. DOMAIN cells = DOMAIN rendered /\ DOMAIN cells \subseteq Nat
  BY <1>1
<1>3. Min(selected) \in selected
  BY <1>1, <1>2, Smallest
<1>4. Min(selected) \in DOMAIN rendered
  BY <1>1, <1>2, <1>3
<1>5. rendered[Min(selected)] \in Rows
  BY <1>1, <1>4
<1> QED  BY <1>4, <1>5, RowFacts DEF SelectedKey

\* Writing the cells that differ leaves the control, and what is remembered of
\* it, aligned with the new list, and the selection where it is.
LEMMA RedrawStep ==
  ASSUME TypeOK, Aligned, NEW list \in Seq(Rows), displayed' = list,
         SameOrder(list), Redraw(list), drawn' # "scrolled"
  PROVE  /\ rendered' \in Seq(Rows) /\ cells' \in Seq(Cells)
         /\ selected' = selected /\ top' = top
         /\ Aligned'
         /\ Len(rendered') = Len(rendered)
         /\ \A i \in DOMAIN rendered : rendered'[i].key = rendered[i].key
<1>1. /\ rendered \in Seq(Rows) /\ cells \in Seq(Cells) /\ Len(cells) = Len(rendered)
      /\ \A i \in DOMAIN rendered :
           /\ cells[i].key = rendered[i].key
           /\ cells[i].label \in {rendered[i].evidence, "Paused by ProcDrift"}
           /\ cells[i].load = rendered[i].load
  BY DEF TypeOK, Aligned
<1>2. /\ Len(rendered) = Len(list)
      /\ \A i \in DOMAIN list : rendered[i].key = list[i].key
      /\ selected' = selected /\ top' = top
  BY DEF SameOrder, Redraw
<1>3. /\ DOMAIN list = 1 .. Len(list) /\ DOMAIN rendered = DOMAIN list /\ DOMAIN cells = DOMAIN list
      /\ Len(list) \in Nat
  BY <1>1, <1>2, SequenceFacts
<1>4. \A i \in DOMAIN list : rendered[i] \in Rows /\ cells[i] \in Cells /\ list[i] \in Rows
  BY <1>1, <1>3, SequenceFacts
<1>5. \A i : InView(i)' <=> InView(i)
  BY <1>2, Zenon DEF InView
<1>6. CASE \E i \in DOMAIN list : \/ StaticChanged(rendered[i], list[i])
                                  \/ (InView(i) /\ DynamicChanged(rendered[i], list[i]))
  <2>1. /\ cells' = [i \in DOMAIN list |-> Written(i, list[i])]
        /\ rendered' = [i \in DOMAIN list |-> Drawn(i, list[i])]
    BY <1>6 DEF Redraw
  <2>2. ASSUME NEW i \in DOMAIN list
        PROVE  /\ Drawn(i, list[i]) \in Rows
               /\ Drawn(i, list[i]).key = list[i].key
               /\ Drawn(i, list[i]).evidence = list[i].evidence
               /\ InView(i) => Drawn(i, list[i]).load = list[i].load
               /\ ~InView(i) => Drawn(i, list[i]).load = rendered[i].load
    <3>1. rendered[i] \in Rows /\ list[i] \in Rows /\ rendered[i].key = list[i].key
      BY <1>2, <1>4
    <3> QED  BY <3>1, Zenon DEF Drawn, Rows
  <2>3. ASSUME NEW i \in DOMAIN list
        PROVE  /\ Written(i, list[i]) \in Cells
               /\ Written(i, list[i]).key = list[i].key
               /\ Written(i, list[i]).label \in {list[i].evidence, "Paused by ProcDrift"}
               /\ InView(i) => Written(i, list[i]).load = list[i].load
               /\ ~InView(i) => Written(i, list[i]).load = rendered[i].load
    <3>1. /\ rendered[i] \in Rows /\ cells[i] \in Cells /\ list[i] \in Rows
          /\ cells[i].key = list[i].key
          /\ cells[i].label \in {rendered[i].evidence, "Paused by ProcDrift"}
          /\ cells[i].load = rendered[i].load
      BY <1>1, <1>2, <1>3, <1>4
    <3>2. /\ Label(list[i]) \in {list[i].evidence, "Paused by ProcDrift"}
          /\ Label(list[i]) \in Labels /\ list[i].load \in Loads
      BY <3>1, RowFacts
    <3> QED  BY <3>1, <3>2 DEF Written, Cells, StaticChanged, DynamicChanged
  <2>4. /\ DOMAIN cells' = DOMAIN list /\ DOMAIN rendered' = DOMAIN list
        /\ cells' \in Seq(Cells) /\ rendered' \in Seq(Rows)
        /\ Len(cells') = Len(list) /\ Len(rendered') = Len(list)
    <3>1. cells' \in [1 .. Len(list) -> Cells] /\ rendered' \in [1 .. Len(list) -> Rows]
      BY <1>3, <2>1, <2>2, <2>3
    <3>2. DOMAIN cells' = DOMAIN list /\ DOMAIN rendered' = DOMAIN list
      BY <2>1
    <3> QED  BY <1>3, <3>1, <3>2, SequenceOf
  <2>5. \A i \in DOMAIN list :
          /\ cells'[i] = Written(i, list[i]) /\ rendered'[i] = Drawn(i, list[i])
    BY <2>1
  <2>6. ASSUME NEW i \in DOMAIN list
        PROVE  /\ cells'[i].key = rendered'[i].key /\ rendered'[i].key = list[i].key
               /\ rendered'[i].evidence = list[i].evidence
               /\ cells'[i].label \in {rendered'[i].evidence, "Paused by ProcDrift"}
               /\ cells'[i].load = rendered'[i].load
               /\ InView(i) => rendered'[i].load = list[i].load
    <3>1. cells'[i] = Written(i, list[i]) /\ rendered'[i] = Drawn(i, list[i])
      BY <2>5
    <3>2. /\ rendered'[i].key = list[i].key /\ rendered'[i].evidence = list[i].evidence
          /\ InView(i) => rendered'[i].load = list[i].load
          /\ ~InView(i) => rendered'[i].load = rendered[i].load
      BY <2>2, <3>1, Zenon
    <3>3. /\ cells'[i].key = list[i].key
          /\ cells'[i].label \in {list[i].evidence, "Paused by ProcDrift"}
          /\ InView(i) => cells'[i].load = list[i].load
          /\ ~InView(i) => cells'[i].load = rendered[i].load
      BY <2>3, <3>1, Zenon
    <3> QED  BY <3>2, <3>3
  <2> QED  BY <1>2, <1>3, <1>5, <2>4, <2>6 DEF Aligned
<1>7. CASE ~ \E i \in DOMAIN list : \/ StaticChanged(rendered[i], list[i])
                                    \/ (InView(i) /\ DynamicChanged(rendered[i], list[i]))
  <2>1. cells' = cells /\ rendered' = rendered
    BY <1>7 DEF Redraw
  <2>2. \A i \in DOMAIN list : /\ rendered[i].evidence = list[i].evidence
                               /\ InView(i) => rendered[i].load = list[i].load
    BY <1>7 DEF StaticChanged, DynamicChanged
  <2> QED  BY <1>1, <1>2, <1>3, <1>5, <2>1, <2>2 DEF Aligned
<1> QED  BY <1>6, <1>7

\* Deleting all lines and adding them again aligns the three; the process that
\* was selected is selected again, if it is in the new list, and nothing else.
LEMMA RebuildStep ==
  ASSUME NEW list \in Seq(Rows), displayed' = list, Rebuild(list)
  PROVE  /\ rendered' \in Seq(Rows) /\ cells' \in Seq(Cells)
         /\ selected' \subseteq DOMAIN cells' /\ top' \in Nat
         /\ Aligned'
         /\ SelectedKey' = IF SelectedKey \in KeysIn(list) THEN SelectedKey ELSE NoKey
<1>1. /\ cells' = [i \in DOMAIN list |->
                     [key |-> list[i].key, label |-> Label(list[i]), load |-> list[i].load]]
      /\ rendered' = list /\ top' = 0
      /\ selected' = {i \in DOMAIN list : list[i].key = SelectedKey}
  BY DEF Rebuild, Reselected
<1>2. DOMAIN list = 1 .. Len(list) /\ Len(list) \in Nat
  OBVIOUS
<1>3. \A i \in DOMAIN list :
        /\ list[i] \in Rows /\ list[i].key \in Keys /\ list[i].load \in Loads
        /\ Label(list[i]) \in {list[i].evidence, "Paused by ProcDrift"}
        /\ Label(list[i]) \in Labels
  BY SequenceFacts, RowFacts
<1>4. /\ DOMAIN cells' = DOMAIN list /\ cells' \in Seq(Cells) /\ Len(cells') = Len(list)
      /\ \A i \in DOMAIN list : /\ cells'[i].key = list[i].key
                                /\ cells'[i].label = Label(list[i])
                                /\ cells'[i].load = list[i].load
  <2>1. cells' \in [1 .. Len(list) -> Cells]
    BY <1>1, <1>2, <1>3 DEF Cells
  <2> QED  BY <1>1, <1>2, <2>1, SequenceOf
<1>5. Aligned'
  BY <1>1, <1>3, <1>4 DEF Aligned
<1>6. SelectedKey' = IF SelectedKey \in KeysIn(list) THEN SelectedKey ELSE NoKey
  <2>1. CASE selected' = {}
    BY <1>1, <2>1 DEF SelectedKey, KeysIn
  <2>2. CASE selected' # {}
    <3>1. selected' \in SUBSET Nat
      BY <1>1, <1>2
    <3>2. Min(selected') \in selected'
      BY <2>2, <3>1, Smallest
    <3>3. Min(selected') \in DOMAIN list /\ list[Min(selected')].key = SelectedKey
      BY <1>1, <3>2
    <3>4. SelectedKey' = list[Min(selected')].key
      BY <1>1, <2>2 DEF SelectedKey
    <3> QED  BY <3>3, <3>4 DEF KeysIn
  <2> QED  BY <2>1, <2>2
<1> QED  BY <1>1, <1>4, <1>5, <1>6

\* The invariant holds of the empty list.
LEMMA InvInit == Init => Inv
<1> SUFFICES ASSUME Init  PROVE Inv
  OBVIOUS
<1>1. <<>> \in Seq(Rows) /\ <<>> \in Seq(Cells) /\ DOMAIN <<>> = {}
  OBVIOUS
<1>2. Everything \in Queries /\ "finding" \in Columns
  BY ListAssumption
<1>3. TypeOK
  BY <1>1, <1>2 DEF Init, TypeOK
<1>4. Aligned
  BY <1>1 DEF Init, Aligned
<1>5. MenuHeld
  BY DEF Init, MenuHeld
<1> QED  BY <1>3, <1>4, <1>5 DEF Inv

\* What apply_filter_sort does, with any rows and wishes: the new list and the
\* control are aligned, and the selection stays on its process while it is
\* listed.
LEMMA ApplyStep ==
  ASSUME Inv, NEW force \in BOOLEAN, Apply(force),
         rows' \in Seq(Rows), column' \in Columns, descending' \in BOOLEAN
  PROVE  /\ displayed' \in Seq(Rows) /\ rendered' \in Seq(Rows) /\ cells' \in Seq(Cells)
         /\ selected' \subseteq DOMAIN cells' /\ top' \in Nat
         /\ drawn' \in {"refresh", "resort"}
         /\ Aligned'
         /\ SelectedKey' = IF SelectedKey \in KeysIn(displayed') THEN SelectedKey ELSE NoKey
<1>1. /\ TypeOK /\ Aligned
      /\ rendered \in Seq(Rows) /\ cells \in Seq(Cells) /\ selected \subseteq DOMAIN cells
      /\ top \in Nat
  BY DEF Inv, TypeOK
<1>2. /\ displayed' = Arranged(rows', filter', query', column', descending', force)
      /\ IF SameOrder(displayed') THEN Redraw(displayed') ELSE Rebuild(displayed')
      /\ drawn' \in {"refresh", "resort"}
  BY DEF Apply
<1>3. displayed' \in Seq(Rows)
  BY <1>1, <1>2, Sorting
<1> DEFINE list == displayed'
<1>4. CASE SameOrder(list)
  <2>1. /\ rendered' \in Seq(Rows) /\ cells' \in Seq(Cells)
        /\ selected' = selected /\ top' = top
        /\ Aligned'
        /\ Len(rendered') = Len(rendered)
        /\ \A i \in DOMAIN rendered : rendered'[i].key = rendered[i].key
    BY <1>1, <1>2, <1>3, <1>4, RedrawStep
  <2>2. /\ Len(cells') = Len(cells) /\ DOMAIN cells' = DOMAIN cells
    BY <1>1, <2>1, SequenceFacts DEF Aligned
  <2>3. SelectedKey' = IF SelectedKey \in KeysIn(list) THEN SelectedKey ELSE NoKey
    <3>1. CASE selected = {}
      BY <2>1, <3>1 DEF SelectedKey
    <3>2. CASE selected # {}
      <4>1. /\ Min(selected) \in DOMAIN rendered
            /\ SelectedKey = rendered[Min(selected)].key
        BY <1>1, <3>2, SelectedDrawn
      <4>2. SelectedKey' = rendered'[Min(selected)].key
        BY <2>1, <3>2 DEF SelectedKey
      <4>3. DOMAIN rendered = DOMAIN list /\ rendered[Min(selected)].key = list[Min(selected)].key
        BY <1>1, <1>3, <1>4, <4>1, SequenceFacts DEF SameOrder
      <4> QED  BY <2>1, <4>1, <4>2, <4>3 DEF KeysIn
    <3> QED  BY <3>1, <3>2
  <2> QED  BY <1>1, <1>2, <1>3, <2>1, <2>2, <2>3
<1>5. CASE ~SameOrder(list)
  <2>1. Rebuild(list)
    BY <1>2, <1>5
  <2> QED  BY <1>2, <1>3, <2>1, RebuildStep
<1> QED  BY <1>4, <1>5

\* The invariant is kept by every step.
LEMMA InvNext == Inv /\ [Next]_vars => Inv'
<1> SUFFICES ASSUME Inv, [Next]_vars  PROVE Inv'
  OBVIOUS
<1>1. /\ TypeOK /\ Aligned /\ MenuHeld
      /\ rows \in Seq(Rows) /\ displayed \in Seq(Rows) /\ rendered \in Seq(Rows)
      /\ filter \in Filters /\ query \in Queries /\ column \in Columns /\ descending \in BOOLEAN
      /\ cells \in Seq(Cells) /\ selected \subseteq DOMAIN cells /\ top \in Nat
      /\ menu \in Keys \cup {NoKey}
      /\ drawn \in {"refresh", "resort", "scrolled"}
  BY DEF Inv, TypeOK
<1>2. ASSUME NEW force \in BOOLEAN, Apply(force), menu' = menu,
             rows' \in Seq(Rows), filter' \in Filters, query' \in Queries,
             column' \in Columns, descending' \in BOOLEAN
      PROVE  Inv'
  <2>1. /\ displayed' \in Seq(Rows) /\ rendered' \in Seq(Rows) /\ cells' \in Seq(Cells)
        /\ selected' \subseteq DOMAIN cells' /\ top' \in Nat
        /\ drawn' \in {"refresh", "resort"}
        /\ Aligned'
        /\ SelectedKey' = IF SelectedKey \in KeysIn(displayed') THEN SelectedKey ELSE NoKey
    BY <1>2, ApplyStep
  <2>2. TypeOK'
    BY <1>1, <1>2, <2>1 DEF TypeOK
  <2>3. MenuHeld'
    BY <1>1, <1>2, <2>1 DEF MenuHeld
  <2> QED  BY <2>1, <2>2, <2>3 DEF Inv
<1>3. CASE \E found \in Scans : Refresh(found)
  BY <1>1, <1>2, <1>3, ScanAssumption DEF Refresh, asked
<1>4. CASE \E f \in Filters : SetFilter(f)
  BY <1>1, <1>2, <1>4 DEF SetFilter
<1>5. CASE \E q \in Queries : UpdateSearch(q)
  BY <1>1, <1>2, <1>5 DEF UpdateSearch
<1>6. CASE \E c \in Columns : SortBy(c)
  <2>1. PICK c \in Columns : SortBy(c)
    BY <1>6
  <2>2. descending' \in BOOLEAN
    BY <1>1, <2>1 DEF SortBy
  <2> QED  BY <1>1, <1>2, <2>1, <2>2 DEF SortBy
<1>7. CASE \E lines \in SUBSET DOMAIN cells : Click(lines)
  <2>1. PICK lines \in SUBSET DOMAIN cells : Click(lines)
    BY <1>7
  <2>2. TypeOK'
    BY <1>1, <2>1 DEF Click, asked, TypeOK
  <2>3. Aligned'
    BY <1>1, <2>1 DEF Click, Aligned, InView
  <2> QED  BY <1>1, <2>1, <2>2, <2>3 DEF Click, MenuHeld, Inv
<1>8. CASE \E t \in 0 .. Len(cells) : Scroll(t)
  <2>1. PICK t \in 0 .. Len(cells) : Scroll(t)
    BY <1>8
  <2>2. t \in Nat
    BY <1>1, SequenceFacts
  <2>3. TypeOK'
    BY <1>1, <2>1, <2>2 DEF Scroll, asked, TypeOK
  <2>4. Aligned'
    BY <1>1, <2>1 DEF Scroll, Aligned
  <2>5. SelectedKey' = SelectedKey /\ menu' = menu
    BY <2>1 DEF Scroll, SelectedKey
  <2> QED  BY <1>1, <2>3, <2>4, <2>5 DEF MenuHeld, Inv
<1>9. CASE \E i \in DOMAIN cells : OpenMenu(i)
  <2>1. PICK i \in DOMAIN cells : OpenMenu(i)
    BY <1>9
  <2>2. /\ selected' = {i} /\ menu' = cells[i].key
        /\ rendered' = rendered
    BY <2>1 DEF OpenMenu
  <2>3. i \in DOMAIN rendered /\ i \in Nat /\ rendered[i] \in Rows /\ cells[i].key = rendered[i].key
    BY <1>1, Lines DEF Aligned
  <2>4. TypeOK'
    BY <1>1, <2>1, <2>2, <2>3, RowFacts DEF OpenMenu, asked, TypeOK
  <2>5. Aligned'
    BY <1>1, <2>1 DEF OpenMenu, Aligned, InView
  <2>6. Min({i}) = i
    BY <2>3, Smallest
  <2>7. SelectedKey' = rendered[i].key
    BY <2>2, <2>6 DEF SelectedKey
  <2> QED  BY <2>2, <2>3, <2>4, <2>5, <2>7 DEF MenuHeld, Inv
<1>10. CASE CloseMenu
  <2>1. TypeOK'
    BY <1>1, <1>10 DEF CloseMenu, asked, TypeOK
  <2>2. Aligned'
    BY <1>1, <1>10 DEF CloseMenu, Aligned, InView
  <2> QED  BY <1>10, <2>1, <2>2 DEF CloseMenu, MenuHeld, Inv
<1>11. CASE UNCHANGED vars
  <2>1. TypeOK'
    BY <1>1, <1>11 DEF vars, TypeOK
  <2>2. Aligned'
    BY <1>1, <1>11 DEF vars, Aligned, InView
  <2>3. MenuHeld'
    BY <1>1, <1>11 DEF vars, MenuHeld, SelectedKey
  <2> QED  BY <2>1, <2>2, <2>3 DEF Inv
<1> QED  BY <1>3, <1>4, <1>5, <1>6, <1>7, <1>8, <1>9, <1>10, <1>11 DEF Next

-----------------------------------------------------------------------------
(* Theorems *)

\* The invariant holds always.
THEOREM Invariant == Spec => []Inv
<1> QED  BY InvInit, InvNext, PTL DEF Spec

\* Every variable keeps its type, and only lines that exist are selected.
THEOREM Types == Spec => []TypeOK
<1>1. Inv => TypeOK
  BY DEF Inv
<1> QED  BY <1>1, Invariant, PTL

\* Although only cells that differ are written, and measurements only in view,
\* nothing on screen is out of date.
THEOREM Current == Spec => []ScreenCurrent
<1>1. Inv => ScreenCurrent
  <2> SUFFICES ASSUME Inv  PROVE ScreenCurrent
    OBVIOUS
  <2>1. /\ rendered \in Seq(Rows) /\ cells \in Seq(Cells) /\ displayed \in Seq(Rows)
        /\ top \in Nat
        /\ Aligned
    BY DEF Inv, TypeOK
  <2>2. DOMAIN cells = DOMAIN rendered /\ DOMAIN cells \subseteq Nat
    BY <2>1, Lines DEF Inv
  <2>3. \A i \in OnScreen : i \in DOMAIN rendered /\ InView(i)
    BY <2>1, <2>2 DEF OnScreen, InView
  <2> QED  BY <2>1, <2>2, <2>3 DEF ScreenCurrent, Aligned
<1> QED  BY <1>1, Invariant, PTL

\* A command of the context menu reaches the process that was right-clicked, or
\* nothing, whatever was refreshed while the menu was open.
THEOREM MenuTarget == Spec => []MenuIsOfLine
<1>1. Inv => MenuIsOfLine
  BY DEF Inv, MenuHeld, MenuIsOfLine, Selected
<1> QED  BY <1>1, Invariant, PTL

\* No refresh moves the selection to another process, selects anything, or
\* loses the selected process while it is shown.
THEOREM Selection == Spec => SelectionKept
<1> DEFINE Kept == cells' # cells =>
                     SelectedKey' = IF SelectedKey \in KeysIn(displayed') THEN SelectedKey
                                    ELSE NoKey
<1>1. Inv /\ Inv' /\ [Next]_vars => [Kept]_vars
  <2> SUFFICES ASSUME Inv, Inv', Next, cells' # cells  PROVE Kept
    OBVIOUS
  <2>1. \E force \in BOOLEAN : Apply(force)
    BY DEF Next, Refresh, SetFilter, UpdateSearch, SortBy, Click, Scroll, OpenMenu, CloseMenu
  <2>2. rows' \in Seq(Rows) /\ column' \in Columns /\ descending' \in BOOLEAN
    BY DEF Inv, TypeOK
  <2> QED  BY <2>1, <2>2, ApplyStep
<1> QED  BY <1>1, Invariant, PTL DEF Spec, SelectionKept
=============================================================================
