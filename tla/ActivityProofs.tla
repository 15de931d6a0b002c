--------------------------- MODULE ActivityProofs ---------------------------
(***************************************************************************)
(* Theorems about Activity, for any number of processes, scans at any pace *)
(* and any limits: a process is noted to start once and to exit once, and  *)
(* a start is dated late by no more than the time between two scans.       *)
(*                                                                         *)
(* The tracker only has keys, and what makes its notes right is what a key *)
(* is: a process starts once.  So whoever was noted to have exited does    *)
(* not run (Gone), whoever runs or was found running was born (Born), and  *)
(* whoever runs and is not live was born after the last scan (Young).      *)
(*                                                                         *)
(* What makes its counts right is that it forgets at one end only: since   *)
(* any time that still counts, the starts it remembers are all there were, *)
(* or as many as its limit (Remembered).  A start that is too old is never *)
(* asked for again, and one that the limit pushes out leaves enough behind *)
(* it to answer.                                                           *)
(***************************************************************************)
EXTENDS Activity, FiniteSetTheorems, SequenceTheorems, WellFoundedInduction, TLAPS

-----------------------------------------------------------------------------
(* Sets in any order *)

\* A sequence of SetToSeqs names each element once.
LEMMA Enumerates ==
  ASSUME NEW S, IsFiniteSet(S), NEW f \in SetToSeqs(S)
  PROVE  \E n \in Nat :
           /\ f \in [1 .. n -> S]
           /\ \A i, j \in 1 .. n : f[i] = f[j] => i = j
           /\ \A x \in S : \E i \in 1 .. n : f[i] = x
<1> DEFINE D == 1 .. Cardinality(S)
<1>1. Cardinality(S) \in Nat
  BY FS_CardinalityType
<1>2. f \in [D -> S] /\ \A i, j \in D : i # j => f[i] # f[j]
  BY DEF SetToSeqs
<1>4. f \in Injection(D, S)
  BY <1>2 DEF Injection, IsInjective
<1>5. IsFiniteSet(D) /\ Cardinality(D) = Cardinality(S)
  BY <1>1, FS_Interval
<1>6. f \in Surjection(D, S)
  BY <1>4, <1>5, FS_Injection
<1>7. \A x \in S : \E i \in D : f[i] = x
  BY <1>6 DEF Surjection
<1> QED  BY <1>1, <1>2, <1>7

LEMMA ASequence ==
  ASSUME NEW T, NEW n \in Nat, NEW f \in [1 .. n -> T]
  PROVE  f \in Seq(T) /\ Len(f) = n
OBVIOUS

LEMMA EventOfHistory ==
  ASSUME seen \in Seq(Event), NEW n \in DOMAIN seen
  PROVE  seen[n].key \in Processes /\ seen[n].kind \in {"Started", "Exited"}
<1>1. seen[n] \in Event
  BY ElementOfSeq, LenProperties
<1> QED  BY <1>1 DEF Event

-----------------------------------------------------------------------------
(* The invariant *)

NotedAs(k) == {seen[n].key : n \in {m \in DOMAIN seen : seen[m].kind = k}}

Types ==
    /\ now \in 0 .. MaxTime
    /\ running \subseteq Processes
    /\ born \in [Processes -> 0 .. MaxTime + 1]
    /\ initialized \in BOOLEAN
    /\ live \subseteq Processes
    /\ seen \in Seq(Event)

Born == \A p \in running \cup live : born[p] <= MaxTime

\* Whoever was noted to have exited is gone for ever.
Gone == \A p \in NotedAs("Exited") : p \notin running /\ p \notin live /\ born[p] <= MaxTime

\* Whoever runs unnoticed started after the last scan.
Young ==
    /\ ~initialized => live = {} /\ seen = <<>> /\ scanned = MaxTime + 1 /\ first = {}
    /\ initialized => scanned \in 0 .. now /\ \A p \in running \ live : born[p] >= scanned

IInv == Types /\ Born /\ Gone /\ Young /\ NotedOnce

LEMMA InitHolds ==
  ASSUME TrackerInit
  PROVE  IInv
<1>1. Types /\ Born /\ Young
  <2>1. MaxTime \in Nat
    BY ActivityAssumption
  <2>2. /\ now = 0 /\ running \subseteq Processes /\ live = {} /\ seen = <<>> /\ first = {}
        /\ initialized = FALSE /\ scanned = MaxTime + 1
        /\ born = [p \in Processes |-> IF p \in running THEN 0 ELSE MaxTime + 1]
    BY DEF TrackerInit
  <2>3. born \in [Processes -> 0 .. MaxTime + 1] /\ \A p \in running : born[p] = 0
    BY <2>1, <2>2
  <2>4. seen \in Seq(Event)
    BY <2>2
  <2>5. Types
    <3>1. initialized \in BOOLEAN /\ live \subseteq Processes /\ running \subseteq Processes
      BY <2>2, Zenon
    <3>2. now \in 0 .. MaxTime
      BY <2>1, <2>2
    <3> QED  BY <3>1, <3>2, <2>3, <2>4, Zenon DEF Types
  <2>6. Born /\ Young
    BY <2>1, <2>2, <2>3 DEF Born, Young
  <2> QED  BY <2>5, <2>6
<1>2. seen = <<>> /\ live = {} /\ first = {} /\ DOMAIN seen = {}
  BY DEF TrackerInit
<1>3. Gone /\ NotedOnce
  BY <1>2 DEF Gone, NotedOnce, NotedAs
<1> QED  BY <1>1, <1>3 DEF IInv

\* The machine changes nothing that was noted.
LEMMA WorldKeeps ==
  ASSUME IInv, Tick \/ \E p \in Processes : Launch(p) \/ Leave(p)
  PROVE  IInv'
<1>1. /\ initialized' = initialized /\ live' = live /\ seen' = seen
      /\ scanned' = scanned /\ first' = first
  BY DEF Tick, Launch, Leave, tracker, history
<1>2. NotedOnce'
  BY <1>1 DEF IInv, NotedOnce
<1>3. NotedAs("Exited")' = NotedAs("Exited")
  BY <1>1 DEF NotedAs
<1>4. CASE Tick
  <2>1. now' = now + 1 /\ now < MaxTime /\ running' = running /\ born' = born
    BY <1>4 DEF Tick
  <2>2. Types' /\ Born' /\ Young'
    BY <1>1, <2>1, ActivityAssumption DEF IInv, Types, Born, Young
  <2>3. Gone'
    BY <1>1, <1>3, <2>1 DEF IInv, Gone
  <2> QED  BY <1>2, <2>2, <2>3 DEF IInv
<1>5. ASSUME NEW p \in Processes, Launch(p)
      PROVE  IInv'
  <2>1. /\ born[p] > MaxTime /\ running' = running \cup {p}
        /\ born' = [born EXCEPT ![p] = now] /\ now' = now
    BY <1>5 DEF Launch
  <2>2. born'[p] = now /\ \A q \in Processes : q # p => born'[q] = born[q]
    BY <2>1 DEF IInv, Types
  <2>3. Types'
    BY <1>1, <2>1, ActivityAssumption DEF IInv, Types
  <2>4. Born'
    BY <1>1, <2>1, <2>2, ActivityAssumption DEF IInv, Types, Born
  <2>5. Young'
    BY <1>1, <2>1, <2>2, ActivityAssumption DEF IInv, Types, Born, Young
  <2>6. p \notin NotedAs("Exited")
    BY <2>1, ActivityAssumption DEF IInv, Gone, Types
  <2>7. NotedAs("Exited") \subseteq Processes
    BY EventOfHistory DEF IInv, Types, NotedAs
  <2>8. Gone'
    BY <1>1, <1>3, <2>1, <2>2, <2>6, <2>7 DEF IInv, Gone
  <2> QED  BY <1>2, <2>3, <2>4, <2>5, <2>8 DEF IInv
<1>6. ASSUME NEW p \in Processes, Leave(p)
      PROVE  IInv'
  <2>1. running' = running \ {p} /\ now' = now /\ born' = born
    BY <1>6 DEF Leave
  <2>2. Types' /\ Born' /\ Young'
    BY <1>1, <2>1 DEF IInv, Types, Born, Young
  <2>3. Gone'
    BY <1>1, <1>3, <2>1 DEF IInv, Gone
  <2> QED  BY <1>2, <2>2, <2>3 DEF IInv
<1> QED  BY <1>4, <1>5, <1>6

LEMMA FirstScan ==
  ASSUME IInv, Scan, ~initialized
  PROVE  IInv'
<1>1. /\ initialized' = TRUE /\ live' = running /\ first' = running /\ seen' = seen
      /\ scanned' = now /\ now' = now /\ running' = running /\ born' = born
  BY DEF Scan, IsFirst, machine
<1>2. seen = <<>> /\ DOMAIN seen = {}
  BY DEF IInv, Young
<1>3. Types' /\ Born' /\ Young'
  BY <1>1, <1>2 DEF IInv, Types, Born, Young
<1>4. Gone' /\ NotedOnce'
  BY <1>1, <1>2 DEF Gone, NotedOnce, NotedAs
<1> QED  BY <1>3, <1>4 DEF IInv

\* A later scan, by the notes it adds.
LEMMA LaterScan ==
  ASSUME IInv, Scan, initialized
  PROVE  /\ live' = running /\ scanned' = now /\ initialized' = TRUE /\ first' = first
         /\ now' = now /\ running' = running /\ born' = born
         /\ \E a \in SetToSeqs(running \ live), b \in SetToSeqs(live \ running) :
              seen' = seen \o (Noted(a, "Started") \o Noted(b, "Exited"))
<1>1. Update(running) /\ scanned' = now /\ now' = now /\ running' = running /\ born' = born
  BY DEF Scan, IsFirst, machine
<1>2. PICK a \in SetToSeqs(running \ live), b \in SetToSeqs(live \ running) :
        /\ seen' = seen \o (Noted(a, "Started") \o Noted(b, "Exited"))
        /\ live' = Kept(running)
        /\ UNCHANGED <<initialized, first>>
  BY <1>1 DEF Update
<1> QED  BY <1>1, <1>2 DEF Kept, IInv, Types

\* What a later scan notes: y starts and z exits, each of its own process,
\* behind the x notes that there were.
Notes(x, y, z, a, b) ==
    /\ a \in [1 .. y -> running \ live] /\ b \in [1 .. z -> live \ running]
    /\ \A i, j \in 1 .. y : a[i] = a[j] => i = j
    /\ \A i, j \in 1 .. z : b[i] = b[j] => i = j
    /\ \A p \in running \ live : \E n \in 1 .. y : a[n] = p
    /\ \A p \in live \ running : \E n \in 1 .. z : b[n] = p
    /\ seen' \in Seq(Event)
    /\ DOMAIN seen = 1 .. x
    /\ DOMAIN seen' = 1 .. x + y + z
    /\ \A n \in 1 .. x : seen'[n] = seen[n]
    /\ \A n \in 1 .. y : seen'[x + n].key = a[n] /\ seen'[x + n].kind = "Started"
    /\ \A n \in 1 .. z : seen'[x + y + n].key = b[n] /\ seen'[x + y + n].kind = "Exited"
    /\ \A n \in x + 1 .. x + y + z : seen'[n].at = now

LEMMA NotesOfScan ==
  ASSUME IInv, Scan, initialized
  PROVE  \E x, y, z \in Nat : \E a, b : Notes(x, y, z, a, b)
<1>1. PICK a \in SetToSeqs(running \ live), b \in SetToSeqs(live \ running) :
        seen' = seen \o (Noted(a, "Started") \o Noted(b, "Exited"))
  BY LaterScan
<1>2. running \ live \in SUBSET Processes /\ live \ running \in SUBSET Processes
  BY DEF IInv, Types
<1>3. IsFiniteSet(running \ live) /\ IsFiniteSet(live \ running)
  BY <1>2, FS_Subset, ActivityAssumption
<1>4. PICK y \in Nat :
        /\ a \in [1 .. y -> running \ live]
        /\ \A i, j \in 1 .. y : a[i] = a[j] => i = j
        /\ \A p \in running \ live : \E n \in 1 .. y : a[n] = p
  <2> DEFINE S == running \ live
  <2>1. IsFiniteSet(S) /\ a \in SetToSeqs(S)
    BY <1>3
  <2> HIDE DEF S
  <2>2. \E n \in Nat :
          /\ a \in [1 .. n -> S]
          /\ \A i, j \in 1 .. n : a[i] = a[j] => i = j
          /\ \A x \in S : \E i \in 1 .. n : a[i] = x
    BY <2>1, Enumerates
  <2> QED  BY <2>2 DEF S
<1>5. PICK z \in Nat :
        /\ b \in [1 .. z -> live \ running]
        /\ \A i, j \in 1 .. z : b[i] = b[j] => i = j
        /\ \A p \in live \ running : \E n \in 1 .. z : b[n] = p
  <2> DEFINE S == live \ running
  <2>1. IsFiniteSet(S) /\ b \in SetToSeqs(S)
    BY <1>3
  <2> HIDE DEF S
  <2>2. \E n \in Nat :
          /\ b \in [1 .. n -> S]
          /\ \A i, j \in 1 .. n : b[i] = b[j] => i = j
          /\ \A x \in S : \E i \in 1 .. n : b[i] = x
    BY <2>1, Enumerates
  <2> QED  BY <2>2 DEF S
<1>6. PICK x \in Nat : Len(seen) = x /\ DOMAIN seen = 1 .. x
  BY LenProperties DEF IInv, Types
<1> DEFINE A == Noted(a, "Started")
           B == Noted(b, "Exited")
<1>7. /\ A = [n \in 1 .. y |-> [at |-> now, key |-> a[n], kind |-> "Started"]]
      /\ B = [n \in 1 .. z |-> [at |-> now, key |-> b[n], kind |-> "Exited"]]
  <2>1. DOMAIN a = 1 .. y /\ DOMAIN b = 1 .. z
    BY <1>4, <1>5
  <2> QED  BY <2>1 DEF Noted
<1>8. A \in [1 .. y -> Event] /\ B \in [1 .. z -> Event]
  <2>1. now \in 0 .. MaxTime
    BY DEF IInv, Types
  <2>2. \A n \in 1 .. y : [at |-> now, key |-> a[n], kind |-> "Started"] \in Event
    BY <2>1, <1>2, <1>4 DEF Event
  <2>3. \A n \in 1 .. z : [at |-> now, key |-> b[n], kind |-> "Exited"] \in Event
    BY <2>1, <1>2, <1>5 DEF Event
  <2> QED  BY <1>7, <2>2, <2>3
<1>9. /\ \A n \in 1 .. y : A[n].key = a[n] /\ A[n].kind = "Started" /\ A[n].at = now
      /\ \A n \in 1 .. z : B[n].key = b[n] /\ B[n].kind = "Exited" /\ B[n].at = now
  BY <1>7
<1>10. seen' = seen \o (A \o B) /\ seen \in Seq(Event)
  BY <1>1 DEF IInv, Types
<1> HIDE DEF A, B
<1>11. /\ seen' \in Seq(Event)
       /\ DOMAIN seen' = 1 .. x + y + z
       /\ \A n \in 1 .. x : seen'[n] = seen[n]
       /\ \A n \in 1 .. y : seen'[x + n] = A[n]
       /\ \A n \in 1 .. z : seen'[x + y + n] = B[n]
  <2> DEFINE C == A \o B
  <2>1. A \in Seq(Event) /\ Len(A) = y /\ B \in Seq(Event) /\ Len(B) = z
    BY <1>4, <1>5, <1>8, ASequence
  <2>2. /\ C \in Seq(Event) /\ Len(C) = y + z
        /\ \A n \in 1 .. y + z : C[n] = IF n <= y THEN A[n] ELSE B[n - y]
    <3>1. /\ C \in Seq(Event) /\ Len(C) = Len(A) + Len(B)
          /\ \A n \in 1 .. Len(A) + Len(B) : C[n] = IF n <= Len(A) THEN A[n] ELSE B[n - Len(A)]
      BY <2>1, ConcatProperties
    <3> QED  BY <2>1, <3>1
  <2> HIDE DEF C
  <2>3. /\ seen \o C \in Seq(Event) /\ Len(seen \o C) = Len(seen) + Len(C)
        /\ \A n \in 1 .. Len(seen) + Len(C) :
             (seen \o C)[n] = IF n <= Len(seen) THEN seen[n] ELSE C[n - Len(seen)]
    BY <2>2, <1>10, ConcatProperties
  <2>4. seen' = seen \o C
    BY <1>10 DEF C
  <2>5. x \in Nat /\ y \in Nat /\ z \in Nat /\ Len(seen) = x /\ x + (y + z) = x + y + z
    BY <1>4, <1>5, <1>6
  <2>6. /\ seen' \in Seq(Event) /\ Len(seen') = x + y + z
        /\ \A n \in 1 .. x + y + z : seen'[n] = IF n <= x THEN seen[n] ELSE C[n - x]
    BY <2>2, <2>3, <2>4, <2>5
  <2>7. DOMAIN seen' = 1 .. x + y + z
    BY <2>6, LenProperties
  <2>8. \A n \in 1 .. x : seen'[n] = seen[n]
    BY <2>5, <2>6
  <2>9. ASSUME NEW n \in 1 .. y
        PROVE  seen'[x + n] = A[n]
    <3>1. x + n \in 1 .. x + y + z /\ ~(x + n <= x) /\ (x + n) - x = n /\ n \in 1 .. y + z
      BY <2>5
    <3> QED  BY <3>1, <2>2, <2>6
  <2>10. ASSUME NEW n \in 1 .. z
         PROVE  seen'[x + y + n] = B[n]
    <3>1. /\ x + y + n \in 1 .. x + y + z /\ ~(x + y + n <= x) /\ (x + y + n) - x = y + n
          /\ y + n \in 1 .. y + z /\ ~(y + n <= y) /\ (y + n) - y = n
      BY <2>5
    <3> QED  BY <3>1, <2>2, <2>6
  <2> QED  BY <2>6, <2>7, <2>8, <2>9, <2>10
<1>12. /\ \A n \in 1 .. y : seen'[x + n].key = a[n] /\ seen'[x + n].kind = "Started"
       /\ \A n \in 1 .. z : seen'[x + y + n].key = b[n] /\ seen'[x + y + n].kind = "Exited"
  <2>1. ASSUME NEW n \in 1 .. y
        PROVE  seen'[x + n].key = a[n] /\ seen'[x + n].kind = "Started"
    <3>1. seen'[x + n] = A[n]
      BY <1>11
    <3> QED  BY <1>9, <3>1
  <2>2. ASSUME NEW n \in 1 .. z
        PROVE  seen'[x + y + n].key = b[n] /\ seen'[x + y + n].kind = "Exited"
    <3>1. seen'[x + y + n] = B[n]
      BY <1>11
    <3> QED  BY <1>9, <3>1
  <2> QED  BY <2>1, <2>2
<1>13. ASSUME NEW n \in x + 1 .. x + y + z
       PROVE  seen'[n].at = now
  <2>1. CASE n <= x + y
    <3>1. n - x \in 1 .. y /\ n = x + (n - x)
      BY <1>4, <1>5, <1>6, <2>1
    <3>2. seen'[x + (n - x)] = A[n - x] /\ A[n - x].at = now
      BY <3>1, <1>9, <1>11
    <3> QED  BY <3>1, <3>2
  <2>2. CASE n > x + y
    <3>1. n - (x + y) \in 1 .. z /\ n = x + y + (n - (x + y))
      BY <1>4, <1>5, <1>6, <2>2
    <3>2. seen'[x + y + (n - (x + y))] = B[n - (x + y)] /\ B[n - (x + y)].at = now
      BY <3>1, <1>9, <1>11
    <3> QED  BY <3>1, <3>2
  <2> QED  BY <1>4, <1>5, <1>6, <2>1, <2>2
<1>14. Notes(x, y, z, a, b)
  BY <1>4, <1>5, <1>6, <1>11, <1>12, <1>13, Zenon DEF Notes
<1> QED  BY <1>14

LEMMA LaterKeeps ==
  ASSUME IInv, Scan, initialized
  PROVE  IInv'
<1>1. /\ live' = running /\ scanned' = now /\ initialized' = TRUE /\ first' = first
      /\ now' = now /\ running' = running /\ born' = born
  BY LaterScan
<1>a. PICK L \in Nat, K \in Nat, M \in Nat : \E a, b : Notes(L, K, M, a, b)
  BY NotesOfScan
<1>b. PICK a, b : Notes(L, K, M, a, b)
  BY <1>a
<1>2. /\ \A n \in 1 .. K : a[n] \in running \ live
      /\ \A n \in 1 .. M : b[n] \in live \ running
      /\ \A i, j \in 1 .. K : a[i] = a[j] => i = j
      /\ \A i, j \in 1 .. M : b[i] = b[j] => i = j
      /\ \A p \in running \ live : \E n \in 1 .. K : a[n] = p
      /\ \A p \in live \ running : \E n \in 1 .. M : b[n] = p
      /\ seen' \in Seq(Event)
      /\ DOMAIN seen = 1 .. L
      /\ DOMAIN seen' = 1 .. L + K + M
      /\ \A n \in 1 .. L : seen'[n] = seen[n]
      /\ \A n \in 1 .. K : seen'[L + n].key = a[n] /\ seen'[L + n].kind = "Started"
      /\ \A n \in 1 .. M : seen'[L + K + n].key = b[n] /\ seen'[L + K + n].kind = "Exited"
  BY <1>b DEF Notes
<1>3. \A n \in DOMAIN seen' :
        \/ n \in 1 .. L /\ n \in DOMAIN seen /\ seen'[n] = seen[n]
        \/ \E m \in 1 .. K : n = L + m /\ seen'[n].key = a[m] /\ seen'[n].kind = "Started"
        \/ \E m \in 1 .. M : n = L + K + m /\ seen'[n].key = b[m] /\ seen'[n].kind = "Exited"
  <2> SUFFICES ASSUME NEW n \in DOMAIN seen'
               PROVE  \/ n \in 1 .. L /\ n \in DOMAIN seen /\ seen'[n] = seen[n]
                      \/ \E m \in 1 .. K : n = L + m /\ seen'[n].key = a[m] /\ seen'[n].kind = "Started"
                      \/ \E m \in 1 .. M : n = L + K + m /\ seen'[n].key = b[m] /\ seen'[n].kind = "Exited"
    OBVIOUS
  <2>1. \/ n \in 1 .. L
        \/ \E m \in 1 .. K : n = L + m
        \/ \E m \in 1 .. M : n = L + K + m
    <3>1. n \in 1 .. L + K + M
      BY <1>2
    <3>2. CASE n <= L
      BY <3>1, <3>2
    <3>3. CASE n > L /\ n <= L + K
      <4>1. n - L \in 1 .. K /\ n = L + (n - L)
        BY <3>1, <3>3
      <4> QED  BY <4>1, Zenon
    <3>4. CASE n > L + K
      <4>1. n - (L + K) \in 1 .. M /\ n = L + K + (n - (L + K))
        BY <3>1, <3>4
      <4> QED  BY <4>1, Zenon
    <3> QED  BY <3>1, <3>2, <3>3, <3>4
  <2>2. CASE n \in 1 .. L
    BY <1>2, <2>2
  <2>3. ASSUME NEW m \in 1 .. K, n = L + m
        PROVE  seen'[n].key = a[m] /\ seen'[n].kind = "Started"
    BY <1>2, <2>3
  <2>4. ASSUME NEW m \in 1 .. M, n = L + K + m
        PROVE  seen'[n].key = b[m] /\ seen'[n].kind = "Exited"
    BY <1>2, <2>4
  <2> QED  BY <2>1, <2>2, <2>3, <2>4
<1>4. NotedAs("Started")' = NotedAs("Started") \cup (running \ live)
  <2>1. NotedAs("Started")' \subseteq NotedAs("Started") \cup (running \ live)
    BY <1>2, <1>3 DEF NotedAs
  <2>2. ASSUME NEW p \in running \ live
        PROVE  p \in NotedAs("Started")'
    <3>1. PICK m \in 1 .. K : a[m] = p
      BY <1>2
    <3>2. /\ L + m \in DOMAIN seen' /\ seen'[L + m].key = p
          /\ seen'[L + m].kind = "Started"
      BY <1>2, <3>1
    <3> QED  BY <3>2 DEF NotedAs
  <2>3. ASSUME NEW p \in NotedAs("Started")
        PROVE  p \in NotedAs("Started")'
    <3>1. PICK n \in DOMAIN seen : seen[n].kind = "Started" /\ seen[n].key = p
      BY DEF NotedAs
    <3>2. n \in DOMAIN seen' /\ seen'[n] = seen[n]
      BY <1>2
    <3> QED  BY <3>1, <3>2 DEF NotedAs
  <2> QED  BY <2>1, <2>2, <2>3
<1>5. NotedAs("Exited")' = NotedAs("Exited") \cup (live \ running)
  <2>1. NotedAs("Exited")' \subseteq NotedAs("Exited") \cup (live \ running)
    BY <1>2, <1>3 DEF NotedAs
  <2>2. ASSUME NEW p \in live \ running
        PROVE  p \in NotedAs("Exited")'
    <3>1. PICK m \in 1 .. M : b[m] = p
      BY <1>2
    <3>2. /\ L + K + m \in DOMAIN seen' /\ seen'[L + K + m].key = p
          /\ seen'[L + K + m].kind = "Exited"
      BY <1>2, <3>1
    <3> QED  BY <3>2 DEF NotedAs
  <2>3. ASSUME NEW p \in NotedAs("Exited")
        PROVE  p \in NotedAs("Exited")'
    <3>1. PICK n \in DOMAIN seen : seen[n].kind = "Exited" /\ seen[n].key = p
      BY DEF NotedAs
    <3>2. n \in DOMAIN seen' /\ seen'[n] = seen[n]
      BY <1>2
    <3> QED  BY <3>1, <3>2 DEF NotedAs
  <2> QED  BY <2>1, <2>2, <2>3
<1>6. Types' /\ Born'
  BY <1>1, <1>2 DEF IInv, Types, Born
<1>7. Gone'
  BY <1>1, <1>5 DEF IInv, Gone, Born
<1>8. Young'
  BY <1>1 DEF IInv, Types, Young
<1>9. /\ \A n \in DOMAIN seen : seen[n].kind \in {"Started", "Exited"}
      /\ \A p : p \notin live /\ p \notin NotedAs("Exited") =>
                  p \notin first /\ p \notin NotedAs("Started")
      /\ \A p \in NotedAs("Exited") : p \notin running /\ p \notin live
  <2>1. live = (first \cup NotedAs("Started")) \ NotedAs("Exited")
    BY DEF IInv, NotedOnce, NotedAs
  <2>2. \A n \in DOMAIN seen : seen[n].kind \in {"Started", "Exited"}
    BY EventOfHistory DEF IInv, Types
  <2>3. \A p \in NotedAs("Exited") : p \notin running /\ p \notin live
    BY DEF IInv, Gone
  <2> QED  BY <2>1, <2>2, <2>3
<1>10. live' = (first' \cup NotedAs("Started")') \ NotedAs("Exited")'
  <2>1. live = (first \cup NotedAs("Started")) \ NotedAs("Exited")
    BY DEF IInv, NotedOnce, NotedAs
  <2> QED  BY <2>1, <1>1, <1>4, <1>5, <1>9
<1>11. ASSUME NEW m \in DOMAIN seen', NEW n \in DOMAIN seen', m < n, seen'[m].key = seen'[n].key
       PROVE  seen'[m].kind = "Started" /\ seen'[n].kind = "Exited"
  <2>1. CASE n \in 1 .. L
    <3>1. m \in DOMAIN seen /\ n \in DOMAIN seen /\ seen'[m] = seen[m] /\ seen'[n] = seen[n]
      BY <1>2, <1>11, <2>1
    <3> QED  BY <3>1, <1>11 DEF IInv, NotedOnce
  <2>2. ASSUME NEW j \in 1 .. K, n = L + j, seen'[n].key = a[j], seen'[n].kind = "Started"
        PROVE  FALSE
    <3>1. /\ a[j] \notin live /\ a[j] \in running /\ a[j] \notin NotedAs("Exited")
          /\ a[j] \notin NotedAs("Started")
      BY <1>2, <1>9
    <3>2. CASE m \in 1 .. L /\ m \in DOMAIN seen /\ seen'[m] = seen[m]
      BY <3>1, <3>2, <2>2, <1>9, <1>11 DEF NotedAs
    <3>3. CASE \E i \in 1 .. K : m = L + i /\ seen'[m].key = a[i] /\ seen'[m].kind = "Started"
      BY <3>3, <2>2, <1>2, <1>11
    <3>4. CASE \E i \in 1 .. M : m = L + K + i /\ seen'[m].key = b[i]
      BY <3>4, <2>2, <1>2, <1>11
    <3> QED  BY <1>3, <1>11, <3>2, <3>3, <3>4
  <2>3. ASSUME NEW j \in 1 .. M, n = L + K + j, seen'[n].key = b[j], seen'[n].kind = "Exited"
        PROVE  seen'[m].kind = "Started"
    <3>1. b[j] \in live /\ b[j] \notin running /\ b[j] \notin NotedAs("Exited")
      BY <1>2, <1>9
    <3>2. CASE m \in 1 .. L /\ m \in DOMAIN seen /\ seen'[m] = seen[m]
      BY <3>1, <3>2, <2>3, <1>9, <1>11 DEF NotedAs
    <3>3. CASE \E i \in 1 .. K : m = L + i /\ seen'[m].key = a[i] /\ seen'[m].kind = "Started"
      BY <3>3
    <3>4. CASE \E i \in 1 .. M : m = L + K + i /\ seen'[m].key = b[i]
      <4>1. PICK i \in 1 .. M : m = L + K + i /\ seen'[m].key = b[i]
        BY <3>4
      <4>2. b[i] = b[j] /\ i # j
        BY <4>1, <2>3, <1>11
      <4> QED  BY <4>2, <1>2
    <3> QED  BY <1>3, <1>11, <3>2, <3>3, <3>4
  <2> QED  BY <1>3, <1>11, <2>1, <2>2, <2>3
<1>12. NotedOnce'
  BY <1>10, <1>11 DEF NotedOnce, NotedAs
<1> QED  BY <1>6, <1>7, <1>8, <1>12 DEF IInv

LEMMA StepKeeps ==
  ASSUME IInv, [TrackerNext]_tracking
  PROVE  IInv'
<1>1. CASE UNCHANGED tracking
  BY <1>1 DEF tracking, IInv, Types, Born, Gone, Young, NotedOnce, NotedAs
<1>2. CASE Tick \/ \E p \in Processes : Launch(p) \/ Leave(p)
  BY <1>2, WorldKeeps
<1>3. CASE Scan
  BY <1>3, FirstScan, LaterScan, LaterKeeps
<1> QED  BY <1>1, <1>2, <1>3 DEF TrackerNext

-----------------------------------------------------------------------------
(* What is left of a sequence *)

\* Max of FiniteSetsExt is in a set of numbers that is bounded.
LEMMA Largest ==
  ASSUME NEW N \in Nat, NEW S \in SUBSET (0 .. N), S # {}
  PROVE  Max(S) \in S
<1> DEFINE less == OpToRel(<, Nat)
           T == {N - n : n \in S}
<1>1. IsWellFoundedOn(less, Nat)
  BY NatLessThanWellFounded
<1>2. \A m, n \in Nat : m < n => <<m, n>> \in less
  BY DEF OpToRel
<1> HIDE DEF less
<1>3. T \in SUBSET Nat /\ T # {}
  <2>1. \A n \in S : N - n \in Nat /\ N - n \in T
    OBVIOUS
  <2>2. T # {}
    BY <2>1
  <2>3. \A m \in T : m \in Nat
    BY <2>1
  <2> QED  BY <2>2, <2>3
<1>4. PICK m \in T : \A n \in T : ~ (<<n, m>> \in less)
  <2> HIDE DEF T
  <2> QED  BY <1>1, <1>3, WFMin
<1>5. PICK x \in S : m = N - x
  BY <1>4
<1>6. ASSUME NEW y \in S
      PROVE  x >= y
  <2>1. N - y \in T /\ N - y \in Nat /\ m \in Nat
    BY <1>3, <1>4
  <2>2. ~ (N - y < m)
    BY <1>2, <1>4, <2>1, Zenon
  <2> QED  BY <1>5, <2>2
<1> QED  BY <1>5, <1>6 DEF Max

\* The last elements of s, d of them left out.
Dropped(s, d) == SubSeq(s, d + 1, Len(s))

LEMMA LastOf ==
  ASSUME NEW T, NEW s \in Seq(T), NEW d \in 0 .. Len(s)
  PROVE  /\ Dropped(s, d) \in Seq(T) /\ Len(Dropped(s, d)) = Len(s) - d
         /\ \A i \in 1 .. Len(s) - d : Dropped(s, d)[i] = s[d + i]
<1>1. Len(s) \in Nat /\ \A i \in d + 1 .. Len(s) : s[i] \in T
  BY ElementOfSeq, LenProperties
<1>2. /\ Dropped(s, d) \in Seq(T)
      /\ Len(Dropped(s, d)) = IF d + 1 <= Len(s) THEN Len(s) - (d + 1) + 1 ELSE 0
      /\ \A i \in 1 .. Len(s) - (d + 1) + 1 : Dropped(s, d)[i] = s[d + 1 + i - 1]
  BY <1>1, SubSeqProperties DEF Dropped
<1>3. Len(s) - (d + 1) + 1 = Len(s) - d
  BY <1>1
<1>4. ASSUME NEW i \in 1 .. Len(s) - d
      PROVE  Dropped(s, d)[i] = s[d + i]
  <2>1. d + 1 + i - 1 = d + i
    BY <1>1
  <2> QED  BY <1>2, <1>3, <2>1
<1> QED  BY <1>1, <1>2, <1>3, <1>4

LEMMA FreshIsLast ==
  ASSUME NEW T, NEW s \in Seq(T), NEW times
  PROVE  \E d \in 0 .. Len(s) : /\ Fresh(s, times) = Dropped(s, d)
                                /\ \A m \in 1 .. d : Age(times[m]) > Keep
<1> DEFINE stale == {n \in 0 .. Len(s) : \A m \in 1 .. n : Age(times[m]) > Keep}
<1>1. Len(s) \in Nat
  BY LenProperties
<1>2. 0 \in stale /\ stale \in SUBSET (0 .. Len(s))
  BY <1>1
<1>3. Max(stale) \in stale
  <2> HIDE DEF stale
  <2> QED  BY <1>1, <1>2, Largest
<1>4. Fresh(s, times) = Dropped(s, Max(stale))
  BY DEF Fresh, Dropped
<1> QED  BY <1>3, <1>4

LEMMA TrimmedIsLast ==
  ASSUME NEW T, NEW s \in Seq(T)
  PROVE  \E d \in 0 .. Len(s) :
           /\ Trimmed(s) = Dropped(s, d)
           /\ Len(s) - d <= StartLimit
           /\ d = 0 \/ Len(s) - d = StartLimit
<1>1. Len(s) \in Nat /\ StartLimit \in Nat
  BY LenProperties, ActivityAssumption
<1>2. CASE Len(s) > StartLimit
  <2> DEFINE d == Len(s) - StartLimit
  <2>1. d \in 0 .. Len(s) /\ Len(s) - d = StartLimit /\ Len(s) - StartLimit + 1 = d + 1
    BY <1>1, <1>2
  <2>2. Trimmed(s) = Dropped(s, d)
    BY <1>2 DEF Trimmed, Dropped
  <2> QED  BY <2>1, <2>2
<1>3. CASE Len(s) <= StartLimit
  <2>1. Trimmed(s) = Dropped(s, 0)
    BY <1>1, <1>3, SubSeqFull DEF Trimmed, Dropped
  <2> QED  BY <1>1, <1>3, <2>1
<1> QED  BY <1>1, <1>2, <1>3

-----------------------------------------------------------------------------
(* What the tracker remembers *)

\* Of the C starts since the time t, the starts s remember each one, or as many
\* as the limit allows: those since t are the last of s.
Remembers(s, t, C) ==
    \E e \in 0 .. Len(s) :
        /\ \A n \in 1 .. Len(s) : s[n] >= t <=> n > e
        /\ Len(s) - e = C \/ (Len(s) - e >= StartLimit /\ C >= StartLimit)

\* To leave out starts before t loses nothing, and neither does to keep as many
\* as the limit allows.
LEMMA LastRemembers ==
  ASSUME NEW s \in Seq(0 .. MaxTime), NEW d \in 0 .. Len(s), NEW t \in Nat, NEW C \in Nat,
         Remembers(s, t, C),
         (\A m \in 1 .. d : s[m] < t) \/ Len(s) - d = StartLimit
  PROVE  Remembers(Dropped(s, d), t, C)
<1>1. Len(s) \in Nat /\ StartLimit \in Nat /\ MaxTime \in Nat /\ \A n \in 1 .. Len(s) : s[n] \in Nat
  <2>1. Len(s) \in Nat /\ \A n \in 1 .. Len(s) : s[n] \in 0 .. MaxTime
    BY ElementOfSeq, LenProperties
  <2>2. StartLimit \in Nat /\ MaxTime \in Nat
    BY ActivityAssumption
  <2> QED  BY <2>1, <2>2
<1>2. PICK e \in 0 .. Len(s) :
        /\ \A n \in 1 .. Len(s) : s[n] >= t <=> n > e
        /\ Len(s) - e = C \/ (Len(s) - e >= StartLimit /\ C >= StartLimit)
  BY DEF Remembers
<1> DEFINE u == Dropped(s, d)
<1>3. Len(u) = Len(s) - d /\ \A i \in 1 .. Len(s) - d : u[i] = s[d + i]
  BY LastOf
<1> HIDE DEF u
<1>4. CASE e >= d
  <2>1. e - d \in 0 .. Len(u) /\ Len(u) - (e - d) = Len(s) - e
    BY <1>1, <1>3, <1>4
  <2>2. ASSUME NEW n \in 1 .. Len(u)
        PROVE  u[n] >= t <=> n > e - d
    <3>1. d + n \in 1 .. Len(s) /\ (d + n > e <=> n > e - d)
      BY <1>1, <1>3
    <3>2. u[n] = s[d + n]
      BY <1>1, <1>3
    <3> QED  BY <1>2, <3>1, <3>2
  <2> QED  BY <1>2, <2>1, <2>2 DEF Remembers, u
<1>5. CASE e < d
  <2>1. e + 1 \in 1 .. d /\ e + 1 \in 1 .. Len(s) /\ e + 1 > e
    BY <1>1, <1>5
  <2>2. ~ (s[e + 1] < t)
    BY <1>1, <1>2, <2>1
  <2>3. Len(u) = StartLimit /\ C >= StartLimit /\ 0 \in 0 .. Len(u)
    BY <1>1, <1>2, <1>3, <1>5, <2>1, <2>2
  <2>4. ASSUME NEW n \in 1 .. Len(u)
        PROVE  u[n] >= t <=> n > 0
    <3>1. d + n \in 1 .. Len(s) /\ d + n > e
      BY <1>1, <1>3, <1>5
    <3>2. u[n] = s[d + n]
      BY <1>1, <1>3
    <3> QED  BY <1>2, <3>1, <3>2
  <2>5. Len(u) - 0 >= StartLimit
    BY <1>1, <2>3
  <2> QED  BY <2>3, <2>4, <2>5 DEF Remembers, u
<1> QED  BY <1>1, <1>4, <1>5

\* k more starts, at a time at.
LEMMA MoreRemembered ==
  ASSUME NEW s \in Seq(0 .. MaxTime), NEW t \in Nat, NEW C \in Nat, Remembers(s, t, C),
         NEW k \in Nat, NEW at \in 0 .. MaxTime, t > at => C = 0
  PROVE  LET all == s \o [n \in 1 .. k |-> at]
         IN  /\ all \in Seq(0 .. MaxTime)
             /\ Remembers(all, t, C + (IF t <= at THEN k ELSE 0))
<1> DEFINE r == [n \in 1 .. k |-> at]
           all == s \o r
<1>1. r \in Seq(0 .. MaxTime) /\ Len(r) = k /\ \A n \in 1 .. k : r[n] = at
  BY ASequence
<1>2. Len(s) \in Nat /\ StartLimit \in Nat /\ 0 < StartLimit /\ MaxTime \in Nat
  BY LenProperties, ActivityAssumption
<1> HIDE DEF r
<1>3. /\ all \in Seq(0 .. MaxTime) /\ Len(all) = Len(s) + k
      /\ \A n \in 1 .. Len(s) : all[n] = s[n]
      /\ \A n \in Len(s) + 1 .. Len(s) + k : all[n] = at
  <2>1. /\ all \in Seq(0 .. MaxTime) /\ Len(all) = Len(s) + Len(r)
        /\ \A n \in 1 .. Len(s) + Len(r) :
             all[n] = IF n <= Len(s) THEN s[n] ELSE r[n - Len(s)]
    BY <1>1, ConcatProperties
  <2>2. ASSUME NEW n \in Len(s) + 1 .. Len(s) + k
        PROVE  all[n] = at
    <3>1. n \in 1 .. Len(s) + Len(r) /\ ~ (n <= Len(s)) /\ n - Len(s) \in 1 .. k
      BY <1>1, <1>2
    <3> QED  BY <1>1, <2>1, <3>1
  <2> QED  BY <1>1, <1>2, <2>1, <2>2
<1> HIDE DEF all
<1>4. PICK e \in 0 .. Len(s) :
        /\ \A n \in 1 .. Len(s) : s[n] >= t <=> n > e
        /\ Len(s) - e = C \/ (Len(s) - e >= StartLimit /\ C >= StartLimit)
  BY DEF Remembers
<1>5. CASE t <= at
  <2>1. e \in 0 .. Len(all)
    BY <1>2, <1>3
  <2>2. ASSUME NEW n \in 1 .. Len(all)
        PROVE  all[n] >= t <=> n > e
    <3>1. CASE n \in 1 .. Len(s)
      BY <3>1, <1>3, <1>4
    <3>2. CASE n \in Len(s) + 1 .. Len(s) + k
      BY <3>2, <1>2, <1>3, <1>5
    <3> QED  BY <3>1, <3>2, <1>2, <1>3
  <2>3. Len(all) - e = C + k \/ (Len(all) - e >= StartLimit /\ C + k >= StartLimit)
    BY <1>2, <1>3, <1>4
  <2> QED  BY <1>3, <1>5, <2>1, <2>2, <2>3 DEF Remembers, all, r
<1>6. CASE t > at
  <2>1. C = 0 /\ e = Len(s)
    BY <1>2, <1>4, <1>6
  <2>2. Len(all) \in 0 .. Len(all) /\ Len(all) - Len(all) = C
    BY <1>2, <1>3, <2>1
  <2>3. ASSUME NEW n \in 1 .. Len(all)
        PROVE  all[n] >= t <=> n > Len(all)
    <3>1. CASE n \in 1 .. Len(s)
      <4>1. ~ (s[n] >= t) /\ ~ (n > Len(all))
        BY <3>1, <1>2, <1>3, <1>4, <2>1
      <4> QED  BY <4>1, <3>1, <1>3
    <3>2. CASE n \in Len(s) + 1 .. Len(s) + k
      BY <3>2, <1>2, <1>3, <1>6
    <3> QED  BY <3>1, <3>2, <1>2, <1>3
  <2>4. ~ (t <= at) /\ C + 0 = C
    BY <1>6
  <2> QED  BY <1>3, <2>2, <2>3, <2>4 DEF Remembers, all, r
<1> QED  BY <1>5, <1>6

-----------------------------------------------------------------------------
(* The invariant of the memory *)

Count(f, t) == Cardinality(StartedSince(f, t))

Dated == \A n \in DOMAIN seen : seen[n].at <= now

Queues ==
    /\ events \in Seq(Event) /\ Len(events) <= EventLimit
    /\ starts \in [Paths -> Seq(0 .. MaxTime)]
    /\ ~initialized => starts = [f \in Paths |-> <<>>]

\* Of the time that is remembered, no start is lost but by the limit.
Remembered ==
    \A f \in Paths : \A t \in Nat :
        t + Keep >= scanned => Remembers(starts[f], t, Count(f, t))

\* restarting is what the starts of each path said at the last scan.
Derived ==
    restarting = {f \in {PathOf[p] : p \in live} :
        Cardinality({n \in DOMAIN starts[f] : scanned - starts[f][n] <= Window}) >= Threshold}

Memory == Dated /\ Queues /\ Remembered /\ Derived

LEMMA NothingYet ==
  ASSUME seen = <<>>, starts = [f \in Paths |-> <<>>], NEW f \in Paths
  PROVE  /\ \A t \in Nat : Remembers(starts[f], t, Count(f, t))
         /\ \A w : Cardinality({n \in DOMAIN starts[f] : w - starts[f][n] <= Window}) = 0
<1>1. starts[f] = <<>> /\ Len(starts[f]) = 0 /\ DOMAIN starts[f] = {} /\ DOMAIN seen = {}
  OBVIOUS
<1>2. Cardinality({}) = 0
  BY FS_EmptySet
<1>3. ASSUME NEW t \in Nat
      PROVE  Remembers(starts[f], t, Count(f, t))
  <2>1. Count(f, t) = 0
    <3>1. StartedSince(f, t) = {}
      BY <1>1 DEF StartedSince
    <3> QED  BY <1>2, <3>1 DEF Count
  <2> QED  BY <1>1, <2>1 DEF Remembers
<1>4. ASSUME NEW w
      PROVE  Cardinality({n \in DOMAIN starts[f] : w - starts[f][n] <= Window}) = 0
  <2>1. {n \in DOMAIN starts[f] : w - starts[f][n] <= Window} = {}
    BY <1>1
  <2> QED  BY <1>2, <2>1
<1> QED  BY <1>3, <1>4

LEMMA MemoryInit ==
  ASSUME TrackerInit
  PROVE  Memory
<1>1. /\ seen = <<>> /\ starts = [f \in Paths |-> <<>>] /\ events = <<>>
      /\ restarting = {} /\ live = {}
  BY DEF TrackerInit
<1>2. Dated
  BY <1>1 DEF Dated
<1>3. Queues
  <2>1. events \in Seq(Event) /\ Len(events) <= EventLimit
    BY <1>1, ActivityAssumption
  <2>2. starts \in [Paths -> Seq(0 .. MaxTime)]
    BY <1>1
  <2> QED  BY <1>1, <2>1, <2>2 DEF Queues
<1>4. Remembered
  BY <1>1, NothingYet DEF Remembered
<1>5. Derived
  BY <1>1 DEF Derived
<1> QED  BY <1>2, <1>3, <1>4, <1>5 DEF Memory

\* The machine disturbs the clock only.
LEMMA MemoryInWorld ==
  ASSUME IInv, Memory, Tick \/ \E p \in Processes : Launch(p) \/ Leave(p)
  PROVE  Memory'
<1>1. /\ UNCHANGED <<initialized, live, events, starts, restarting, scanned, seen>>
      /\ now' \in {now, now + 1}
  BY DEF Tick, Launch, Leave, tracker, history
<1>2. Dated'
  <2>1. ASSUME NEW n \in DOMAIN seen
        PROVE  seen[n].at <= now'
    <3>1. seen[n] \in Event
      BY ElementOfSeq, LenProperties DEF IInv, Types
    <3>2. seen[n].at \in 0 .. MaxTime /\ MaxTime \in Nat /\ now \in 0 .. MaxTime
      BY <3>1, ActivityAssumption DEF Event, IInv, Types
    <3>3. seen[n].at <= now
      BY DEF Memory, Dated
    <3> QED  BY <1>1, <3>2, <3>3
  <2> QED  BY <1>1, <2>1 DEF Dated
<1>3. Queues'
  BY <1>1 DEF Memory, Queues
<1>4. Remembered'
  BY <1>1 DEF Memory, Remembered, Count, StartedSince
<1>5. Derived'
  BY <1>1 DEF Memory, Derived
<1> QED  BY <1>2, <1>3, <1>4, <1>5 DEF Memory

LEMMA MemoryAtFirst ==
  ASSUME IInv, Memory, Scan, ~initialized
  PROVE  Memory'
<1>1. /\ initialized' = TRUE /\ live' = running /\ scanned' = now /\ now' = now
      /\ UNCHANGED <<events, starts, restarting, seen>>
  BY DEF Scan, IsFirst, machine
<1>2. seen = <<>> /\ starts = [f \in Paths |-> <<>>] /\ live = {}
  BY DEF IInv, Young, Memory, Queues
<1>3. Dated'
  BY <1>1 DEF Memory, Dated
<1>4. Queues'
  BY <1>1 DEF Memory, Queues
<1>5. Remembered'
  <2>1. \A f \in Paths : \A t \in Nat : Remembers(starts[f], t, Count(f, t))
    BY <1>2, NothingYet
  <2> QED  BY <1>1, <2>1 DEF Remembered, Count, StartedSince
<1>6. Derived'
  <2>1. restarting = {}
    BY <1>2 DEF Memory, Derived
  <2>2. ASSUME NEW p \in running
        PROVE  ~ (Cardinality({n \in DOMAIN starts[PathOf[p]] :
                    now - starts[PathOf[p]][n] <= Window}) >= Threshold)
    <3>1. PathOf[p] \in Paths
      BY ActivityAssumption DEF IInv, Types
    <3>2. Cardinality({n \in DOMAIN starts[PathOf[p]] :
                    now - starts[PathOf[p]][n] <= Window}) = 0
      BY <1>2, <3>1, NothingYet
    <3> QED  BY <3>2, ActivityAssumption
  <2> QED  BY <1>1, <2>1, <2>2 DEF Derived
<1> QED  BY <1>3, <1>4, <1>5, <1>6 DEF Memory

\* The processes of the path f that a scan finds started.
Found(f) == {p \in running \ live : PathOf[p] = f}

LEMMA CountGrows ==
  ASSUME IInv, Dated, NEW x \in Nat, NEW y \in Nat, NEW z \in Nat, NEW a, NEW b,
         Notes(x, y, z, a, b), NEW f, NEW t \in Nat
  PROVE  /\ Count(f, t) \in Nat /\ Cardinality(Found(f)) \in Nat
         /\ t > now => Count(f, t) = 0
         /\ Count(f, t)' = Count(f, t) + (IF t <= now THEN Cardinality(Found(f)) ELSE 0)
<1>1. /\ DOMAIN seen = 1 .. x /\ DOMAIN seen' = 1 .. x + y + z
      /\ \A n \in 1 .. x : seen'[n] = seen[n]
      /\ \A n \in 1 .. y : seen'[x + n].key = a[n] /\ seen'[x + n].kind = "Started"
      /\ \A n \in 1 .. z : seen'[x + y + n].key = b[n] /\ seen'[x + y + n].kind = "Exited"
      /\ \A n \in x + 1 .. x + y + z : seen'[n].at = now
      /\ \A n \in 1 .. y : a[n] \in running \ live
      /\ \A i, j \in 1 .. y : a[i] = a[j] => i = j
      /\ \A p \in running \ live : \E n \in 1 .. y : a[n] = p
  BY DEF Notes
<1>2. now \in Nat /\ \A n \in 1 .. x : seen[n].at \in Nat /\ seen[n].at <= now
  <2>1. \A n \in 1 .. x : seen[n] \in Event
    BY <1>1, ElementOfSeq, LenProperties DEF IInv, Types
  <2>2. \A n \in 1 .. x : seen[n].at \in Nat
    BY <2>1 DEF Event
  <2>3. \A n \in 1 .. x : seen[n].at <= now
    BY <1>1 DEF Dated
  <2>4. now \in Nat
    BY DEF IInv, Types
  <2> QED  BY <2>2, <2>3, <2>4
<1> DEFINE S == StartedSince(f, t)
           N == {n \in x + 1 .. x + y : PathOf[seen'[n].key] = f}
<1>3. IsFiniteSet(S) /\ S \in SUBSET (1 .. x)
  <2>1. S \in SUBSET (1 .. x)
    BY <1>1 DEF StartedSince
  <2>2. IsFiniteSet(1 .. x)
    BY FS_Interval
  <2> HIDE DEF S
  <2> QED  BY <2>1, <2>2, FS_Subset
<1>4. t > now => S = {}
  BY <1>1, <1>2 DEF StartedSince
<1>5. IsFiniteSet(N) /\ N \cap S = {}
  <2>1. N \in SUBSET (x + 1 .. x + y)
    OBVIOUS
  <2>2. IsFiniteSet(x + 1 .. x + y)
    BY FS_Interval
  <2>3. IsFiniteSet(N)
    <3> HIDE DEF N
    <3> QED  BY <2>1, <2>2, FS_Subset
  <2> QED  BY <2>3, <1>3
<1>6. Cardinality(Found(f)) = Cardinality(N)
  <2> DEFINE g == [n \in N |-> a[n - x]]
  <2>1. \A n \in N : n - x \in 1 .. y /\ n = x + (n - x)
    OBVIOUS
  <2>2. \A n \in N : a[n - x] \in Found(f)
    BY <1>1, <2>1 DEF Found
  <2>3. \A m, n \in N : a[m - x] = a[n - x] => m = n
    <3> SUFFICES ASSUME NEW m \in N, NEW n \in N, a[m - x] = a[n - x]
                 PROVE  m = n
      OBVIOUS
    <3>1. m - x = n - x
      BY <1>1, <2>1
    <3> QED  BY <2>1, <3>1
  <2>4. ASSUME NEW p \in Found(f)
        PROVE  \E n \in N : a[n - x] = p
    <3>1. PICK n \in 1 .. y : a[n] = p
      BY <1>1 DEF Found
    <3>2. x + n \in N /\ (x + n) - x = n
      BY <1>1, <3>1 DEF Found
    <3> QED  BY <3>1, <3>2
  <2> HIDE DEF N
  <2>5. g \in Bijection(N, Found(f))
    BY <2>2, <2>3, <2>4 DEF Bijection, Injection, Surjection, IsInjective
  <2> QED  BY <2>5, <1>5, FS_Bijection DEF ExistsBijection
<1>7. StartedSince(f, t)' = IF t <= now THEN S \cup N ELSE S
  <2>1. \A n \in 1 .. x : n \in StartedSince(f, t)' <=> n \in S
    BY <1>1 DEF StartedSince
  <2>2. \A n \in x + 1 .. x + y : n \in StartedSince(f, t)' <=> n \in N /\ t <= now
    <3> SUFFICES ASSUME NEW n \in x + 1 .. x + y
                 PROVE  n \in StartedSince(f, t)' <=> n \in N /\ t <= now
      OBVIOUS
    <3>1. n - x \in 1 .. y /\ x + (n - x) = n
      OBVIOUS
    <3>2. n \in x + 1 .. x + y + z /\ n \in 1 .. x + y + z
      OBVIOUS
    <3>3. seen'[x + (n - x)].kind = "Started"
      BY <1>1, <3>1, Zenon
    <3>4. seen'[n].at = now /\ n \in DOMAIN seen'
      BY <1>1, <3>2, Zenon
    <3>5. seen'[n].kind = "Started" /\ seen'[n].at = now /\ n \in DOMAIN seen'
      BY <3>1, <3>3, <3>4
    <3> QED  BY <1>2, <3>5 DEF StartedSince
  <2>3. \A n \in x + y + 1 .. x + y + z : n \notin StartedSince(f, t)'
    <3> SUFFICES ASSUME NEW n \in x + y + 1 .. x + y + z
                 PROVE  n \notin StartedSince(f, t)'
      OBVIOUS
    <3>1. n - (x + y) \in 1 .. z /\ x + y + (n - (x + y)) = n
      OBVIOUS
    <3>2. seen'[x + y + (n - (x + y))].kind = "Exited"
      BY <1>1, <3>1, Zenon
    <3>3. seen'[n].kind = "Exited"
      BY <3>1, <3>2
    <3> QED  BY <3>3 DEF StartedSince
  <2>4. \A n \in 1 .. x + y + z :
          n \in 1 .. x \/ n \in x + 1 .. x + y \/ n \in x + y + 1 .. x + y + z
    OBVIOUS
  <2>5. StartedSince(f, t)' \subseteq 1 .. x + y + z
    BY <1>1 DEF StartedSince
  <2>6. N \subseteq x + 1 .. x + y
    OBVIOUS
  <2>7. ASSUME NEW n \in 1 .. x + y + z
        PROVE  n \in StartedSince(f, t)' <=> n \in (IF t <= now THEN S \cup N ELSE S)
    <3>1. CASE n \in 1 .. x
      BY <3>1, <2>1, <2>6
    <3>2. CASE n \in x + 1 .. x + y
      BY <3>2, <2>2, <1>3
    <3>3. CASE n \in x + y + 1 .. x + y + z
      BY <3>3, <2>3, <2>6, <1>3
    <3> QED  BY <2>4, <3>1, <3>2, <3>3
  <2>8. (IF t <= now THEN S \cup N ELSE S) \subseteq 1 .. x + y + z
    BY <1>3, <2>6
  <2> HIDE DEF S, N
  <2> QED  BY <2>5, <2>7, <2>8
<1> HIDE DEF S, N
<1>8. /\ Cardinality(S) \in Nat /\ Cardinality(N) \in Nat
      /\ Cardinality(S \cup N) = Cardinality(S) + Cardinality(N)
  <2>1. S \cap N = {}
    BY <1>5
  <2>2. Cardinality(S \cup N) = Cardinality(S) + Cardinality(N) - Cardinality(S \cap N)
    BY <1>3, <1>5, FS_Union
  <2>3. Cardinality(S) \in Nat /\ Cardinality(N) \in Nat /\ Cardinality(S \cap N) = 0
    BY <1>3, <1>5, <2>1, FS_CardinalityType, FS_EmptySet
  <2> QED  BY <2>2, <2>3
<1>9. Count(f, t) = Cardinality(S) /\ Count(f, t)' = Cardinality(StartedSince(f, t)')
  BY DEF Count, S
<1>10. t > now => Count(f, t) = 0
  BY <1>4, <1>9, FS_EmptySet
<1> QED  BY <1>6, <1>7, <1>8, <1>9, <1>10

\* The starts of f that a later scan leaves.
StartsLeft(f) == Fresh(StartsAfter(f, running \ live), StartsAfter(f, running \ live))

LEMMA LaterMemory ==
  ASSUME IInv, Scan, initialized
  PROVE  /\ \E a \in SetToSeqs(running \ live), b \in SetToSeqs(live \ running) :
              events' = Expired(events \o (Noted(a, "Started") \o Noted(b, "Exited")))
         /\ starts' = [f \in Paths |-> StartsLeft(f)]
         /\ restarting' = {f \in {PathOf[p] : p \in running} : IsRestarting(StartsLeft(f))}
<1>1. Update(running)
  BY DEF Scan, IsFirst
<1>2. ASSUME NEW f \in {PathOf[p] : p \in running}
      PROVE  f \in Paths
  BY ActivityAssumption DEF IInv, Types
<1>3. PICK a \in SetToSeqs(running \ live), b \in SetToSeqs(live \ running) :
        LET after == [f \in Paths |->
                        LET all == StartsAfter(f, running \ live) IN Fresh(all, all)]
        IN  /\ events' = Expired(events \o (Noted(a, "Started") \o Noted(b, "Exited")))
            /\ starts' = after
            /\ restarting' = {f \in {PathOf[p] : p \in running} : IsRestarting(after[f])}
  BY <1>1 DEF Update
<1>4. starts' = [f \in Paths |-> StartsLeft(f)]
  BY <1>3 DEF StartsLeft
<1>5. restarting' = {f \in {PathOf[p] : p \in running} :
                       IsRestarting([g \in Paths |-> StartsLeft(g)][f])}
  BY <1>3 DEF StartsLeft
<1>6. \A f \in {PathOf[p] : p \in running} : [g \in Paths |-> StartsLeft(g)][f] = StartsLeft(f)
  BY <1>2
<1>7. restarting' = {f \in {PathOf[p] : p \in running} : IsRestarting(StartsLeft(f))}
  BY <1>5, <1>6
<1> QED  BY <1>3, <1>4, <1>7

LEMMA NotedType ==
  ASSUME IInv, NEW S \in SUBSET Processes, NEW a \in SetToSeqs(S), NEW k \in {"Started", "Exited"}
  PROVE  Noted(a, k) \in Seq(Event)
<1>1. IsFiniteSet(S)
  BY ActivityAssumption, FS_Subset
<1>2. PICK n \in Nat : a \in [1 .. n -> S]
  BY <1>1, Enumerates
<1>3. \A i \in 1 .. n : [at |-> now, key |-> a[i], kind |-> k] \in Event
  BY <1>2 DEF IInv, Types, Event
<1>4. Noted(a, k) = [i \in 1 .. n |-> [at |-> now, key |-> a[i], kind |-> k]]
  BY <1>2 DEF Noted
<1> QED  BY <1>3, <1>4, ASequence

LEMMA ExpiredType ==
  ASSUME NEW s \in Seq(Event)
  PROVE  Expired(s) \in Seq(Event) /\ Len(Expired(s)) <= EventLimit
<1> DEFINE kept == Fresh(s, Times(s))
<1>1. kept \in Seq(Event)
  BY FreshIsLast, LastOf
<1> HIDE DEF kept
<1>2. Len(kept) \in Nat /\ EventLimit \in Nat
  BY <1>1, LenProperties, ActivityAssumption
<1>3. CASE Len(kept) > EventLimit
  <2> DEFINE d == Len(kept) - EventLimit
  <2>1. d \in 0 .. Len(kept) /\ Len(kept) - d = EventLimit /\ Len(kept) - EventLimit + 1 = d + 1
    BY <1>2, <1>3
  <2>2. Expired(s) = Dropped(kept, d)
    BY <1>3 DEF Expired, Dropped, kept
  <2> HIDE DEF d
  <2>3. Dropped(kept, d) \in Seq(Event) /\ Len(Dropped(kept, d)) = Len(kept) - d
    BY <1>1, <2>1, LastOf
  <2> QED  BY <1>2, <2>1, <2>2, <2>3
<1>4. CASE Len(kept) <= EventLimit
  <2>1. Expired(s) = kept
    BY <1>2, <1>4 DEF Expired, kept
  <2> QED  BY <1>1, <1>4, <2>1
<1> QED  BY <1>2, <1>3, <1>4

\* What a later scan leaves of the starts remembers as much of the time that
\* counts from now on, with the starts that it found.
LEMMA StartsLeftRemember ==
  ASSUME IInv, Memory, NEW f \in Paths
  PROVE  /\ StartsLeft(f) \in Seq(0 .. MaxTime)
         /\ \A t \in Nat : \A C \in Nat :
              (/\ t + Keep >= now
               /\ Remembers(starts[f], t, C)
               /\ t > now => C = 0)
                 => Remembers(StartsLeft(f), t, C + (IF t <= now THEN Cardinality(Found(f)) ELSE 0))
<1> DEFINE k     == Cardinality(Found(f))
           added == starts[f] \o [n \in 1 .. k |-> now]
           all   == StartsAfter(f, running \ live)
<1>1. starts[f] \in Seq(0 .. MaxTime) /\ now \in 0 .. MaxTime /\ MaxTime \in Nat /\ Keep \in Nat
  BY ActivityAssumption DEF IInv, Types, Memory, Queues
<1>2. k \in Nat
  <2>1. Found(f) \in SUBSET Processes
    BY DEF IInv, Types, Found
  <2>2. IsFiniteSet(Found(f))
    BY <2>1, ActivityAssumption, FS_Subset
  <2> QED  BY <2>2, FS_CardinalityType
<1>3. all = Trimmed(added)
  BY DEF StartsAfter, Found
<1>4. added \in Seq(0 .. MaxTime)
  <2>1. [n \in 1 .. k |-> now] \in Seq(0 .. MaxTime)
    <3> HIDE DEF k
    <3> QED  BY <1>1, <1>2, ASequence
  <2> QED  BY <1>1, <2>1, ConcatProperties
<1> HIDE DEF added
<1>5. PICK d \in 0 .. Len(added) :
        /\ all = Dropped(added, d)
        /\ d = 0 \/ Len(added) - d = StartLimit
  BY <1>3, <1>4, TrimmedIsLast
<1>6. all \in Seq(0 .. MaxTime)
  BY <1>4, <1>5, LastOf
<1>7. StartsLeft(f) = Fresh(all, all)
  BY DEF StartsLeft
<1> HIDE DEF all
<1>8. PICK e \in 0 .. Len(all) : /\ Fresh(all, all) = Dropped(all, e)
                                 /\ \A m \in 1 .. e : Age(all[m]) > Keep
  BY <1>6, FreshIsLast
<1>9. StartsLeft(f) \in Seq(0 .. MaxTime)
  BY <1>6, <1>7, <1>8, LastOf
<1>10. ASSUME NEW t \in Nat, NEW C \in Nat, t + Keep >= now, Remembers(starts[f], t, C),
              t > now => C = 0
       PROVE  Remembers(StartsLeft(f), t, C + (IF t <= now THEN k ELSE 0))
  <2> DEFINE D == C + (IF t <= now THEN k ELSE 0)
  <2>1. D \in Nat
    BY <1>2
  <2>2. Remembers(added, t, D)
    <3> HIDE DEF k
    <3> QED  BY <1>1, <1>2, <1>10, MoreRemembered DEF added
  <2> HIDE DEF D
  <2>3. Remembers(all, t, D)
    <3>1. (\A m \in 1 .. d : added[m] < t) \/ Len(added) - d = StartLimit
      BY <1>5
    <3> QED  BY <1>4, <1>5, <2>1, <2>2, <3>1, LastRemembers
  <2>4. \A m \in 1 .. e : all[m] < t
    <3> SUFFICES ASSUME NEW m \in 1 .. e
                 PROVE  all[m] < t
      OBVIOUS
    <3>1. m \in 1 .. Len(all)
      BY <1>6, <1>8, LenProperties
    <3>2. all[m] \in 0 .. MaxTime
      BY <1>6, <3>1, ElementOfSeq, LenProperties
    <3>3. now - all[m] > Keep
      BY <1>8 DEF Age
    <3> QED  BY <1>1, <1>10, <3>2, <3>3
  <2>5. Remembers(Dropped(all, e), t, D)
    BY <1>6, <1>8, <2>1, <2>3, <2>4, LastRemembers
  <2> QED  BY <2>5, <1>7, <1>8 DEF D
<1> HIDE DEF k
<1>11. \A t \in Nat : \A C \in Nat :
         (/\ t + Keep >= now
          /\ Remembers(starts[f], t, C)
          /\ t > now => C = 0)
            => Remembers(StartsLeft(f), t, C + (IF t <= now THEN k ELSE 0))
  BY <1>10
<1> QED  BY <1>9, <1>11 DEF k

LEMMA MemoryLater ==
  ASSUME IInv, Memory, Scan, initialized
  PROVE  Memory'
<1>1. live' = running /\ scanned' = now /\ initialized' = TRUE /\ now' = now
  BY LaterScan
<1>2. PICK x \in Nat, y \in Nat, z \in Nat : \E a, b : Notes(x, y, z, a, b)
  BY NotesOfScan
<1>3. PICK a, b : Notes(x, y, z, a, b)
  BY <1>2
<1>4. starts' = [f \in Paths |-> StartsLeft(f)]
  BY LaterMemory
<1>5. Dated'
  <2>1. /\ DOMAIN seen = 1 .. x /\ DOMAIN seen' = 1 .. x + y + z
        /\ \A n \in 1 .. x : seen'[n] = seen[n]
        /\ \A n \in x + 1 .. x + y + z : seen'[n].at = now
    BY <1>3 DEF Notes
  <2>2. ASSUME NEW n \in 1 .. x + y + z
        PROVE  seen'[n].at <= now
    <3>1. CASE n \in 1 .. x
      BY <3>1, <2>1 DEF Memory, Dated
    <3>2. CASE n \in x + 1 .. x + y + z
      <4>1. now \in Nat
        BY DEF IInv, Types
      <4> QED  BY <2>1, <3>2, <4>1
    <3> QED  BY <3>1, <3>2
  <2> QED  BY <1>1, <2>1, <2>2 DEF Dated
<1>6. Queues'
  <2>1. events' \in Seq(Event) /\ Len(events') <= EventLimit
    <3>1. PICK c \in SetToSeqs(running \ live), d \in SetToSeqs(live \ running) :
            events' = Expired(events \o (Noted(c, "Started") \o Noted(d, "Exited")))
      BY LaterMemory
    <3>2. running \ live \in SUBSET Processes /\ live \ running \in SUBSET Processes
      BY DEF IInv, Types
    <3>3. Noted(c, "Started") \in Seq(Event)
      BY <3>2, NotedType
    <3>4. Noted(d, "Exited") \in Seq(Event)
      BY <3>2, NotedType
    <3>5. Noted(c, "Started") \o Noted(d, "Exited") \in Seq(Event)
      BY <3>3, <3>4, ConcatProperties
    <3>6. events \o (Noted(c, "Started") \o Noted(d, "Exited")) \in Seq(Event)
      BY <3>5, ConcatProperties DEF Memory, Queues
    <3> QED  BY <3>1, <3>6, ExpiredType
  <2>2. starts' \in [Paths -> Seq(0 .. MaxTime)]
    BY <1>4, StartsLeftRemember
  <2> QED  BY <1>1, <2>1, <2>2 DEF Queues
<1>7. Remembered'
  <2>1. ASSUME NEW f \in Paths, NEW t \in Nat, t + Keep >= now
        PROVE  Remembers(starts'[f], t, Count(f, t)')
    <3>1. /\ Count(f, t) \in Nat
          /\ t > now => Count(f, t) = 0
          /\ Count(f, t)' = Count(f, t) + (IF t <= now THEN Cardinality(Found(f)) ELSE 0)
      BY <1>3, CountGrows DEF Memory
    <3>2. t + Keep >= scanned
      <4>1. scanned \in 0 .. now
        BY DEF IInv, Young
      <4>2. now \in Nat /\ Keep \in Nat
        BY ActivityAssumption DEF IInv, Types
      <4> QED  BY <2>1, <4>1, <4>2
    <3>3. Remembers(starts[f], t, Count(f, t))
      BY <3>2 DEF Memory, Remembered
    <3>4. starts'[f] = StartsLeft(f)
      BY <1>4
    <3> QED  BY <2>1, <3>1, <3>3, <3>4, StartsLeftRemember
  <2> QED  BY <1>1, <2>1 DEF Remembered
<1>8. Derived'
  <2>1. restarting' = {f \in {PathOf[p] : p \in running} : IsRestarting(StartsLeft(f))}
    BY LaterMemory
  <2>2. ASSUME NEW f \in {PathOf[p] : p \in running}
        PROVE  starts'[f] = StartsLeft(f)
    <3>1. f \in Paths
      BY ActivityAssumption DEF IInv, Types
    <3> QED  BY <1>4, <3>1
  <2>3. \A f \in {PathOf[p] : p \in running} :
          IsRestarting(StartsLeft(f)) <=>
            Cardinality({n \in DOMAIN starts'[f] : now - starts'[f][n] <= Window}) >= Threshold
    BY <2>2 DEF IsRestarting, Age
  <2> QED  BY <1>1, <2>1, <2>3 DEF Derived
<1> QED  BY <1>5, <1>6, <1>7, <1>8 DEF Memory

LEMMA MemoryKept ==
  ASSUME IInv, Memory, [TrackerNext]_tracking
  PROVE  Memory'
<1>1. CASE UNCHANGED tracking
  BY <1>1 DEF tracking, Memory, Dated, Queues, Remembered, Derived, Count, StartedSince
<1>2. CASE Tick \/ \E p \in Processes : Launch(p) \/ Leave(p)
  BY <1>2, MemoryInWorld
<1>3. CASE Scan
  BY <1>3, MemoryAtFirst, MemoryLater DEF IInv, Types
<1> QED  BY <1>1, <1>2, <1>3 DEF TrackerNext

\* At the last scan the starts that the tracker counted and all there were are
\* as many, or both are too many to tell.
LEMMA MemoryTells ==
  ASSUME IInv, Memory
  PROVE  RestartingExact
<1>1. /\ Window \in Nat /\ Keep \in Nat /\ MaxTime \in Nat /\ Threshold \in Nat /\ StartLimit \in Nat
      /\ Window <= Keep /\ Threshold <= StartLimit
  BY ActivityAssumption
<1>2. scanned \in Nat
  BY <1>1 DEF IInv, Types, Young
<1> DEFINE t == IF scanned >= Window THEN scanned - Window ELSE 0
<1>3. t \in Nat /\ t + Keep >= scanned
  BY <1>1, <1>2
<1>4. \A at \in Nat : scanned - at <= Window <=> at >= t
  BY <1>1, <1>2
<1> HIDE DEF t
<1>5. ASSUME NEW f \in Paths
      PROVE  Cardinality({n \in DOMAIN starts[f] : scanned - starts[f][n] <= Window}) >= Threshold
               <=> Cardinality({n \in StartedSince(f, 0) : scanned - seen[n].at <= Window}) >= Threshold
  <2> DEFINE s == starts[f]
  <2>1. s \in Seq(0 .. MaxTime)
    BY DEF Memory, Queues
  <2>2. Len(s) \in Nat /\ DOMAIN s = 1 .. Len(s) /\ \A n \in 1 .. Len(s) : s[n] \in Nat
    <3>1. Len(s) \in Nat /\ DOMAIN s = 1 .. Len(s)
      BY <2>1, LenProperties
    <3>2. \A n \in 1 .. Len(s) : s[n] \in 0 .. MaxTime
      BY <2>1, ElementOfSeq
    <3> QED  BY <3>1, <3>2, <1>1
  <2>3. PICK e \in 0 .. Len(s) :
          /\ \A n \in 1 .. Len(s) : s[n] >= t <=> n > e
          /\ Len(s) - e = Count(f, t) \/ (Len(s) - e >= StartLimit /\ Count(f, t) >= StartLimit)
    BY <1>3 DEF Memory, Remembered, Remembers
  <2> HIDE DEF s
  <2>4. {n \in DOMAIN s : scanned - s[n] <= Window} = e + 1 .. Len(s)
    <3>1. \A n \in 1 .. Len(s) : scanned - s[n] <= Window <=> n > e
      BY <1>4, <2>2, <2>3
    <3>2. \A n \in 1 .. Len(s) : n > e <=> n \in e + 1 .. Len(s)
      BY <2>2, <2>3
    <3>3. e + 1 .. Len(s) \subseteq 1 .. Len(s)
      BY <2>2, <2>3
    <3> QED  BY <2>2, <3>1, <3>2, <3>3
  <2>5. Cardinality(e + 1 .. Len(s)) = Len(s) - e
    <3>1. e + 1 \in Int /\ Len(s) \in Int /\ e + 1 <= Len(s) + 1
      BY <2>2, <2>3
    <3>2. Cardinality(e + 1 .. Len(s)) =
            IF e + 1 > Len(s) THEN 0 ELSE Len(s) - (e + 1) + 1
      BY <3>1, FS_Interval
    <3> QED  BY <2>2, <2>3, <3>1, <3>2
  <2>6. {n \in StartedSince(f, 0) : scanned - seen[n].at <= Window} = StartedSince(f, t)
    <3>1. \A n \in DOMAIN seen : seen[n].at \in Nat
      <4>1. \A n \in DOMAIN seen : seen[n] \in Event
        BY ElementOfSeq, LenProperties DEF IInv, Types
      <4> QED  BY <4>1, <1>1 DEF Event
    <3>2. \A n \in DOMAIN seen : seen[n].at >= 0 /\ (scanned - seen[n].at <= Window <=> seen[n].at >= t)
      BY <1>4, <3>1
    <3> QED  BY <3>2 DEF StartedSince
  <2>7. Cardinality({n \in StartedSince(f, 0) : scanned - seen[n].at <= Window}) = Count(f, t)
    BY <2>6 DEF Count
  <2>8. Count(f, t) \in Nat
    <3>1. StartedSince(f, t) \in SUBSET (1 .. Len(seen)) /\ Len(seen) \in Nat
      BY LenProperties DEF IInv, Types, StartedSince
    <3>2. IsFiniteSet(1 .. Len(seen))
      BY <3>1, FS_Interval
    <3>3. IsFiniteSet(StartedSince(f, t))
      BY <3>1, <3>2, FS_Subset
    <3> QED  BY <3>3, FS_CardinalityType DEF Count
  <2>9. Len(s) - e >= Threshold <=> Count(f, t) >= Threshold
    BY <1>1, <2>2, <2>3, <2>8
  <2> QED  BY <2>4, <2>5, <2>7, <2>9 DEF s
<1>6. \A p \in live : PathOf[p] \in Paths
  BY ActivityAssumption DEF IInv, Types
<1> QED  BY <1>5, <1>6 DEF Memory, Derived, RestartingExact

-----------------------------------------------------------------------------
(* Theorems *)

\* NotedOnce: a process is noted to start once and to exit once, in this order.
THEOREM EachNotedOnce == Tracking => []NotedOnce
<1>1. TrackerInit => IInv
  BY InitHolds
<1>2. IInv /\ [TrackerNext]_tracking => IInv'
  BY StepKeeps
<1>3. IInv => NotedOnce
  BY DEF IInv
<1> QED  BY <1>1, <1>2, <1>3, PTL DEF Tracking

\* StartedSinceScan: what a scan notes as started did start since the scan
\* before.
THEOREM NoStartMadeUp == Tracking => StartedSinceScan
<1>1. TrackerInit => IInv
  BY InitHolds
<1>2. IInv /\ [TrackerNext]_tracking => IInv'
  BY StepKeeps
<1>3. ASSUME IInv, [TrackerNext]_tracking
      PROVE  [\A n \in DOMAIN seen' \ DOMAIN seen :
                seen'[n].kind = "Started" => born[seen'[n].key] >= scanned]_tracking
  <2>1. CASE seen' = seen
    BY <2>1
  <2>2. CASE Scan /\ initialized
    <3>1. PICK x \in Nat, y \in Nat, z \in Nat : \E a, b : Notes(x, y, z, a, b)
      BY <1>3, <2>2, NotesOfScan
    <3>3. PICK a, b : Notes(x, y, z, a, b)
      BY <3>1
    <3>2. ASSUME NEW n \in DOMAIN seen' \ DOMAIN seen, seen'[n].kind = "Started"
          PROVE  born[seen'[n].key] >= scanned
      <4>0. n \in 1 .. x + y + z /\ x \in Nat /\ y \in Nat /\ z \in Nat
        BY <3>1, <3>2, <3>3 DEF Notes
      <4>1. n \in 1 .. x \/ n - x \in 1 .. y \/ n - (x + y) \in 1 .. z
        BY <4>0
      <4>2. \E m \in 1 .. y : seen'[n].key = a[m]
        <5>1. n \notin 1 .. x
          BY <3>2, <3>3 DEF Notes
        <5>2. CASE n - x \in 1 .. y
          <6>1. PICK m \in 1 .. y : n = x + m
            BY <4>0, <5>2
          <6>2. seen'[x + m].key = a[m]
            BY <3>3 DEF Notes
          <6> QED  BY <6>1, <6>2
        <5>3. CASE n - (x + y) \in 1 .. z
          <6>1. n = x + y + (n - (x + y))
            BY <4>0
          <6>2. seen'[n].kind = "Exited"
            BY <5>3, <6>1, <3>3 DEF Notes
          <6> QED  BY <6>2, <3>2
        <5> QED  BY <4>1, <5>1, <5>2, <5>3
      <4>3. seen'[n].key \in running \ live
        <5>1. PICK m \in 1 .. y : seen'[n].key = a[m]
          BY <4>2
        <5>2. a \in [1 .. y -> running \ live]
          BY <3>3 DEF Notes
        <5> QED  BY <5>1, <5>2
      <4> QED  BY <4>3, <1>3, <2>2 DEF IInv, Young
    <3> QED  BY <3>2
  <2>3. seen' = seen \/ (Scan /\ initialized)
    BY <1>3 DEF TrackerNext, tracking, Tick, Launch, Leave, Scan, IsFirst, history
  <2> QED  BY <2>1, <2>2, <2>3
<1> QED  BY <1>1, <1>2, <1>3, PTL DEF Tracking, StartedSinceScan

\* TrackerTypeOK: the queues hold events and times, and the events stay within their
\* limit.
THEOREM TypeCorrect == Tracking => []TrackerTypeOK
<1>1. TrackerInit => IInv /\ Memory
  BY InitHolds, MemoryInit
<1>2. IInv /\ Memory /\ [TrackerNext]_tracking => (IInv /\ Memory)'
  BY StepKeeps, MemoryKept
<1>3. IInv /\ Memory => TrackerTypeOK
  <2> SUFFICES ASSUME IInv, Memory  PROVE TrackerTypeOK
    OBVIOUS
  <2>1. restarting \subseteq Paths
    BY ActivityAssumption DEF IInv, Types, Memory, Derived
  <2> QED  BY <2>1 DEF IInv, Types, Memory, Queues, TrackerTypeOK
<1> QED  BY <1>1, <1>2, <1>3, PTL DEF Tracking

\* RestartingExact: neither the limit on the starts of a path nor their expiry
\* loses a start that counts, or counts one that does not.
THEOREM RestartsExact == Tracking => []RestartingExact
<1>1. TrackerInit => IInv /\ Memory
  BY InitHolds, MemoryInit
<1>2. IInv /\ Memory /\ [TrackerNext]_tracking => (IInv /\ Memory)'
  BY StepKeeps, MemoryKept
<1>3. IInv /\ Memory => RestartingExact
  BY MemoryTells
<1> QED  BY <1>1, <1>2, <1>3, PTL DEF Tracking
=============================================================================
