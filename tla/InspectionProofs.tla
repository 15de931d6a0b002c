-------------------------- MODULE InspectionProofs --------------------------
(***************************************************************************)
(* Theorems about the inspection of a process: the worker thread that does *)
(* it, with its queue and its cache (DetailWorker), and the verification   *)
(* of the signature that each inspection ends with (Signature).            *)
(*                                                                         *)
(* The worker, for any number of requests and processes and a cache of any *)
(* size.  InTurn, that no accepted request is lost, answered twice or out  *)
(* of its turn, is inductive with two facts beside the types: the worker   *)
(* holds a request just while it works on one (Busy), and Stop is not sent *)
(* before the window goes (OpenQueue), so that what is accepted goes behind*)
(* requests only.  CacheIsRecent needs to say how the order of the cache   *)
(* relates to all uses there were (Recent): behind each key in the cache   *)
(* are just the keys used after it, and since a key that left was used,    *)
(* the cache has been full of keys used later.                             *)
(*                                                                         *)
(* The verification, for any number of changes to the file: what verify    *)
(* opens it closes, and what it says was true of a file at the path.       *)
(* Balanced follows from what is open before each step (Contexts).  Honest *)
(* needs the invariant to say where each answer came from: the contents    *)
(* that were hashed or verified were at the path (Sources), a catalog is   *)
(* asked about only when one was found (Catalogued), and what              *)
(* WinVerifyTrust returned was true of one of these files (Grounds); when  *)
(* there was only one file and nothing was refused, of that one            *)
(* (Undisturbed).                                                          *)
(***************************************************************************)
EXTENDS DetailWorker, Signature, SequenceTheorems, FiniteSetTheorems, WellFoundedInduction,
        TLAPS

-----------------------------------------------------------------------------
(* The worker: requests *)

Commands == Keys \cup {Stop}

Types ==
    /\ ui \in {"open", "joining", "gone"}
    /\ selected \in Keys \cup {Nobody}
    /\ worker \in {"none", "waiting", "working", "answering", "ended"}
    /\ current \in Keys \cup {Nobody}
    /\ channel \in Seq(Commands)
    /\ sent \in Seq(Keys) /\ answered \in Seq(Keys)

Busy == worker \in {"working", "answering"} <=> current # Nobody

\* All requests there were, as far as they are somewhere.
Everything == answered \o Held \o channel

OpenQueue == ui = "open" => Everything = sent

IInv == Types /\ Busy /\ OpenQueue /\ InTurn

-----------------------------------------------------------------------------
(* Sequences *)

LEMMA AppendBehind ==
  ASSUME NEW S, NEW s \in Seq(S), NEW t \in Seq(S), NEW e \in S
  PROVE  s \o Append(t, e) = Append(s \o t, e)
<1>1. <<e>> \in Seq(S)
  OBVIOUS
<1>2. (s \o t) \o <<e>> = s \o (t \o <<e>>)
  BY <1>1, ConcatAssociative
<1>3. t \o <<e>> = Append(t, e) /\ (s \o t) \o <<e>> = Append(s \o t, e)
  <2>1. s \o t \in Seq(S)
    BY ConcatProperties
  <2> QED  BY <2>1
<1> QED  BY <1>2, <1>3

\* The head of t moves to the end of s.
LEMMA HeadMoves ==
  ASSUME NEW S, NEW s \in Seq(S), NEW t \in Seq(S), t # <<>>
  PROVE  (s \o <<Head(t)>>) \o Tail(t) = s \o t
<1>1. Head(t) \in S /\ Tail(t) \in Seq(S) /\ <<Head(t)>> \in Seq(S)
  BY HeadTailProperties
<1>2. <<Head(t)>> \o Tail(t) = t
  OBVIOUS
<1>3. (s \o <<Head(t)>>) \o Tail(t) = s \o (<<Head(t)>> \o Tail(t))
  BY <1>1, ConcatAssociative
<1> QED  BY <1>2, <1>3

LEMMA LastOfSum ==
  ASSUME NEW a \in Nat, NEW b \in Nat, NEW c \in Nat, c # 0,
         a + c = b + 1, a + 1 \notin 1 .. b
  PROVE  c = 1 /\ a = b
OBVIOUS

\* If Stop comes next, nothing is behind it.
LEMMA StopIsLast ==
  ASSUME DetailAssumption, NEW s \in Seq(Keys), NEW t \in Seq(Commands), NEW u \in Seq(Keys),
         t # <<>>, Head(t) = Stop, s \o t \in {u, Append(u, Stop)}
  PROVE  s = u /\ Tail(t) = <<>>
<1>1. /\ s \in Seq(Commands) /\ u \in Seq(Commands)
      /\ Len(s) \in Nat /\ Len(t) \in Nat \ {0} /\ Len(u) \in Nat
  BY SeqMonotonic, LenProperties, EmptySeq DEF Commands
<1>2. /\ Len(s \o t) = Len(s) + Len(t)
      /\ \A i \in 1 .. Len(s) + Len(t) : (s \o t)[i] = IF i <= Len(s) THEN s[i] ELSE t[i - Len(s)]
  BY <1>1, ConcatProperties
<1>3. (s \o t)[Len(s) + 1] = Stop
  <2>1. Len(s) + 1 \in 1 .. Len(s) + Len(t) /\ ~(Len(s) + 1 <= Len(s)) /\ (Len(s) + 1) - Len(s) = 1
    BY <1>1
  <2>2. (s \o t)[Len(s) + 1] = t[1]
    BY <2>1, <1>2
  <2> QED  BY <2>2
<1>4. \A i \in 1 .. Len(u) : u[i] # Stop
  BY ElementOfSeq DEF DetailAssumption
<1>5. s \o t # u
  <2> SUFFICES ASSUME s \o t = u
               PROVE  FALSE
    OBVIOUS
  <2>1. Len(s) + 1 \in 1 .. Len(u)
    BY <1>1, <1>2
  <2> QED  BY <2>1, <1>3, <1>4
<1>6. s \o t = Append(u, Stop)
  BY <1>5
<1>7. /\ Len(Append(u, Stop)) = Len(u) + 1
      /\ \A i \in 1 .. Len(u) : Append(u, Stop)[i] = u[i]
  BY <1>1
<1>8. Len(t) = 1 /\ Len(s) = Len(u)
  <2>1. Len(s) + Len(t) = Len(u) + 1
    BY <1>2, <1>6, <1>7
  <2>2. Len(s) + 1 \notin 1 .. Len(u)
    BY <1>3, <1>4, <1>6, <1>7
  <2>3. Len(s) \in Nat /\ Len(t) \in Nat /\ Len(u) \in Nat /\ Len(t) # 0
    BY <1>1
  <2> QED  BY <2>1, <2>2, <2>3, LastOfSum, Zenon
<1>9. \A i \in 1 .. Len(s) : s[i] = u[i]
  <2> SUFFICES ASSUME NEW i \in 1 .. Len(s)
               PROVE  s[i] = u[i]
    OBVIOUS
  <2>1. i \in 1 .. Len(s) + Len(t) /\ i <= Len(s) /\ i \in 1 .. Len(u)
    BY <1>1, <1>8
  <2> QED  BY <2>1, <1>2, <1>6, <1>7
<1>10. s = u
  BY <1>8, <1>9, SeqEqual
<1>11. Tail(t) = <<>>
  BY <1>8
<1> QED  BY <1>10, <1>11

-----------------------------------------------------------------------------
(* The invariant *)

LEMMA HeldType ==
  ASSUME Types
  PROVE  /\ Held \in Seq(Keys) /\ answered \o Held \in Seq(Keys)
         /\ answered \o Held \in Seq(Commands) /\ answered \in Seq(Commands)
<1>1. Held \in Seq(Keys)
  BY DEF Held, Types
<1>2. answered \o Held \in Seq(Keys)
  BY <1>1, ConcatProperties DEF Types
<1> QED  BY <1>1, <1>2, SeqMonotonic DEF Commands, Types

LEMMA InitHolds ==
  ASSUME Init
  PROVE  IInv
<1>1. /\ ui = "open" /\ selected = Nobody /\ worker = "none" /\ current = Nobody
      /\ channel = <<>> /\ sent = <<>> /\ answered = <<>>
  BY DEF Init
<1>2. Everything = <<>>
  BY <1>1 DEF Everything, Held
<1> QED  BY <1>1, <1>2 DEF IInv, Types, Busy, OpenQueue, InTurn, Everything

\* The steps that touch no request.
LEMMA Quiet ==
  ASSUME IInv, selected' \in Keys \cup {Nobody}, ui' = ui \/ ui' = "gone",
         channel' = channel, worker' = worker, current' = current,
         sent' = sent, answered' = answered
  PROVE  IInv'
<1>1. Everything' = Everything
  BY DEF Everything, Held
<1> QED  BY <1>1 DEF IInv, Types, Busy, OpenQueue, InTurn, Everything

LEMMA Accepting ==
  ASSUME IInv, Details
  PROVE  IInv'
<1>1. /\ ui = "open" /\ selected \in Keys /\ ui' = ui /\ selected' = selected
      /\ worker' = IF worker = "none" THEN "waiting" ELSE worker
      /\ channel' = Append(channel, selected) /\ sent' = Append(sent, selected)
      /\ current' = current /\ answered' = answered
  BY DEF Details, Sent, IInv, Types
<1>2. Types'
  BY <1>1 DEF IInv, Types, Commands
<1>3. Busy'
  BY <1>1 DEF IInv, Busy
<1>4. Everything' = Append(Everything, selected)
  <2>1. Everything' = (answered \o Held) \o Append(channel, selected)
    BY <1>1 DEF Everything, Held
  <2>2. /\ answered \o Held \in Seq(Commands) /\ channel \in Seq(Commands)
        /\ selected \in Commands
    BY <1>1, HeldType DEF IInv, Types, Commands
  <2>3. (answered \o Held) \o Append(channel, selected) = Append((answered \o Held) \o channel, selected)
    BY <2>2, AppendBehind
  <2> QED  BY <2>1, <2>3 DEF Everything
<1>5. Everything' = sent'
  BY <1>1, <1>4 DEF IInv, OpenQueue
<1> QED  BY <1>2, <1>3, <1>5 DEF IInv, OpenQueue, InTurn, Everything

LEMMA Closing ==
  ASSUME IInv, Close
  PROVE  IInv'
<1>1. /\ ui = "open" /\ ui' = "joining" /\ selected' = selected /\ worker' = worker
      /\ channel' = IF worker = "none" THEN channel ELSE Append(channel, Stop)
      /\ sent' = sent /\ current' = current /\ answered' = answered
  BY DEF Close
<1>2. Types' /\ Busy'
  BY <1>1 DEF IInv, Types, Busy, Commands
<1>3. Everything' \in {Everything, Append(Everything, Stop)}
  <2>1. CASE worker = "none"
    BY <2>1, <1>1 DEF Everything, Held
  <2>2. CASE worker # "none"
    <3>1. Everything' = (answered \o Held) \o Append(channel, Stop)
      BY <1>1, <2>2 DEF Everything, Held
    <3>2. answered \o Held \in Seq(Commands) /\ channel \in Seq(Commands) /\ Stop \in Commands
      BY HeldType DEF IInv, Types, Commands
    <3>3. (answered \o Held) \o Append(channel, Stop) = Append((answered \o Held) \o channel, Stop)
      BY <3>2, AppendBehind
    <3> QED  BY <3>1, <3>3 DEF Everything
  <2> QED  BY <2>1, <2>2
<1>4. Everything = sent
  BY <1>1 DEF IInv, OpenQueue
<1> QED  BY <1>1, <1>2, <1>3, <1>4 DEF IInv, OpenQueue, InTurn, Everything

LEMMA Receiving ==
  ASSUME IInv, Receive
  PROVE  IInv'
<1>1. /\ worker = "waiting" /\ channel # <<>> /\ channel' = Tail(channel) /\ ui' = ui
      /\ selected' = selected /\ sent' = sent /\ answered' = answered
  BY DEF Receive
<1>2. current = Nobody /\ Held = <<>> /\ answered \o Held = answered
  <2>1. current = Nobody
    BY <1>1 DEF IInv, Busy
  <2> QED  BY <2>1, ConcatEmptySeq DEF Held, IInv, Types
<1>3. Head(channel) \in Commands /\ channel' \in Seq(Commands)
  BY <1>1, HeadTailProperties DEF IInv, Types
<1>4. CASE Head(channel) = Stop
  <2>1. worker' = "ended" /\ current' = current
    BY <1>4 DEF Receive, Stops
  <2>2. answered \o channel \in {sent, Append(sent, Stop)}
    BY <1>2 DEF IInv, InTurn
  <2>3. answered = sent /\ Tail(channel) = <<>>
    BY <1>1, <1>4, <2>2, StopIsLast, DetailAssumption DEF IInv, Types
  <2>4. Everything' = sent
    <3>1. Everything' = answered \o <<>>
      BY <1>1, <1>2, <2>1, <2>3 DEF Everything, Held
    <3> QED  BY <3>1, <2>3, ConcatEmptySeq DEF IInv, Types
  <2>5. Types' /\ Busy'
    BY <1>1, <1>2, <1>3, <2>1 DEF IInv, Types, Busy
  <2> QED  BY <1>1, <2>4, <2>5 DEF IInv, OpenQueue, InTurn, Everything
<1>5. CASE Head(channel) # Stop
  <2>1. current' = Head(channel) /\ worker' \in {"answering", "working"} /\ Head(channel) \in Keys
    BY <1>3, <1>5 DEF Receive, Stops, Commands
  <2>2. Types' /\ Busy'
    BY <1>1, <1>3, <2>1, DetailAssumption DEF IInv, Types, Busy
  <2>3. Everything' = Everything
    <3>1. Everything' = (answered \o <<Head(channel)>>) \o Tail(channel)
      BY <1>1, <2>1, DetailAssumption DEF Everything, Held
    <3>2. answered \in Seq(Commands) /\ channel \in Seq(Commands)
      BY HeldType DEF IInv, Types
    <3>3. (answered \o <<Head(channel)>>) \o Tail(channel) = answered \o channel
      BY <1>1, <3>2, HeadMoves
    <3> QED  BY <3>1, <3>3, <1>2 DEF Everything
  <2> QED  BY <1>1, <2>2, <2>3 DEF IInv, OpenQueue, InTurn, Everything
<1> QED  BY <1>4, <1>5

LEMMA Delivering ==
  ASSUME IInv, Deliver
  PROVE  IInv'
<1>1. /\ worker = "answering" /\ worker' = "waiting" /\ current' = Nobody
      /\ answered' = Append(answered, current) /\ channel' = channel
      /\ ui' = ui /\ selected' = selected /\ sent' = sent
  BY DEF Deliver
<1>2. current \in Keys /\ current # Nobody
  BY <1>1 DEF IInv, Types, Busy
<1>3. Types' /\ Busy'
  BY <1>1, <1>2 DEF IInv, Types, Busy
<1>4. answered' \o Held' = answered \o Held
  <2>1. answered' \in Seq(Keys) /\ Held' = <<>>
    BY <1>1, <1>3 DEF Types, Held
  <2>2. answered' \o Held' = answered'
    BY <2>1, ConcatEmptySeq
  <2>3. answered \o Held = Append(answered, current)
    BY <1>2 DEF Held, IInv, Types
  <2> QED  BY <2>2, <2>3, <1>1
<1>5. Everything' = Everything
  BY <1>1, <1>4 DEF Everything
<1> QED  BY <1>1, <1>3, <1>5 DEF IInv, OpenQueue, InTurn, Everything

LEMMA StepKeeps ==
  ASSUME IInv, [Next]_vars
  PROVE  IInv'
<1>1. CASE UNCHANGED vars
  BY <1>1, Quiet DEF vars, IInv, Types
<1>2. ASSUME NEW k \in Keys \cup {Nobody}, Select(k)
      PROVE  IInv'
  BY <1>2, Quiet DEF Select
<1>3. CASE Details  BY <1>3, Accepting
<1>4. CASE DetailReady \/ DismissDetails \/ Join
  BY <1>4, Quiet DEF DetailReady, DismissDetails, Join, IInv, Types
<1>5. CASE Close  BY <1>5, Closing
<1>6. CASE Receive  BY <1>6, Receiving
<1>7. CASE Inspect
  <2>1. /\ worker = "working" /\ worker' = "answering" /\ ui' = ui /\ selected' = selected
        /\ channel' = channel /\ current' = current /\ sent' = sent /\ answered' = answered
    BY <1>7 DEF Inspect
  <2>2. Everything' = Everything
    BY <2>1 DEF Everything, Held
  <2> QED  BY <2>1, <2>2 DEF IInv, Types, Busy, OpenQueue, InTurn, Everything
<1>8. CASE Deliver  BY <1>8, Delivering
<1> QED  BY <1>1, <1>2, <1>3, <1>4, <1>5, <1>6, <1>7, <1>8 DEF Next, Worker

-----------------------------------------------------------------------------
(* The worker: the cache *)

\* Min of FiniteSetsExt is the smallest number of a set.
LEMMA Smallest ==
  ASSUME NEW S \in SUBSET Nat, S # {}
  PROVE  Min(S) \in S /\ \A n \in S : Min(S) <= n
<1> DEFINE less == OpToRel(<, Nat)
<1>1. IsWellFoundedOn(less, Nat)
  BY NatLessThanWellFounded
<1>2. \A m, n \in Nat : m < n => <<m, n>> \in less
  BY DEF OpToRel
<1> HIDE DEF less
<1>3. PICK m \in S : \A n \in S : ~ (<<n, m>> \in less)
  BY <1>1, WFMin
<1>4. \A n \in S : m <= n
  <2> SUFFICES ASSUME NEW n \in S  PROVE m <= n
    OBVIOUS
  <2>1. ~ (n < m)
    BY <1>2, <1>3, Zenon
  <2> QED  BY <2>1
<1> QED  BY <1>3, <1>4 DEF Min

Distinct(s) == \A i, j \in 1 .. Len(s) : s[i] = s[j] => i = j

Behind(s, i) == {s[j] : j \in i + 1 .. Len(s)}

\* How the order o of a cache with the keys E follows from the keys u that
\* were used: behind each are the keys that were used after it, and after each
\* key that left, all that are in the cache now, which is full.
RecentOf(o, E, u) ==
    /\ Distinct(o) /\ E = {o[i] : i \in 1 .. Len(o)}
    /\ Len(o) <= CacheLimit
    /\ \A i \in 1 .. Len(o) : o[i] \in Range(u) /\ UsedAfter(u, o[i]) = Behind(o, i)
    /\ \A k \in Range(u) \ E : Len(o) = CacheLimit /\ E \subseteq UsedAfter(u, k)

\* The keys of an order with no key twice are as many as it is long.
LEMMA KeysCounted ==
  ASSUME NEW T, NEW o \in Seq(T), Distinct(o), NEW E, E = {o[i] : i \in 1 .. Len(o)}
  PROVE  IsFiniteSet(E) /\ Cardinality(E) = Len(o)
<1>1. Len(o) \in Nat /\ DOMAIN o = 1 .. Len(o)
  OBVIOUS
<1>2. o \in Bijection(1 .. Len(o), E)
  BY <1>1 DEF Distinct, Bijection, Injection, Surjection, IsInjective
<1>3. IsFiniteSet(1 .. Len(o)) /\ Cardinality(1 .. Len(o)) = Len(o)
  BY <1>1, FS_Interval
<1>4. ExistsBijection(1 .. Len(o), E)
  BY <1>2 DEF ExistsBijection
<1> QED  BY <1>3, <1>4, FS_Bijection

\* Using k once more: nothing was used after it, and it after all others.
LEMMA UsedOnceMore ==
  ASSUME NEW T, NEW u \in Seq(T), NEW k \in T
  PROVE  /\ Append(u, k) \in Seq(T)
         /\ Range(Append(u, k)) = Range(u) \cup {k}
         /\ UsedAfter(Append(u, k), k) = {}
         /\ \A x : x # k => UsedAfter(Append(u, k), x) = UsedAfter(u, x) \cup {k}
<1> DEFINE v == Append(u, k)
           n == Len(u)
<1>1. /\ n \in Nat /\ v \in Seq(T) /\ Len(v) = n + 1 /\ v[n + 1] = k
      /\ \A i \in 1 .. n : v[i] = u[i]
      /\ DOMAIN u = 1 .. n /\ DOMAIN v = 1 .. n + 1
  BY AppendProperties
<1> HIDE DEF v, n
<1>2. Range(v) = Range(u) \cup {k}
  BY <1>1 DEF Range
<1>3. UsedAfter(v, k) = {}
  <2>1. \A m \in 1 .. n + 1 : n + 1 \in m .. n + 1
    BY <1>1
  <2> QED  BY <1>1, <2>1 DEF UsedAfter
<1>4. ASSUME NEW x, x # k
      PROVE  UsedAfter(v, x) = UsedAfter(u, x) \cup {k}
  <2>1. UsedAfter(v, x) \subseteq UsedAfter(u, x) \cup {k}
    <3> SUFFICES ASSUME NEW m \in 1 .. n + 1, \A h \in m .. n + 1 : v[h] # x
                 PROVE  v[m] \in UsedAfter(u, x) \cup {k}
      BY <1>1 DEF UsedAfter
    <3>1. CASE m = n + 1
      BY <1>1, <3>1
    <3>2. CASE m # n + 1
      <4>1. m \in 1 .. n /\ \A h \in m .. n : h \in m .. n + 1 /\ h \in 1 .. n
        BY <1>1, <3>2
      <4>2. \A h \in m .. n : u[h] # x
        BY <1>1, <4>1
      <4>3. u[m] \in UsedAfter(u, x)
        BY <4>1, <4>2 DEF UsedAfter, n
      <4> QED  BY <1>1, <4>1, <4>3
    <3> QED  BY <3>1, <3>2
  <2>2. k \in UsedAfter(v, x)
    <3>1. n + 1 \in 1 .. n + 1 /\ \A h \in n + 1 .. n + 1 : h = n + 1
      BY <1>1
    <3> QED  BY <1>1, <1>4, <3>1 DEF UsedAfter
  <2>3. UsedAfter(u, x) \subseteq UsedAfter(v, x)
    <3> SUFFICES ASSUME NEW m \in 1 .. n, \A h \in m .. n : u[h] # x
                 PROVE  u[m] \in UsedAfter(v, x)
      BY DEF UsedAfter, n
    <3>1. /\ m \in 1 .. n + 1
          /\ \A h \in m .. n + 1 : h = n + 1 \/ (h \in m .. n /\ h \in 1 .. n)
      BY <1>1
    <3>2. \A h \in m .. n + 1 : v[h] # x
      BY <1>1, <1>4, <3>1
    <3> QED  BY <1>1, <3>1, <3>2 DEF UsedAfter
  <2> QED  BY <2>1, <2>2, <2>3
<1> QED  BY <1>1, <1>2, <1>3, <1>4 DEF v

\* A key that is in no place is not removed.
LEMMA WithoutAbsent ==
  ASSUME NEW T, NEW s \in Seq(T), NEW k, \A i \in 1 .. Len(s) : s[i] # k
  PROVE  Without(s, k) = s
BY DEF Without, RemoveFirst

\* Removing the key at p moves those behind it one place ahead.
LEMMA WithoutOne ==
  ASSUME NEW T, NEW s \in Seq(T), Distinct(s), NEW p \in 1 .. Len(s)
  PROVE  /\ Without(s, s[p]) \in Seq(T)
         /\ Len(Without(s, s[p])) = Len(s) - 1
         /\ \A i \in 1 .. Len(s) - 1 : Without(s, s[p])[i] = IF i < p THEN s[i] ELSE s[i + 1]
<1> DEFINE n == Len(s)
           I == {i \in 1 .. Len(s) : s[i] = s[p]}
           a == SubSeq(s, 1, p - 1)
           b == SubSeq(s, p + 1, n)
<1>1. n \in Nat /\ p \in 1 .. n /\ \A i \in 1 .. n : s[i] \in T
  BY ElementOfSeq
<1>2. I = {p}
  BY DEF Distinct
<1>3. Min(I) = p
  <2>1. I \in SUBSET Nat /\ I # {}
    BY <1>1, <1>2
  <2>2. Min(I) \in I
    BY <2>1, Smallest
  <2> QED  BY <1>2, <2>2
<1>4. Without(s, s[p]) = a \o b
  <2>1. SelectInSeq(s, LAMBDA v : v = s[p]) = p
    BY <1>2, <1>3 DEF SelectInSeq
  <2> QED  BY <2>1 DEF Without, RemoveFirst, RemoveAt
<1>5. /\ a \in Seq(T) /\ Len(a) = p - 1
      /\ \A i \in 1 .. p - 1 : a[i] = s[i]
  <2>1. \A i \in 1 .. p - 1 : s[i] \in T
    BY <1>1
  <2>2. /\ a \in Seq(T) /\ Len(a) = IF 1 <= p - 1 THEN (p - 1) - 1 + 1 ELSE 0
        /\ \A i \in 1 .. (p - 1) - 1 + 1 : a[i] = s[1 + i - 1]
    BY <1>1, <2>1, SubSeqProperties
  <2> QED  BY <1>1, <2>2
<1>6. /\ b \in Seq(T) /\ Len(b) = n - p
      /\ \A i \in 1 .. n - p : b[i] = s[p + i]
  <2>1. \A i \in p + 1 .. n : s[i] \in T
    BY <1>1
  <2>2. /\ b \in Seq(T) /\ Len(b) = IF p + 1 <= n THEN n - (p + 1) + 1 ELSE 0
        /\ \A i \in 1 .. n - (p + 1) + 1 : b[i] = s[(p + 1) + i - 1]
    BY <1>1, <2>1, SubSeqProperties
  <2> QED  BY <1>1, <2>2
<1> HIDE DEF a, b
<1>7. /\ a \o b \in Seq(T) /\ Len(a \o b) = n - 1
      /\ \A i \in 1 .. n - 1 : (a \o b)[i] = IF i <= p - 1 THEN a[i] ELSE b[i - (p - 1)]
  <2>1. /\ a \o b \in Seq(T) /\ Len(a \o b) = Len(a) + Len(b)
        /\ \A i \in 1 .. Len(a) + Len(b) : (a \o b)[i] = IF i <= Len(a) THEN a[i] ELSE b[i - Len(a)]
    BY <1>5, <1>6, ConcatProperties
  <2> QED  BY <1>1, <1>5, <1>6, <2>1
<1>8. ASSUME NEW i \in 1 .. n - 1
      PROVE  (a \o b)[i] = IF i < p THEN s[i] ELSE s[i + 1]
  <2>1. CASE i < p
    BY <1>1, <1>5, <1>7, <2>1
  <2>2. CASE ~(i < p)
    <3>1. i - (p - 1) \in 1 .. n - p /\ p + (i - (p - 1)) = i + 1 /\ ~(i <= p - 1)
      BY <1>1, <2>2
    <3> QED  BY <1>6, <1>7, <2>2, <3>1
  <2> QED  BY <2>1, <2>2
<1> QED  BY <1>4, <1>7, <1>8

\* A hit moves the key to the recent end.
LEMMA Hit ==
  ASSUME NEW T, NEW o \in Seq(T), NEW E, NEW u \in Seq(T), RecentOf(o, E, u),
         NEW k \in E
  PROVE  /\ Got(o, k) \in Seq(T)
         /\ RecentOf(Got(o, k), E, Append(u, k))
<1> DEFINE n == Len(o)
           t == Without(o, k)
           q == Append(t, k)
           v == Append(u, k)
<1>1. PICK p \in 1 .. n : k = o[p]
  BY DEF RecentOf
<1>2. n \in Nat /\ \A i \in 1 .. n : o[i] \in T
  BY ElementOfSeq
<1>3. k \in T
  BY <1>1, <1>2
<1>4. /\ t \in Seq(T) /\ Len(t) = n - 1
      /\ \A i \in 1 .. n - 1 : t[i] = IF i < p THEN o[i] ELSE o[i + 1]
  BY <1>1, WithoutOne DEF RecentOf
<1> HIDE DEF t
<1>5. /\ q \in Seq(T) /\ Len(q) = n /\ q[n] = k
      /\ \A i \in 1 .. n - 1 : q[i] = IF i < p THEN o[i] ELSE o[i + 1]
  BY <1>2, <1>3, <1>4, AppendProperties
<1>6. /\ v \in Seq(T) /\ Range(v) = Range(u) \cup {k} /\ UsedAfter(v, k) = {}
      /\ \A x : x # k => UsedAfter(v, x) = UsedAfter(u, x) \cup {k}
  BY <1>3, UsedOnceMore
<1> HIDE DEF q, v
<1>7. /\ \A i, j \in 1 .. n : o[i] = o[j] => i = j
      /\ E = {o[i] : i \in 1 .. n}
  BY DEF RecentOf, Distinct
\* Where the n-th key was.
<1> DEFINE was(i) == IF i < p THEN i ELSE IF i < n THEN i + 1 ELSE p
<1>8. /\ \A i \in 1 .. n : was(i) \in 1 .. n /\ q[i] = o[was(i)]
      /\ \A i, j \in 1 .. n : was(i) = was(j) => i = j
      /\ \A h \in 1 .. n : \E i \in 1 .. n : was(i) = h
  <2>1. \A i \in 1 .. n : was(i) \in 1 .. n /\ q[i] = o[was(i)]
    <3> SUFFICES ASSUME NEW i \in 1 .. n  PROVE was(i) \in 1 .. n /\ q[i] = o[was(i)]
      OBVIOUS
    <3>1. CASE i = n
      BY <1>1, <1>2, <1>5, <3>1
    <3>2. CASE i # n
      <4>1. i \in 1 .. n - 1
        BY <1>2, <3>2
      <4> QED  BY <1>1, <1>2, <1>5, <4>1
    <3> QED  BY <3>1, <3>2
  <2>2. \A i, j \in 1 .. n : was(i) = was(j) => i = j
    BY <1>1, <1>2
  <2>3. ASSUME NEW h \in 1 .. n  PROVE \E i \in 1 .. n : was(i) = h
    <3>1. CASE h < p
      BY <3>1
    <3>2. CASE h = p
      <4>1. n \in 1 .. n /\ was(n) = p
        BY <1>1, <1>2
      <4> QED  BY <3>2, <4>1
    <3>3. CASE h > p
      <4>1. h - 1 \in 1 .. n /\ was(h - 1) = h
        BY <1>1, <1>2, <3>3
      <4> QED  BY <4>1
    <3> QED  BY <1>1, <1>2, <3>1, <3>2, <3>3
  <2> QED  BY <2>1, <2>2, <2>3
<1> HIDE DEF was
<1>9. Distinct(q)
  <2>1. \A i, j \in 1 .. n : q[i] = q[j] => i = j
    BY <1>7, <1>8, Zenon
  <2> QED  BY <1>5, <2>1 DEF Distinct
<1>10. E = {q[i] : i \in 1 .. n}
  <2>1. ASSUME NEW x \in E  PROVE \E i \in 1 .. n : x = q[i]
    <3>1. PICK h \in 1 .. n : x = o[h]
      BY <1>7
    <3>2. PICK i \in 1 .. n : was(i) = h
      BY <1>8
    <3> QED  BY <1>8, <3>1, <3>2, Zenon
  <2>2. ASSUME NEW i \in 1 .. n  PROVE q[i] \in E
    <3>1. was(i) \in 1 .. n /\ q[i] = o[was(i)]
      BY <1>8, Zenon
    <3> QED  BY <1>7, <3>1
  <2> QED  BY <2>1, <2>2
<1>11. ASSUME NEW i \in 1 .. n
       PROVE  q[i] \in Range(v) /\ UsedAfter(v, q[i]) = Behind(q, i)
  <2>1. CASE i = n
    <3>1. Behind(q, n) = {}
      BY <1>2, <1>5 DEF Behind
    <3> QED  BY <1>5, <1>6, <2>1, <3>1
  <2>2. CASE i # n
    <3>1. i \in 1 .. n - 1 /\ n \in 1 .. n
      BY <1>2, <2>2
    <3>2. was(i) \in 1 .. n /\ q[i] = o[was(i)]
      BY <1>8, Zenon
    <3>3. q[i] # k
      BY <1>5, <1>9, <2>2, <3>1 DEF Distinct
    <3>4. was(i) # p
      BY <1>1, <3>2, <3>3
    <3>5. o[was(i)] \in Range(u) /\ UsedAfter(u, o[was(i)]) = Behind(o, was(i))
      BY <3>2 DEF RecentOf
    <3>6. Behind(q, i) = Behind(o, was(i)) \cup {k}
      <4>1. \A j \in i + 1 .. n : j \in 1 .. n /\ (was(j) \in was(i) + 1 .. n \/ was(j) = p)
        BY <1>1, <1>2, <3>1 DEF was
      <4>2. Behind(q, i) \subseteq Behind(o, was(i)) \cup {k}
        <5> SUFFICES ASSUME NEW j \in i + 1 .. n
                     PROVE  q[j] \in Behind(o, was(i)) \cup {k}
          BY <1>5 DEF Behind
        <5>1. q[j] = o[was(j)]
          BY <4>1, <1>8
        <5> QED  BY <1>1, <4>1, <5>1 DEF Behind
      <4>3. k \in Behind(q, i)
        <5>1. n \in i + 1 .. n
          BY <1>2, <3>1
        <5> QED  BY <1>5, <5>1 DEF Behind
      <4>4. Behind(o, was(i)) \subseteq Behind(q, i)
        <5> SUFFICES ASSUME NEW h \in was(i) + 1 .. n
                     PROVE  o[h] \in Behind(q, i)
          BY DEF Behind
        <5>1. h \in 1 .. n
          BY <1>2, <3>2
        <5>2. PICK j \in 1 .. n : was(j) = h
          BY <1>8, <5>1
        <5>3. CASE j = n
          BY <1>1, <1>2, <5>2, <5>3, <4>3 DEF was
        <5>4. CASE j # n
          <6>1. j \in i + 1 .. n
            BY <1>1, <1>2, <3>1, <5>2, <5>4 DEF was
          <6>2. q[j] = o[h]
            BY <1>8, <5>2
          <6> QED  BY <1>5, <6>1, <6>2 DEF Behind
        <5> QED  BY <5>3, <5>4
      <4> QED  BY <4>2, <4>3, <4>4
    <3> QED  BY <1>6, <3>2, <3>3, <3>5, <3>6
  <2> QED  BY <2>1, <2>2
<1>12. \A x \in Range(v) \ E : n = CacheLimit /\ E \subseteq UsedAfter(v, x)
  <2> SUFFICES ASSUME NEW x \in Range(v) \ E
               PROVE  n = CacheLimit /\ E \subseteq UsedAfter(v, x)
    OBVIOUS
  <2>1. x # k /\ x \in Range(u) \ E
    BY <1>6
  <2>2. n = CacheLimit /\ E \subseteq UsedAfter(u, x)
    BY <2>1 DEF RecentOf
  <2> QED  BY <1>6, <2>1, <2>2
<1>13. RecentOf(q, E, v)
  BY <1>5, <1>9, <1>10, <1>11, <1>12 DEF RecentOf
<1> QED  BY <1>5, <1>13 DEF Got, q, v, t

\* An insertion into a cache that is not full.
LEMMA Added ==
  ASSUME NEW T, NEW o \in Seq(T), NEW E, NEW u \in Seq(T), RecentOf(o, E, u),
         NEW k \in T \ E, Len(o) # CacheLimit, CacheLimit \in Nat
  PROVE  RecentOf(Append(o, k), E \cup {k}, Append(u, k))
<1> DEFINE n == Len(o)
           q == Append(o, k)
           v == Append(u, k)
<1>1. n \in Nat /\ n < CacheLimit
  BY DEF RecentOf
<1>2. /\ q \in Seq(T) /\ Len(q) = n + 1 /\ q[n + 1] = k
      /\ \A i \in 1 .. n : q[i] = o[i]
  BY AppendProperties
<1>3. /\ v \in Seq(T) /\ Range(v) = Range(u) \cup {k} /\ UsedAfter(v, k) = {}
      /\ \A x : x # k => UsedAfter(v, x) = UsedAfter(u, x) \cup {k}
  BY UsedOnceMore
<1> HIDE DEF q, v
<1>4. /\ \A i, j \in 1 .. n : o[i] = o[j] => i = j
      /\ E = {o[i] : i \in 1 .. n}
  BY DEF RecentOf, Distinct
<1>5. \A i \in 1 .. n + 1 : i \in 1 .. n \/ i = n + 1
  BY <1>1
<1>6. \A i \in 1 .. n : o[i] # k
  BY <1>4
<1>7. Distinct(q)
  BY <1>2, <1>4, <1>5, <1>6 DEF Distinct
<1>8. E \cup {k} = {q[i] : i \in 1 .. n + 1}
  BY <1>1, <1>2, <1>4, <1>5
<1>9. ASSUME NEW i \in 1 .. n + 1
      PROVE  q[i] \in Range(v) /\ UsedAfter(v, q[i]) = Behind(q, i)
  <2>1. CASE i = n + 1
    <3>1. Behind(q, n + 1) = {}
      BY <1>1, <1>2 DEF Behind
    <3> QED  BY <1>2, <1>3, <2>1, <3>1
  <2>2. CASE i \in 1 .. n
    <3>1. o[i] \in Range(u) /\ UsedAfter(u, o[i]) = Behind(o, i) /\ q[i] = o[i] /\ o[i] # k
      BY <1>2, <1>6, <2>2 DEF RecentOf
    <3>2. Behind(q, i) = Behind(o, i) \cup {k}
      <4>1. \A j : j \in i + 1 .. n + 1 <=> j \in i + 1 .. n \/ j = n + 1
        BY <1>1, <2>2
      <4>2. \A j \in i + 1 .. n : j \in 1 .. n
        BY <2>2
      <4> QED  BY <1>2, <4>1, <4>2 DEF Behind
    <3> QED  BY <1>3, <3>1, <3>2
  <2> QED  BY <1>5, <2>1, <2>2
<1>10. \A x \in Range(v) : x \in E \cup {k}
  BY <1>1, <1>3 DEF RecentOf
<1>11. RecentOf(q, E \cup {k}, v)
  <2>1. Range(v) \ (E \cup {k}) = {} /\ Len(q) <= CacheLimit
    BY <1>1, <1>2, <1>10
  <2>2. \A x \in Range(v) \ (E \cup {k}) :
           Len(q) = CacheLimit /\ E \cup {k} \subseteq UsedAfter(v, x)
    BY <2>1
  <2> HIDE DEF n
  <2> QED  BY <1>2, <1>7, <1>8, <1>9, <2>1, <2>2 DEF RecentOf
<1> QED  BY <1>11 DEF q, v

\* An insertion into a full cache: the oldest key leaves.
LEMMA Evicted ==
  ASSUME NEW T, NEW o \in Seq(T), NEW E, NEW u \in Seq(T), RecentOf(o, E, u),
         NEW k \in T \ E, Len(o) = CacheLimit, CacheLimit \in Nat \ {0},
         NEW q \in Seq(T), Len(q) = Len(o), q[Len(o)] = k,
         \A i \in 1 .. Len(o) - 1 : q[i] = o[i + 1]
  PROVE  RecentOf(q, (E \cup {k}) \ {o[1]}, Append(u, k))
<1> DEFINE n == Len(o)
           v == Append(u, k)
           F == (E \cup {k}) \ {o[1]}
<1>1. n \in Nat \ {0} /\ Len(q) = n /\ n = CacheLimit
  OBVIOUS
<1>2. q[n] = k /\ \A i \in 1 .. n - 1 : q[i] = o[i + 1] /\ i + 1 \in 1 .. n
  BY <1>1
<1>3. /\ v \in Seq(T) /\ Range(v) = Range(u) \cup {k} /\ UsedAfter(v, k) = {}
      /\ \A x : x # k => UsedAfter(v, x) = UsedAfter(u, x) \cup {k}
  BY UsedOnceMore
<1> HIDE DEF v
<1>4. /\ \A i, j \in 1 .. n : o[i] = o[j] => i = j
      /\ E = {o[i] : i \in 1 .. n}
  BY DEF RecentOf, Distinct
<1>5. \A i \in 1 .. n : i \in 1 .. n - 1 \/ i = n
  BY <1>1
<1>6. \A i \in 1 .. n : o[i] # k
  BY <1>4
<1>7. Distinct(q)
  <2>1. ASSUME NEW i \in 1 .. n, NEW j \in 1 .. n, q[i] = q[j]
        PROVE  i = j
    <3>1. CASE i \in 1 .. n - 1 /\ j \in 1 .. n - 1
      <4>1. i + 1 = j + 1
        BY <1>2, <1>4, <2>1, <3>1
      <4> QED  BY <4>1
    <3>2. CASE i = n \/ j = n
      BY <1>2, <1>5, <1>6, <2>1, <3>2
    <3> QED  BY <1>5, <3>1, <3>2
  <2> QED  BY <1>1, <2>1 DEF Distinct
<1>8. F = {q[i] : i \in 1 .. n}
  <2>1. o[1] # k /\ \A i \in 1 .. n - 1 : o[i + 1] # o[1]
    <3>1. 1 \in 1 .. n /\ \A i \in 1 .. n - 1 : i + 1 # 1
      BY <1>1
    <3> QED  BY <1>2, <1>4, <1>6, <3>1
  <2>2. \A i \in 1 .. n : q[i] \in F
    BY <1>2, <1>4, <1>5, <2>1
  <2>3. \A x \in F : \E i \in 1 .. n : q[i] = x
    <3> SUFFICES ASSUME NEW x \in F  PROVE \E i \in 1 .. n : q[i] = x
      OBVIOUS
    <3>1. CASE x = k
      <4>1. n \in 1 .. n
        BY <1>1
      <4> QED  BY <1>2, <3>1, <4>1
    <3>2. CASE x # k
      <4>1. PICK i \in 1 .. n : x = o[i]
        BY <1>4, <3>2
      <4>2. i - 1 \in 1 .. n - 1 /\ (i - 1) + 1 = i /\ i - 1 \in 1 .. n
        BY <1>1, <4>1
      <4> QED  BY <1>2, <4>1, <4>2
    <3> QED  BY <3>1, <3>2
  <2> QED  BY <2>2, <2>3
<1>9. ASSUME NEW i \in 1 .. n
      PROVE  q[i] \in Range(v) /\ UsedAfter(v, q[i]) = Behind(q, i)
  <2>1. CASE i = n
    <3>1. Behind(q, n) = {}
      BY <1>1 DEF Behind
    <3> QED  BY <1>2, <1>3, <2>1, <3>1
  <2>2. CASE i \in 1 .. n - 1
    <3>1. /\ o[i + 1] \in Range(u) /\ UsedAfter(u, o[i + 1]) = Behind(o, i + 1)
          /\ q[i] = o[i + 1] /\ o[i + 1] # k
      BY <1>2, <1>6, <2>2 DEF RecentOf
    <3>2. Behind(q, i) = Behind(o, i + 1) \cup {k}
      <4>1. Behind(q, i) \subseteq Behind(o, i + 1) \cup {k}
        <5> SUFFICES ASSUME NEW j \in i + 1 .. n
                     PROVE  q[j] \in Behind(o, i + 1) \cup {k}
          BY <1>1 DEF Behind
        <5>1. CASE j = n
          BY <1>2, <5>1
        <5>2. CASE j # n
          <6>1. j \in 1 .. n - 1 /\ j + 1 \in (i + 1) + 1 .. n
            BY <1>1, <2>2, <5>2
          <6> QED  BY <1>2, <6>1 DEF Behind
        <5> QED  BY <5>1, <5>2
      <4>2. k \in Behind(q, i)
        <5>1. n \in i + 1 .. n
          BY <1>1, <2>2
        <5> QED  BY <1>1, <1>2, <5>1 DEF Behind
      <4>3. Behind(o, i + 1) \subseteq Behind(q, i)
        <5> SUFFICES ASSUME NEW h \in (i + 1) + 1 .. n
                     PROVE  o[h] \in Behind(q, i)
          BY DEF Behind
        <5>1. h - 1 \in 1 .. n - 1 /\ h - 1 \in i + 1 .. n /\ (h - 1) + 1 = h
          BY <1>1, <2>2
        <5>2. q[h - 1] = o[h]
          BY <1>2, <5>1
        <5> QED  BY <1>1, <5>1, <5>2 DEF Behind
      <4> QED  BY <4>1, <4>2, <4>3
    <3> QED  BY <1>3, <3>1, <3>2
  <2> QED  BY <1>5, <2>1, <2>2
<1>10. \A x \in Range(v) \ F : n = CacheLimit /\ F \subseteq UsedAfter(v, x)
  <2> SUFFICES ASSUME NEW x \in Range(v) \ F
               PROVE  F \subseteq UsedAfter(v, x)
    BY <1>1
  <2>1. 1 \in 1 .. n
    BY <1>1
  <2>2. x # k
    BY <1>6, <2>1
  <2>3. CASE x = o[1]
    <3>1. UsedAfter(v, x) = Behind(o, 1) \cup {k}
      BY <1>3, <2>1, <2>2, <2>3 DEF RecentOf
    <3>2. \A y \in E : y # o[1] => y \in Behind(o, 1)
      <4> SUFFICES ASSUME NEW i \in 1 .. n, o[i] # o[1]
                   PROVE  o[i] \in Behind(o, 1)
        BY <1>4
      <4>1. i \in 1 + 1 .. n
        BY <1>1
      <4> QED  BY <4>1 DEF Behind
    <3> QED  BY <3>1, <3>2
  <2>4. CASE x # o[1]
    <3>1. x \in Range(u) \ E
      BY <1>3, <2>2, <2>4
    <3> QED  BY <1>3, <2>2, <3>1 DEF RecentOf
  <2> QED  BY <2>3, <2>4
<1>11. RecentOf(q, F, v)
  BY <1>1, <1>7, <1>8, <1>9, <1>10 DEF RecentOf
<1> QED  BY <1>11 DEF v

\* BoundedCache::insert of a key that is not in the cache.
LEMMA Inserting ==
  ASSUME DetailAssumption, order \in Seq(Keys), NEW u \in Seq(Keys),
         RecentOf(order, entries, u), NEW k \in Keys \ entries, Inserted(k)
  PROVE  order' \in Seq(Keys) /\ RecentOf(order', entries', Append(u, k))
<1> DEFINE n       == Len(order)
           all     == Append(Without(order, k), k)
           more    == entries \cup {k}
           left(m) == (entries \cup {k}) \ {all[i] : i \in 1 .. m}
           S       == {m \in 0 .. Len(all) : Cardinality(left(m)) <= CacheLimit}
<1>1. /\ order' = SubSeq(all, Min(S) + 1, Len(all))
      /\ entries' = left(Min(S))
  BY Zenon DEF Inserted
<1>2. /\ n \in Nat /\ n <= CacheLimit /\ CacheLimit \in Nat \ {0}
      /\ entries = {order[i] : i \in 1 .. n} /\ Distinct(order)
  BY DEF RecentOf, DetailAssumption
<1>3. Without(order, k) = order
  BY <1>2, WithoutAbsent
<1>4. /\ all \in Seq(Keys) /\ Len(all) = n + 1 /\ all[n + 1] = k
      /\ \A i \in 1 .. n : all[i] = order[i]
  BY <1>3, AppendProperties
<1>5. all = Append(order, k)
  BY <1>3
<1>6. IsFiniteSet(entries) /\ Cardinality(entries) = n
  BY <1>2, KeysCounted
<1>7. IsFiniteSet(more) /\ Cardinality(more) = n + 1
  BY <1>6, FS_AddElement
<1> HIDE DEF all
<1>8. left(0) = more
  OBVIOUS
<1>9. left(1) = more \ {all[1]}
  <2>1. \A i \in 1 .. 1 : i = 1
    OBVIOUS
  <2> QED  BY <2>1
<1> HIDE DEF left
<1>10. S \in SUBSET Nat /\ \A m \in 0 .. Len(all) : m \in S <=> Cardinality(left(m)) <= CacheLimit
  OBVIOUS
<1>11. 0 \in 0 .. Len(all) /\ 1 \in 0 .. Len(all)
  BY <1>2, <1>4
<1> HIDE DEF S
<1>12. S # {} => Min(S) \in S /\ Min(S) \in Nat /\ \A m \in S : Min(S) <= m
  BY <1>10, Smallest
<1>13. CASE n # CacheLimit
  <2>1. 0 \in S
    <3>1. n + 1 <= CacheLimit
      BY <1>2, <1>13
    <3>2. Cardinality(left(0)) = n + 1
      BY <1>7, <1>8
    <3> QED  BY <1>10, <1>11, <3>1, <3>2
  <2>2. Min(S) = 0
    BY <2>1, <1>12
  <2>3. order' = all
    BY <1>1, <1>4, <2>2, SubSeqFull
  <2>4. entries' = entries \cup {k}
    BY <1>1, <1>8, <2>2
  <2> QED  BY <1>2, <1>4, <1>5, <1>13, <2>3, <2>4, Added
<1>14. CASE n = CacheLimit
  <2>1. n # 0 /\ 1 \in 1 .. n /\ all[1] = order[1]
    BY <1>2, <1>4, <1>14
  <2>2. left(1) = more \ {order[1]} /\ order[1] \in more
    BY <1>2, <1>9, <2>1
  <2> HIDE DEF more
  <2>3. Cardinality(left(1)) = n
    <3>1. \A x \in more : Cardinality(more \ {x}) = Cardinality(more) - 1
      BY <1>7, FS_RemoveElement
    <3> QED  BY <1>2, <1>7, <2>2, <3>1
  <2>4. 0 \notin S
    BY <1>2, <1>7, <1>8, <1>14, <1>10, <1>11
  <2>5. 1 \in S
    BY <1>2, <1>14, <1>10, <1>11, <2>3
  <2>6. Min(S) = 1
    <3>1. Min(S) \in S /\ Min(S) \in Nat /\ Min(S) <= 1
      BY <2>5, <1>12
    <3>2. Min(S) # 0
      BY <2>4, <3>1
    <3> QED  BY <3>1, <3>2
  <2>7. order' = SubSeq(all, 2, n + 1)
    BY <1>1, <1>4, <2>6
  <2>8. entries' = (entries \cup {k}) \ {order[1]}
    BY <1>1, <2>2, <2>6 DEF more
  <2>9. /\ order' \in Seq(Keys) /\ Len(order') = n /\ order'[n] = k
        /\ \A i \in 1 .. n - 1 : order'[i] = order[i + 1]
    <3>1. \A i \in 2 .. n + 1 : all[i] \in Keys
      BY <1>2, <1>4, ElementOfSeq
    <3>2. /\ order' \in Seq(Keys)
          /\ Len(order') = IF 2 <= n + 1 THEN (n + 1) - 2 + 1 ELSE 0
          /\ \A i \in 1 .. (n + 1) - 2 + 1 : order'[i] = all[2 + i - 1]
      BY <1>2, <2>7, <3>1, SubSeqProperties
    <3>3. /\ n \in 1 .. (n + 1) - 2 + 1 /\ 2 + n - 1 = n + 1
          /\ \A i \in 1 .. n - 1 : /\ i \in 1 .. (n + 1) - 2 + 1
                                  /\ 2 + i - 1 = i + 1 /\ i + 1 \in 1 .. n
      BY <1>2, <2>1
    <3>4. Len(order') = n
      BY <1>2, <2>1, <3>2
    <3>5. order'[n] = k
      <4>1. order'[n] = all[2 + n - 1]
        BY <3>2, <3>3
      <4> QED  BY <1>4, <3>3, <4>1
    <3>6. ASSUME NEW i \in 1 .. n - 1
          PROVE  order'[i] = order[i + 1]
      <4>1. order'[i] = all[2 + i - 1]
        BY <3>2, <3>3
      <4> QED  BY <1>4, <3>3, <4>1
    <3> QED  BY <3>2, <3>4, <3>5, <3>6
  <2> QED  BY <1>2, <1>14, <2>8, <2>9, Evicted
<1> QED  BY <1>13, <1>14

CacheInv ==
    /\ order \in Seq(Keys)
    /\ RecentOf(order, entries, Used)
    /\ worker = "working" => current \notin entries

LEMMA UsedType ==
  ASSUME IInv
  PROVE  /\ Used \in Seq(Keys)
         /\ worker # "answering" => Used = answered
         /\ worker = "answering" => Used = Append(answered, current) /\ current \in Keys
<1>1. answered \in Seq(Keys) /\ current \in Keys \cup {Nobody} /\ Busy
  BY DEF IInv, Types
<1>2. CASE worker # "answering"
  BY <1>1, <1>2, ConcatEmptySeq DEF Used
<1>3. CASE worker = "answering"
  <2>1. current \in Keys /\ Held = <<current>>
    BY <1>1, <1>3 DEF Busy, Held
  <2>2. Used = answered \o <<current>>
    BY <1>3, <2>1 DEF Used
  <2> QED  BY <1>1, <1>3, <2>1, <2>2, AppendIsConcat, AppendProperties
<1> QED  BY <1>2, <1>3

\* A request in work was used last.
LEMMA UsedNext ==
  ASSUME answered' \in Seq(Keys)
  PROVE  /\ worker' # "answering" => Used' = answered'
         /\ worker' = "answering" /\ current' \in Keys /\ current' # Nobody =>
               Used' = Append(answered', current')
<1>1. CASE worker' # "answering"
  BY <1>1, ConcatEmptySeq DEF Used
<1>2. CASE worker' = "answering" /\ current' \in Keys /\ current' # Nobody
  BY <1>2, AppendIsConcat DEF Used, Held
<1> QED  BY <1>1, <1>2

LEMMA CacheInit ==
  ASSUME Init
  PROVE  CacheInv
<1>1. /\ entries = {} /\ order = <<>> /\ worker = "none" /\ answered = <<>>
  BY DEF Init
<1>2. Used = <<>>
  BY <1>1 DEF Used
<1>3. Range(Used) = {}
  BY <1>2 DEF Range
<1>4. Len(order) = 0 /\ order \in Seq(Keys) /\ 1 .. 0 = {}
  BY <1>1
<1> QED  BY <1>1, <1>3, <1>4, DetailAssumption DEF CacheInv, RecentOf, Distinct, DetailAssumption

\* The steps that do not touch the cache.
LEMMA CacheQuiet ==
  ASSUME IInv, IInv', CacheInv, order' = order, entries' = entries, answered' = answered,
         (worker \notin {"working", "answering"} /\ worker' \notin {"working", "answering"})
         \/ (worker' = worker /\ current' = current)
  PROVE  CacheInv'
<1>1. Used' = Used
  BY DEF Used, Held
<1> QED  BY <1>1 DEF CacheInv

LEMMA CacheKept ==
  ASSUME IInv, IInv', CacheInv, [Next]_vars
  PROVE  CacheInv'
<1>0. /\ answered' \in Seq(Keys) /\ current' \in Keys \cup {Nobody}
      /\ worker' \in {"working", "answering"} <=> current' # Nobody
  BY DEF IInv, Types, Busy
<1>1. CASE UNCHANGED vars
  BY <1>1, CacheQuiet DEF vars
<1>2. ASSUME NEW k \in Keys \cup {Nobody}, Select(k)
      PROVE  CacheInv'
  BY <1>2, CacheQuiet DEF Select
<1>3. CASE Details
  BY <1>3, CacheQuiet DEF Details
<1>4. CASE DetailReady \/ DismissDetails \/ Join \/ Close
  BY <1>4, CacheQuiet DEF DetailReady, DismissDetails, Join, Close
<1>5. CASE Receive
  <2>1. /\ worker = "waiting" /\ channel # <<>> /\ entries' = entries /\ answered' = answered
        /\ Used = answered /\ Used \in Seq(Keys)
    BY <1>5, UsedType DEF Receive
  <2>2. CASE Head(channel) = Stop
    BY <1>5, <2>1, <2>2, CacheQuiet DEF Receive, Stops
  <2>3. CASE Head(channel) # Stop /\ Head(channel) \in entries
    <3>1. /\ worker' = "answering" /\ current' = Head(channel)
          /\ order' = Got(order, Head(channel))
      BY <1>5, <2>3 DEF Receive, Stops
    <3>2. Used' = Append(answered, Head(channel))
      BY <2>1, <3>1, <1>0, UsedNext
    <3>3. order \in Seq(Keys) /\ RecentOf(order, entries, answered)
      BY <2>1 DEF CacheInv
    <3>4. order' \in Seq(Keys) /\ RecentOf(order', entries, Append(answered, Head(channel)))
      BY <2>1, <2>3, <3>1, <3>3, Hit
    <3> QED  BY <2>1, <3>1, <3>2, <3>4 DEF CacheInv
  <2>4. CASE Head(channel) # Stop /\ Head(channel) \notin entries
    <3>1. worker' = "working" /\ current' = Head(channel) /\ order' = order
      BY <1>5, <2>4 DEF Receive, Stops
    <3>2. Used' = Used
      BY <2>1, <3>1, <1>0, UsedNext
    <3> QED  BY <2>1, <2>4, <3>1, <3>2 DEF CacheInv
  <2> QED  BY <2>2, <2>3, <2>4
<1>6. CASE Inspect
  <2>1. /\ worker = "working" /\ worker' = "answering" /\ Inserted(current)
        /\ current' = current /\ answered' = answered
    BY <1>6 DEF Inspect
  <2>2. current \in Keys \ entries
    BY <2>1 DEF IInv, Types, Busy, CacheInv
  <2>3. Used = answered /\ Used \in Seq(Keys) /\ Used' = Append(answered, current)
    BY <2>1, <1>0, UsedType, UsedNext
  <2>4. order' \in Seq(Keys) /\ RecentOf(order', entries', Append(Used, current))
    BY <2>1, <2>2, <2>3, Inserting, DetailAssumption DEF CacheInv
  <2> QED  BY <2>1, <2>3, <2>4 DEF CacheInv
<1>7. CASE Deliver
  <2>1. /\ worker = "answering" /\ worker' = "waiting" /\ answered' = Append(answered, current)
        /\ order' = order /\ entries' = entries
    BY <1>7 DEF Deliver
  <2>2. Used' = Used
    BY <2>1, <1>0, UsedType, UsedNext
  <2> QED  BY <2>1, <2>2 DEF CacheInv
<1> QED  BY <1>1, <1>2, <1>3, <1>4, <1>5, <1>6, <1>7 DEF Next, Worker

\* The order of the cache tells which keys were used last.
LEMMA CacheTells ==
  ASSUME IInv, CacheInv
  PROVE  CacheIsRecent
<1> DEFINE n == Len(order)
<1>1. /\ order \in Seq(Keys) /\ Distinct(order) /\ entries = {order[i] : i \in 1 .. n}
      /\ n <= CacheLimit /\ n \in Nat /\ CacheLimit \in Nat \ {0}
      /\ \A i \in 1 .. n : order[i] \in Range(Used) /\ UsedAfter(Used, order[i]) = Behind(order, i)
      /\ \A k \in Range(Used) \ entries : n = CacheLimit /\ entries \subseteq UsedAfter(Used, k)
  BY DetailAssumption DEF CacheInv, RecentOf, DetailAssumption
<1>2. IsFiniteSet(entries) /\ Cardinality(entries) = n
  BY <1>1, KeysCounted
<1>3. entries = Range(order)
  BY <1>1, RangeEquality
<1>4. ASSUME NEW k \in entries
      PROVE  k \in Range(Used) /\ Cardinality(UsedAfter(Used, k)) < CacheLimit
  <2>1. PICK i \in 1 .. n : k = order[i]
    BY <1>1
  <2>2. Behind(order, i) \in SUBSET (entries \ {k})
    <3> SUFFICES ASSUME NEW j \in i + 1 .. n
                 PROVE  order[j] \in entries \ {k}
      BY DEF Behind
    <3>1. j \in 1 .. n /\ j # i
      BY <1>1
    <3> QED  BY <1>1, <2>1, <3>1 DEF Distinct
  <2>3. IsFiniteSet(entries \ {k}) /\ Cardinality(entries \ {k}) = n - 1
    BY <1>2, FS_RemoveElement
  <2>4. Cardinality(Behind(order, i)) <= n - 1 /\ Cardinality(Behind(order, i)) \in Nat
    BY <2>2, <2>3, FS_Subset, FS_CardinalityType
  <2> QED  BY <1>1, <2>1, <2>4
<1>5. ASSUME NEW k \in Range(Used) \ entries
      PROVE  ~ (Cardinality(UsedAfter(Used, k)) < CacheLimit)
  <2>1. n = CacheLimit /\ entries \in SUBSET UsedAfter(Used, k)
    BY <1>1
  <2>2. IsFiniteSet(UsedAfter(Used, k))
    <3>1. Used \in Seq(Keys)
      BY UsedType
    <3>2. Len(Used) \in Nat /\ DOMAIN Used = 1 .. Len(Used)
      BY <3>1
    <3>3. IsFiniteSet(DOMAIN Used)
      BY <3>2, FS_Interval
    <3>4. Used \in Surjection(DOMAIN Used, Range(Used))
      BY <3>1 DEF Surjection, Range
    <3>5. IsFiniteSet(Range(Used))
      BY <3>3, <3>4, FS_Surjection
    <3>6. UsedAfter(Used, k) \in SUBSET Range(Used)
      BY <3>2 DEF UsedAfter, Range
    <3> QED  BY <3>5, <3>6, FS_Subset
  <2>3. Cardinality(entries) <= Cardinality(UsedAfter(Used, k))
    BY <2>1, <2>2, FS_Subset
  <2>4. Cardinality(UsedAfter(Used, k)) \in Nat
    BY <2>2, FS_CardinalityType
  <2> QED  BY <1>1, <1>2, <2>1, <2>3, <2>4
<1>6. entries = {k \in Range(Used) : Cardinality(UsedAfter(Used, k)) < CacheLimit}
  BY <1>4, <1>5
<1> QED  BY <1>2, <1>3, <1>6 DEF CacheIsRecent

\* A box is up, or waits to be, for a request that was answered.
Boxes ==
    /\ posted \in Seq(Keys) /\ dialogs \in Nat
    /\ dialogs + Len(posted) <= Len(answered)
    /\ Len(sent) <= MaxRequests
    /\ disabled \in BOOLEAN /\ (disabled => dialogs > 0)

LEMMA BoxesInit ==
  ASSUME Init
  PROVE  Boxes
<1>1. /\ dialogs = 0 /\ disabled = FALSE /\ posted = <<>> /\ answered = <<>> /\ sent = <<>>
      /\ MaxRequests \in Nat
  BY DetailAssumption DEF Init, DetailAssumption
<1>2. posted \in Seq(Keys) /\ dialogs + Len(posted) <= Len(answered) /\ Len(sent) <= MaxRequests
  BY <1>1
<1>3. disabled \in BOOLEAN /\ ~disabled
  BY <1>1
<1> QED  BY <1>1, <1>2, <1>3 DEF Boxes

LEMMA BoxesKept ==
  ASSUME IInv, Boxes, [Next]_vars
  PROVE  Boxes'
<1>1. /\ posted \in Seq(Keys) /\ dialogs \in Nat /\ Len(posted) \in Nat
      /\ answered \in Seq(Keys) /\ Len(answered) \in Nat
      /\ sent \in Seq(Keys) /\ Len(sent) \in Nat /\ MaxRequests \in Nat
      /\ dialogs + Len(posted) <= Len(answered) /\ Len(sent) <= MaxRequests
  BY DetailAssumption, LenProperties DEF IInv, Types, Boxes, DetailAssumption
<1>2. CASE UNCHANGED <<dialogs, disabled, posted, answered, sent>>
  BY <1>2 DEF Boxes
<1>3. CASE Details
  <2>1. Len(sent') = Len(sent) + 1 /\ Len(sent) < MaxRequests
        /\ dialogs' = dialogs /\ posted' = posted /\ answered' = answered
        /\ disabled' = disabled
    BY <1>1, <1>3, AppendProperties DEF Details, IInv, Types
  <2> QED  BY <1>1, <2>1 DEF Boxes
<1>4. CASE DetailReady
  <2>1. /\ posted' \in Seq(Keys) /\ Len(posted') = Len(posted) - 1
        /\ answered' = answered /\ sent' = sent
        /\ \/ dialogs' = dialogs + 1 /\ disabled' = TRUE
           \/ dialogs' = dialogs /\ disabled' = disabled
    BY <1>1, <1>4, HeadTailProperties DEF DetailReady
  <2>2. Len(posted') \in Nat /\ dialogs' \in {dialogs, dialogs + 1}
    BY <2>1, LenProperties
  <2>3. dialogs' \in Nat /\ dialogs' + Len(posted') <= Len(answered')
    BY <1>1, <2>1, <2>2
  <2>4. disabled' \in BOOLEAN /\ (disabled' => dialogs' > 0)
    <3>1. CASE dialogs' = dialogs + 1 /\ disabled' = TRUE
      BY <1>1, <3>1
    <3>2. CASE dialogs' = dialogs /\ disabled' = disabled
      BY <3>2 DEF Boxes
    <3> QED  BY <2>1, <3>1, <3>2
  <2> QED  BY <1>1, <2>1, <2>3, <2>4 DEF Boxes
<1>5. CASE DismissDetails
  <2>1. /\ dialogs > 0 /\ dialogs' = dialogs - 1 /\ disabled' \in {FALSE, disabled /\ dialogs > 1}
        /\ posted' = posted /\ answered' = answered /\ sent' = sent
    BY <1>5 DEF DismissDetails
  <2>2. disabled' \in BOOLEAN /\ (disabled' => dialogs > 1)
    BY <2>1
  <2>3. dialogs' \in Nat /\ dialogs' + Len(posted') <= Len(answered')
    BY <1>1, <2>1
  <2>4. disabled' => dialogs' > 0
    BY <1>1, <2>1, <2>2
  <2> QED  BY <1>1, <2>1, <2>2, <2>3, <2>4 DEF Boxes
<1>6. CASE Close
  <2>1. /\ dialogs' = 0 /\ disabled' = FALSE
        /\ posted' = posted /\ answered' = answered /\ sent' = sent
    BY <1>6 DEF Close
  <2>2. dialogs' \in Nat /\ dialogs' + Len(posted') <= Len(answered')
    BY <1>1, <2>1
  <2>3. disabled' \in BOOLEAN /\ ~disabled'
    BY <2>1
  <2> QED  BY <1>1, <2>1, <2>2, <2>3 DEF Boxes
<1>7. CASE Deliver
  <2>1. current \in Keys
    BY <1>7 DEF Deliver, IInv, Types, Busy
  <2>2. /\ answered' = Append(answered, current) /\ posted' \in {posted, Append(posted, current)}
        /\ dialogs' = dialogs /\ disabled' = disabled /\ sent' = sent
    BY <1>7 DEF Deliver
  <2>3. /\ Len(Append(answered, current)) = Len(answered) + 1
        /\ Len(Append(posted, current)) = Len(posted) + 1
        /\ Append(posted, current) \in Seq(Keys)
    BY <1>1, <2>1, AppendProperties
  <2>4. posted' \in Seq(Keys) /\ Len(posted') <= Len(posted) + 1
    <3>1. CASE posted' = posted
      BY <1>1, <3>1
    <3>2. CASE posted' = Append(posted, current)
      BY <1>1, <2>3, <3>2
    <3> QED  BY <2>2, <3>1, <3>2
  <2>5. Len(posted') \in Nat
    BY <2>4, LenProperties
  <2>6. dialogs' + Len(posted') <= Len(answered')
    <3>1. dialogs' = dialogs /\ Len(answered') = Len(answered) + 1
      BY <2>2, <2>3
    <3> QED  BY <1>1, <2>4, <2>5, <3>1
  <2> QED  BY <1>1, <2>2, <2>4, <2>6 DEF Boxes
<1>8. CASE Receive \/ Inspect \/ Join \/ \E k \in Keys \cup {Nobody} : Select(k)
  BY <1>2, <1>8 DEF Receive, Inspect, Join, Select
<1> QED  BY <1>2, <1>3, <1>4, <1>5, <1>6, <1>7, <1>8 DEF Next, Worker, vars

\* No more is answered than was sent.
LEMMA AnsweredBounded ==
  ASSUME IInv
  PROVE  Len(answered) <= Len(sent)
<1>1. /\ answered \in Seq(Keys) /\ sent \in Seq(Keys)
      /\ answered \in Seq(Commands) /\ sent \in Seq(Commands)
      /\ Len(answered) \in Nat /\ Len(sent) \in Nat /\ Stop \notin Keys
  BY DetailAssumption, HeldType, SeqMonotonic, LenProperties
     DEF IInv, Types, DetailAssumption, Commands
<1>2. Held \o channel \in Seq(Commands) /\ answered \o (Held \o channel) = Everything
  <2>1. Held \in Seq(Commands) /\ channel \in Seq(Commands)
    BY HeldType, SeqMonotonic DEF IInv, Types, Commands
  <2>2. Held \o channel \in Seq(Commands)
    BY <2>1, ConcatProperties, Zenon
  <2>3. answered \in Seq(Commands)
    BY <1>1
  <2>4. (answered \o Held) \o channel = answered \o (Held \o channel)
    BY <2>1, <2>3, ConcatAssociative
  <2> QED  BY <2>2, <2>4 DEF Everything
<1> DEFINE rest == Held \o channel
<1> HIDE DEF rest
<1>3. /\ Len(rest) \in Nat /\ Len(answered \o rest) = Len(answered) + Len(rest)
      /\ \A i \in 1 .. Len(answered) : (answered \o rest)[i] = answered[i]
  <2>1. rest \in Seq(Commands)
    BY <1>2 DEF rest
  <2>2. /\ Len(answered \o rest) = Len(answered) + Len(rest)
        /\ \A i \in 1 .. Len(answered) + Len(rest) : (answered \o rest)[i] =
                     IF i <= Len(answered) THEN answered[i] ELSE rest[i - Len(answered)]
    BY <1>1, <2>1, ConcatProperties
  <2> QED  BY <1>1, <2>1, <2>2
<1>4. answered \o rest \in {sent, Append(sent, Stop)}
  BY <1>2 DEF IInv, InTurn, Everything, rest
<1>5. CASE answered \o rest = sent
  BY <1>1, <1>3, <1>5
<1>6. CASE answered \o rest = Append(sent, Stop)
  <2>1. Len(answered) + Len(rest) = Len(sent) + 1 /\ Append(sent, Stop)[Len(sent) + 1] = Stop
    BY <1>1, <1>3, <1>6
  <2>2. Len(sent) + 1 \notin 1 .. Len(answered)
    <3>1. \A i \in 1 .. Len(answered) : answered[i] # Stop
      BY <1>1, ElementOfSeq
    <3> QED  BY <1>3, <1>6, <2>1, <3>1
  <2> QED  BY <1>1, <1>3, <2>1, <2>2
<1> QED  BY <1>4, <1>5, <1>6

-----------------------------------------------------------------------------
(* Theorems *)

\* InTurn: requests are answered in the order they were accepted in, each once,
\* also those that wait when the window goes.
THEOREM AnsweredInTurn == Spec => []InTurn
<1>1. Init => IInv
  BY InitHolds
<1>2. IInv /\ [Next]_vars => IInv'
  BY StepKeeps
<1>3. IInv => InTurn
  BY DEF IInv
<1> QED  BY <1>1, <1>2, <1>3, PTL DEF Spec

\* CacheIsRecent: the cache holds the results that were used last, as many as
\* it has room for (insert, get).
THEOREM RecentKept == Spec => []CacheIsRecent
<1>1. Init => IInv /\ CacheInv
  BY InitHolds, CacheInit
<1>2. IInv /\ CacheInv /\ [Next]_vars => (IInv /\ CacheInv)'
  BY StepKeeps, CacheKept
<1>3. IInv /\ CacheInv => CacheIsRecent
  BY CacheTells
<1> QED  BY <1>1, <1>2, <1>3, PTL DEF Spec

\* TypeOK: every variable keeps its type; there are never more boxes than
\* requests.
THEOREM TypeCorrect == Spec => []TypeOK
<1>1. Init => IInv /\ CacheInv /\ Boxes
  BY InitHolds, CacheInit, BoxesInit
<1>2. IInv /\ CacheInv /\ Boxes /\ [Next]_vars => (IInv /\ CacheInv /\ Boxes)'
  BY StepKeeps, CacheKept, BoxesKept
<1>3. IInv /\ CacheInv /\ Boxes => TypeOK
  <2> SUFFICES ASSUME IInv, CacheInv, Boxes  PROVE TypeOK
    OBVIOUS
  <2>1. /\ order \in Seq(Keys) /\ entries = {order[i] : i \in 1 .. Len(order)}
    BY DEF CacheInv, RecentOf
  <2>2. entries \in SUBSET Keys
    BY <2>1
  <2>3. dialogs \in 0 .. MaxRequests
    <3>1. Len(answered) <= Len(sent)
      BY AnsweredBounded
    <3>2. /\ dialogs \in Nat /\ dialogs + Len(posted) <= Len(answered) /\ Len(sent) <= MaxRequests
          /\ Len(posted) \in Nat /\ Len(answered) \in Nat /\ Len(sent) \in Nat
          /\ MaxRequests \in Nat
      BY DetailAssumption, LenProperties DEF IInv, Types, Boxes, DetailAssumption
    <3> QED  BY <3>1, <3>2
  <2> QED  BY <2>1, <2>2, <2>3 DEF TypeOK, IInv, Types, Boxes, Commands
<1> QED  BY <1>1, <1>2, <1>3, PTL DEF Spec

-----------------------------------------------------------------------------
(* The verification *)

Sides == {"catalog", "embedded"}

VerificationTypes ==
    /\ path \in BOOLEAN
    /\ disk \in Files \cup {Missing} /\ held \in Files \cup {Missing}
    /\ hashed \in Files \cup {Missing}
    /\ pc \in Steps /\ via \in Sides
    /\ handle \in BOOLEAN /\ admin \in BOOLEAN /\ catalog \in BOOLEAN /\ state \in BOOLEAN
    /\ signer \in BOOLEAN
    /\ status \in Statuses /\ verdict \in States \cup {NotYet}
    /\ refused \subseteq Steps /\ seen \subseteq Files \cup {Missing}

\* What is open before each step.
Contexts ==
    /\ pc \in {"start", "done"} => ~handle /\ ~admin /\ ~catalog /\ ~state
    /\ pc \notin {"start", "done"} => handle
    /\ pc \in {"signer", "close"} <=> state
    /\ pc = "acquire" => ~admin
    /\ pc \in {"hash", "lookup"} => admin /\ ~catalog
    /\ pc = "describe" => admin /\ catalog
    /\ pc \in {"start", "acquire", "hash", "lookup", "describe"} => via = "catalog"
    /\ catalog => admin
    /\ admin => via = "catalog"

-----------------------------------------------------------------------------
(* VerificationTypes and contexts *)

LEMMA ContextsInit ==
  ASSUME VerificationInit
  PROVE  VerificationTypes /\ Contexts
BY SignatureAssumption DEF VerificationInit, VerificationTypes, Contexts, Steps, Sides, Statuses

LEMMA VerificationTypesKept ==
  ASSUME VerificationTypes, [VerificationNext]_verification
  PROVE  VerificationTypes'
<1>1. CASE UNCHANGED verification
  BY <1>1 DEF verification, resources, answers, VerificationTypes
<1>2. CASE CannotOpen
  BY <1>2 DEF CannotOpen, resources, VerificationTypes, Steps, States
<1>3. CASE Open
  BY <1>3 DEF Open, answers, VerificationTypes, Steps
<1>4. CASE Acquire
  BY <1>4 DEF Acquire, Embedded, VerificationTypes, Steps, Sides
<1>5. CASE Hash
  <2>1. /\ path' = path /\ disk' = disk /\ held' = held /\ catalog' = catalog
        /\ handle' = handle /\ state' = state /\ signer' = signer
        /\ status' = status /\ verdict' = verdict /\ seen' = seen
    BY <1>5 DEF Hash
  <2>2. /\ pc' \in Steps /\ via' \in Sides /\ hashed' \in Files \cup {Missing}
        /\ admin' \in BOOLEAN /\ refused' \subseteq Steps
    BY <1>5 DEF Hash, Embedded, VerificationTypes, Steps, Sides
  <2> QED  BY <2>1, <2>2 DEF VerificationTypes
<1>6. CASE Lookup
  <2>1. /\ path' = path /\ disk' = disk /\ held' = held /\ hashed' = hashed
        /\ handle' = handle /\ state' = state /\ signer' = signer
        /\ status' = status /\ verdict' = verdict /\ seen' = seen
    BY <1>6 DEF Lookup
  <2>2. /\ pc' \in Steps /\ via' \in Sides /\ catalog' \in BOOLEAN
        /\ admin' \in BOOLEAN /\ refused' \subseteq Steps
    BY <1>6 DEF Lookup, Embedded, VerificationTypes, Steps, Sides
  <2> QED  BY <2>1, <2>2 DEF VerificationTypes
<1>7. CASE Describe
  <2>1. /\ path' = path /\ disk' = disk /\ held' = held /\ hashed' = hashed
        /\ handle' = handle /\ state' = state /\ signer' = signer
        /\ status' = status /\ verdict' = verdict /\ seen' = seen
    BY <1>7 DEF Describe
  <2>2. /\ pc' \in Steps /\ via' \in Sides
        /\ admin' \in BOOLEAN /\ catalog' \in BOOLEAN /\ refused' \subseteq Steps
    BY <1>7 DEF Describe, Embedded, VerificationTypes, Steps, Sides
  <2> QED  BY <2>1, <2>2 DEF VerificationTypes
<1>8. CASE Verify
  <2>1. Answers(Subject) \subseteq Statuses
    BY DEF Answers, Told, Statuses, Subject, VerificationTypes, Files, Kinds
  <2> QED  BY <1>8, <2>1 DEF Verify, VerificationTypes, Steps
<1>9. CASE Signer
  BY <1>9 DEF Signer, resources, VerificationTypes, Steps
<1>10. CASE CloseState
  BY <1>10 DEF CloseState, Classify, VerificationTypes, Steps, Statuses, States
<1>11. CASE Release
  BY <1>11 DEF Release, answers, VerificationTypes, Steps
<1>12. ASSUME NEW f \in Files \cup {Missing}, Replace(f) \/ Rewrite(f)
       PROVE  VerificationTypes'
  BY <1>12 DEF Replace, Rewrite, resources, answers, VerificationTypes
<1> QED
  BY <1>1, <1>2, <1>3, <1>4, <1>5, <1>6, <1>7, <1>8, <1>9, <1>10, <1>11, <1>12
     DEF VerificationNext, Program

LEMMA ContextsKept ==
  ASSUME VerificationTypes, Contexts, [VerificationNext]_verification
  PROVE  Contexts'
<1>1. CASE UNCHANGED verification
  BY <1>1 DEF verification, resources, answers, Contexts
<1>2. CASE CannotOpen
  BY <1>2 DEF CannotOpen, resources, Contexts
<1>3. CASE Open
  BY <1>3 DEF Open, answers, Contexts
<1>4. CASE Acquire
  BY <1>4 DEF Acquire, Embedded, Contexts
<1>5. CASE Hash
  <2>1. /\ handle' = handle /\ catalog' = catalog /\ state' = state /\ pc = "hash"
        /\ \/ pc' = "lookup" /\ admin' = admin /\ via' = via
           \/ pc' = "verify" /\ ~admin' /\ via' = "embedded"
    BY <1>5 DEF Hash, Embedded
  <2> QED  BY <2>1 DEF Contexts
<1>6. CASE Lookup
  <2>1. /\ handle' = handle /\ state' = state /\ pc = "lookup"
        /\ \/ pc' = "describe" /\ admin' = admin /\ via' = via /\ catalog'
           \/ pc' = "verify" /\ ~admin' /\ via' = "embedded" /\ catalog' = catalog
    BY <1>6 DEF Lookup, Embedded
  <2>2. CASE pc' = "describe" /\ admin' = admin /\ via' = via /\ catalog'
    BY <2>1, <2>2 DEF Contexts
  <2>3. CASE pc' = "verify" /\ ~admin' /\ via' = "embedded" /\ catalog' = catalog
    BY <2>1, <2>3 DEF Contexts
  <2> QED  BY <2>1, <2>2, <2>3
<1>7. CASE Describe
  BY <1>7 DEF Describe, Embedded, Contexts
<1>8. CASE Verify
  <2>1. /\ handle' = handle /\ admin' = admin /\ catalog' = catalog /\ via' = via
        /\ state' /\ pc = "verify" /\ pc' \in {"signer", "close"}
    BY <1>8 DEF Verify
  <2> QED  BY <2>1 DEF Contexts
<1>9. CASE Signer
  BY <1>9 DEF Signer, resources, Contexts
<1>10. CASE CloseState
  BY <1>10 DEF CloseState, Contexts
<1>11. CASE Release
  BY <1>11 DEF Release, answers, Contexts
<1>12. ASSUME NEW f \in Files \cup {Missing}, Replace(f) \/ Rewrite(f)
       PROVE  Contexts'
  BY <1>12 DEF Replace, Rewrite, resources, answers, Contexts
<1> QED
  BY <1>1, <1>2, <1>3, <1>4, <1>5, <1>6, <1>7, <1>8, <1>9, <1>10, <1>11, <1>12
     DEF VerificationNext, Program

LEMMA ContextsBalanced ==
  ASSUME VerificationTypes, Contexts
  PROVE  Balanced
BY DEF VerificationTypes, Contexts, Balanced

-----------------------------------------------------------------------------
(* Where an answer comes from *)

Verified == {"verify", "signer", "close", "release"}

\* The contents that the program works on were at the path.
Sources ==
    /\ disk \in seen
    /\ pc \notin {"start", "done"} => held \in seen \ {Missing}
    /\ pc \in {"lookup", "describe"} => hashed \in seen \ {Missing}
    /\ pc \in Verified /\ via = "catalog" => hashed \in seen \ {Missing}

Catalogued ==
    /\ pc = "describe" => hashed.catalog # "none"
    /\ pc \in Verified /\ via = "catalog" => hashed.catalog # "none"

\* When there is an answer.
Order ==
    /\ pc \in {"start", "acquire", "hash", "lookup", "describe", "verify"} => status = "error"
    /\ pc \notin {"release", "done"} => verdict = NotYet
    /\ verdict # NotYet => verdict = Classify(status)

\* What WinVerifyTrust returned was true of a file at the path.
Grounds ==
    /\ status = "ok" => \E f \in seen \ {Missing} : "good" \in {f.catalog, f.embedded}
    /\ status = "broken" => \E f \in seen \ {Missing} : "bad" \in {f.catalog, f.embedded}

\* The signature that counts.
Main(f) == IF f.catalog # "none" THEN f.catalog ELSE f.embedded

\* Nothing was refused and the file stayed.
Undisturbed ==
    refused = {} => \A f : seen = {f} =>
        /\ via = "embedded" => f # Missing /\ f.catalog = "none"
        /\ status # "error" => f # Missing /\ status = Told(Main(f))

Grounded == Sources /\ Catalogued /\ Order /\ Grounds /\ Undisturbed

LEMMA GroundedInit ==
  ASSUME VerificationInit
  PROVE  Grounded
BY DEF VerificationInit, Grounded, Sources, Catalogued, Order, Grounds, Undisturbed, Verified

\* A change of the file adds to the files that were at the path, so that there
\* is more than one.
LEMMA Changed ==
  ASSUME VerificationTypes, Contexts, Grounded,
         NEW f \in Files \cup {Missing}, Replace(f) \/ Rewrite(f)
  PROVE  Grounded'
<1>1. /\ disk' = f /\ f # disk /\ seen' = seen \cup {f} /\ pc' = pc /\ hashed' = hashed
      /\ via' = via /\ status' = status /\ verdict' = verdict /\ refused' = refused
      /\ held' = held \/ (held' = f /\ f # Missing)
  BY DEF Replace, Rewrite, answers
<1>2. Sources'
  BY <1>1 DEF Grounded, Sources, Verified
<1>3. Catalogued' /\ Order'
  BY <1>1 DEF Grounded, Catalogued, Order, Verified
<1>4. Grounds'
  BY <1>1 DEF Grounded, Grounds
<1>5. Undisturbed'
  <2>1. \A g : seen' # {g}
    BY <1>1 DEF Grounded, Sources
  <2> QED  BY <2>1 DEF Undisturbed
<1> QED  BY <1>2, <1>3, <1>4, <1>5 DEF Grounded

\* The steps that come before WinVerifyTrust.
LEMMA Preparing ==
  ASSUME VerificationTypes, Grounded, Open \/ Acquire \/ Hash \/ Describe, Contexts
  PROVE  Grounded'
<1>1. CASE Open
  <2>1. /\ pc = "start" /\ pc' = "acquire" /\ held' = disk /\ disk # Missing
        /\ disk' = disk /\ seen' = seen /\ refused' = refused /\ via' = via
        /\ hashed' = hashed /\ status' = status /\ verdict' = verdict
    BY <1>1 DEF Open, answers
  <2> QED
    BY <2>1 DEF Grounded, Sources, Catalogued, Order, Grounds, Undisturbed, Verified
<1>2. CASE Acquire \/ Hash \/ Describe
  <2>1. /\ disk' = disk /\ held' = held /\ seen' = seen /\ status' = status
        /\ verdict' = verdict /\ pc \in {"acquire", "hash", "describe"}
        /\ \/ refused' # {} /\ pc' = "verify" /\ via' = "embedded"
           \/ /\ refused' = refused /\ via' = via
              /\ \/ pc = "acquire" /\ pc' = "hash"
                 \/ pc = "hash" /\ pc' = "lookup" /\ hashed' = held
                 \/ pc = "describe" /\ pc' = "verify" /\ hashed' = hashed
    BY <1>2 DEF Acquire, Hash, Describe, Embedded
  <2>2. Sources' /\ Catalogued'
    BY <2>1 DEF Grounded, Sources, Catalogued, Verified, Contexts
  <2>3. Order' /\ Grounds' /\ Undisturbed'
    BY <2>1 DEF Grounded, Order, Grounds, Undisturbed
  <2> QED  BY <2>2, <2>3 DEF Grounded
<1> QED  BY <1>1, <1>2

\* The search for a catalog: without an entry, the only file has none.
LEMMA Searching ==
  ASSUME VerificationTypes, Contexts, Grounded, Lookup
  PROVE  Grounded'
<1>1. /\ disk' = disk /\ held' = held /\ seen' = seen /\ status' = status
      /\ verdict' = verdict /\ hashed' = hashed /\ pc = "lookup"
      /\ \/ /\ hashed.catalog # "none" /\ pc' = "describe"
            /\ via' = via /\ refused' = refused
         \/ /\ pc' = "verify" /\ via' = "embedded"
            /\ (hashed.catalog = "none" /\ refused' = refused) \/ refused' # {}
  BY DEF Lookup, Embedded
<1>2. Sources' /\ Catalogued'
  BY <1>1 DEF Grounded, Sources, Catalogued, Verified
<1>3. Order' /\ Grounds'
  BY <1>1 DEF Grounded, Order, Grounds
<1>4. Undisturbed'
  <2>1. hashed \in seen \ {Missing} /\ status = "error"
    BY <1>1 DEF Grounded, Sources, Order
  <2> QED  BY <1>1, <2>1 DEF Grounded, Undisturbed
<1> QED  BY <1>2, <1>3, <1>4 DEF Grounded

\* The contents that WinVerifyTrust is asked about were at the path.
LEMMA Verifying ==
  ASSUME VerificationTypes, Contexts, Grounded, Verify
  PROVE  Grounded'
<1>1. /\ pc = "verify" /\ status' \in Answers(Subject) /\ pc' \in {"signer", "close"}
      /\ disk' = disk /\ held' = held /\ via' = via /\ hashed' = hashed
      /\ verdict' = verdict /\ refused' = refused /\ seen' = seen
  BY DEF Verify
<1>2. Sources' /\ Catalogued'
  BY <1>1 DEF Grounded, Sources, Catalogued, Verified
<1>3. Order'
  BY <1>1 DEF Grounded, Order
<1> DEFINE g == Subject
<1>4. /\ g \in seen /\ g \in Files \cup {Missing}
      /\ via = "catalog" => g # Missing /\ g.catalog # "none"
  BY <1>1 DEF Subject, VerificationTypes, Sides, Grounded, Sources, Catalogued, Verified
<1>5. status' # "error" => g # Missing /\ g \in Files
                             /\ status' = Told(IF via = "catalog" THEN g.catalog ELSE g.embedded)
  BY <1>1, <1>4 DEF Answers
<1> HIDE DEF g
<1>6. Grounds'
  <2>1. CASE status' = "error"
    BY <2>1 DEF Grounds
  <2>2. CASE status' # "error"
    <3>1. g \in seen' \ {Missing} /\ g.catalog \in Kinds /\ g.embedded \in Kinds
      BY <2>2, <1>1, <1>4, <1>5 DEF Files
    <3>2. /\ status' = "ok" => "good" \in {g.catalog, g.embedded}
          /\ status' = "broken" => "bad" \in {g.catalog, g.embedded}
      BY <3>1, <2>2, <1>4, <1>5 DEF Told, Kinds
    <3> QED  BY <3>1, <3>2 DEF Grounds
  <2> QED  BY <2>1, <2>2
<1>7. Undisturbed'
  <2> SUFFICES ASSUME refused = {}, NEW f, seen = {f}
               PROVE  /\ via = "embedded" => f # Missing /\ f.catalog = "none"
                      /\ status' # "error" => f # Missing /\ status' = Told(Main(f))
    BY <1>1 DEF Undisturbed
  <2>1. f = g
    BY <1>4
  <2>2. via = "embedded" => f # Missing /\ f.catalog = "none"
    BY DEF Grounded, Undisturbed
  <2>3. CASE via = "catalog"
    BY <2>1, <2>3, <1>4, <1>5 DEF Main
  <2>4. CASE via = "embedded"
    BY <2>1, <2>2, <2>4, <1>5 DEF Main
  <2> QED  BY <2>2, <2>3, <2>4 DEF VerificationTypes, Sides
<1> QED  BY <1>2, <1>3, <1>6, <1>7 DEF Grounded

LEMMA GroundedKept ==
  ASSUME VerificationTypes, Contexts, Grounded, [VerificationNext]_verification
  PROVE  Grounded'
<1>1. CASE UNCHANGED verification
  BY <1>1 DEF verification, answers, Grounded, Sources, Catalogued, Order, Grounds, Undisturbed, Verified
<1>2. CASE CannotOpen
  <2>1. /\ pc = "start" /\ pc' = "done" /\ verdict' = "Unavailable" /\ disk' = disk
        /\ held' = held /\ via' = via /\ hashed' = hashed /\ status' = status
        /\ refused' = refused /\ seen' = seen
    BY <1>2 DEF CannotOpen
  <2>2. Sources' /\ Catalogued'
    BY <2>1 DEF Grounded, Sources, Catalogued, Verified
  <2>3. Order' /\ Grounds' /\ Undisturbed'
    BY <2>1 DEF Grounded, Order, Grounds, Undisturbed, Classify
  <2> QED  BY <2>2, <2>3 DEF Grounded
<1>3. CASE Open \/ Acquire \/ Hash \/ Describe
  BY <1>3, Preparing
<1>4. CASE Lookup
  BY <1>4, Searching
<1>5. CASE Verify
  BY <1>5, Verifying
<1>6. CASE Signer \/ CloseState \/ Release
  <2>1. /\ disk' = disk /\ held' = held /\ via' = via /\ hashed' = hashed
        /\ status' = status /\ refused' = refused /\ seen' = seen
        /\ pc \in {"signer", "close", "release"}
        /\ \/ pc' = "close" /\ pc = "signer" /\ verdict' = verdict
           \/ pc' = "release" /\ verdict' = Classify(status)
           \/ pc' = "done" /\ verdict' = verdict
    BY <1>6 DEF Signer, CloseState, Release, resources, answers
  <2>2. Sources' /\ Catalogued'
    BY <2>1 DEF Grounded, Sources, Catalogued, Verified
  <2>3. Order' /\ Grounds' /\ Undisturbed'
    BY <2>1 DEF Grounded, Order, Grounds, Undisturbed
  <2> QED  BY <2>2, <2>3 DEF Grounded
<1>7. ASSUME NEW f \in Files \cup {Missing}, Replace(f) \/ Rewrite(f)
      PROVE  Grounded'
  BY <1>7, Changed
<1> QED
  BY <1>1, <1>2, <1>3, <1>4, <1>5, <1>6, <1>7 DEF VerificationNext, Program

LEMMA GroundedHonest ==
  ASSUME VerificationTypes, Grounded
  PROVE  Honest
<1>1. /\ verdict = "Trusted" => status = "ok"
      /\ verdict = "Invalid" => status = "broken"
  BY DEF VerificationTypes, Grounded, Order, Classify, Statuses, NotYet
<1>2. Claimed("Trusted", "good") /\ Claimed("Invalid", "bad")
  BY <1>1 DEF Claimed, Grounded, Grounds
<1>3. ASSUME NEW f \in seen, verdict # NotYet, seen = {f}, refused = {}
      PROVE  verdict \in {Expected(f), "Unavailable"}
  <2>1. verdict = Classify(status)
    BY <1>3 DEF Grounded, Order
  <2>2. CASE status = "error"
    BY <2>1, <2>2 DEF Classify
  <2>3. CASE status # "error"
    <3>1. f # Missing /\ status = Told(Main(f))
      BY <1>3, <2>3 DEF Grounded, Undisturbed
    <3> QED  BY <2>1, <3>1 DEF Expected, Main
  <2> QED  BY <2>2, <2>3
<1> QED  BY <1>2, <1>3 DEF Honest

-----------------------------------------------------------------------------
(* Theorems *)

\* VerificationTypeOK: every variable keeps its type, and no context that is 0 is
\* described or verified.
THEOREM VerificationTypeCorrect == Verification => []VerificationTypeOK
<1>1. VerificationInit => VerificationTypes /\ Contexts /\ Grounded
  BY ContextsInit, GroundedInit
<1>2. VerificationTypes /\ Contexts /\ Grounded /\ [VerificationNext]_verification => (VerificationTypes /\ Contexts /\ Grounded)'
  BY VerificationTypesKept, ContextsKept, GroundedKept
<1>3. VerificationTypes /\ Grounded => VerificationTypeOK
  BY DEF VerificationTypes, VerificationTypeOK, Sides, Grounded, Sources, Catalogued, Verified
<1> QED  BY <1>1, <1>2, <1>3, PTL DEF Verification

\* Balanced: verify leaves nothing open, whichever call is refused.
THEOREM ContextsReleased == Verification => []Balanced
<1>1. VerificationInit => VerificationTypes /\ Contexts
  BY ContextsInit
<1>2. VerificationTypes /\ Contexts /\ [VerificationNext]_verification => (VerificationTypes /\ Contexts)'
  BY VerificationTypesKept, ContextsKept
<1>3. VerificationTypes /\ Contexts => Balanced
  BY ContextsBalanced
<1> QED  BY <1>1, <1>2, <1>3, PTL DEF Verification

\* Honest: Trusted and Invalid were true of a file at the path, whatever is refused
\* and however often the file is changed meanwhile, and a verification that nothing
\* disturbs comes to the verdict the file deserves.
THEOREM VerdictHonest == Verification => []Honest
<1>1. VerificationInit => VerificationTypes /\ Contexts /\ Grounded
  BY ContextsInit, GroundedInit
<1>2. VerificationTypes /\ Contexts /\ Grounded /\ [VerificationNext]_verification => (VerificationTypes /\ Contexts /\ Grounded)'
  BY VerificationTypesKept, ContextsKept, GroundedKept
<1>3. VerificationTypes /\ Grounded => Honest
  BY GroundedHonest
<1> QED  BY <1>1, <1>2, <1>3, PTL DEF Verification
=============================================================================
