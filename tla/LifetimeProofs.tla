--------------------------- MODULE LifetimeProofs ---------------------------
(***************************************************************************)
(* Theorems about Lifetime: one window at a time, and handlers that do not *)
(* outlive the state they use, for any number of processes and any depth   *)
(* of boxes.                                                               *)
(*                                                                         *)
(* The mutex is owned by nobody, and what keeps the second process out is  *)
(* Sole: of the processes with a handle, one at most found none before it. *)
(* The stack is safe because of where boxes can be: as long as they are    *)
(* answered from the innermost on, Nested says that at an open box or      *)
(* below it one disables the window, so that only prompts and detail boxes *)
(* open over others, the user cannot close the window under a handler, and *)
(* an offer to restart is the only handler there is when it is accepted.   *)
(***************************************************************************)
EXTENDS Lifetime, SequenceTheorems, TLAPS

-----------------------------------------------------------------------------
(* The mutex *)

MutexType ==
    /\ stage \in [Procs -> Stages]
    /\ found \subseteq handles /\ handles \subseteq Procs

\* Where a process has a handle, and where it knows that it is not the first.
Handles ==
    \A p \in Procs :
        /\ stage[p] \in {"locked", "window", "leaving"} => p \in handles
        /\ stage[p] \in {"off", "waiting", "locking", "ended"} => p \notin handles
        /\ p \in found => stage[p] = "locked"

Sole == \A p, q \in handles \ found : p = q

Mutex == MutexType /\ Handles /\ Sole

\* A step of p that gives no handle keeps the order of the mutex.
LEMMA Keeping ==
  ASSUME Mutex, NEW p \in Procs, NEW s \in Stages,
         stage' = [stage EXCEPT ![p] = s], handles' = handles, found' = found,
         p \notin found,
         s \in {"locked", "window", "leaving"} => p \in handles,
         s \in {"off", "waiting", "locking", "ended"} => p \notin handles
  PROVE  Mutex'
<1>1. stage' \in [Procs -> Stages] /\ stage'[p] = s
  BY DEF Mutex, MutexType
<1>2. \A q \in Procs : q # p => stage'[q] = stage[q]
  BY DEF Mutex, MutexType
<1>3. Handles'
  BY <1>1, <1>2 DEF Mutex, Handles
<1> QED  BY <1>1, <1>3 DEF Mutex, MutexType, Sole

\* A step that closes the handle of p keeps it.
LEMMA Closing ==
  ASSUME Mutex, NEW p \in Procs,
         stage' = [stage EXCEPT ![p] = "ended"],
         handles' = handles \ {p}, found' = found \ {p}
  PROVE  Mutex'
<1>1. stage' \in [Procs -> Stages] /\ stage'[p] = "ended"
  BY DEF Mutex, MutexType, Stages
<1>2. \A q \in Procs : q # p => stage'[q] = stage[q]
  BY DEF Mutex, MutexType
<1>3. Handles'
  BY <1>1, <1>2 DEF Mutex, Handles
<1> QED  BY <1>1, <1>3 DEF Mutex, MutexType, Sole

\* CreateMutexW makes the first holder or tells the second that it is none.
LEMMA Creating ==
  ASSUME Mutex, NEW p \in Procs, CreateMutex(p)
  PROVE  Mutex'
<1>1. /\ stage[p] = "locking"
      /\ stage' = [stage EXCEPT ![p] = "locked"]
      /\ handles' = handles \cup {p}
      /\ found' = IF handles # {} THEN found \cup {p} ELSE found
  BY DEF CreateMutex, At, Goes, Exists
<1>2. stage' \in [Procs -> Stages] /\ stage'[p] = "locked"
  BY <1>1 DEF Mutex, MutexType, Stages
<1>3. \A q \in Procs : q # p => stage'[q] = stage[q]
  BY <1>1 DEF Mutex, MutexType
<1>4. p \notin handles /\ p \notin found
  BY <1>1 DEF Mutex, Handles, MutexType
<1>5. Handles'
  BY <1>1, <1>2, <1>3 DEF Mutex, Handles
<1>6. Sole'
  <2>1. CASE handles = {}
    BY <2>1, <1>1 DEF Mutex, Sole
  <2>2. CASE handles # {}
    BY <2>2, <1>1, <1>4 DEF Mutex, Sole
  <2> QED  BY <2>1, <2>2
<1> QED  BY <1>1, <1>2, <1>5, <1>6 DEF Mutex, MutexType

\* The actions that leave stage and the handles alone.
LEMMA MutexStays ==
  ASSUME Mutex, UNCHANGED <<stage, handles, found>>
  PROVE  Mutex'
BY DEF Mutex, MutexType, Handles, Sole

LEMMA MutexKept ==
  ASSUME Mutex, [Next]_vars
  PROVE  Mutex'
<1>1. CASE UNCHANGED vars
  BY <1>1, MutexStays DEF vars, guard
<1>2. ASSUME NEW p \in Procs, Runs(p)
      PROVE  Mutex'
  <2>1. CASE Wait(p)
    <3>1. /\ stage[p] = "waiting" /\ stage' = [stage EXCEPT ![p] = "locking"]
          /\ handles' = handles /\ found' = found
      BY <2>1 DEF Wait, At, Goes
    <3> QED  BY <3>1, Keeping DEF Mutex, Handles, Stages
  <2>2. CASE CreateMutex(p)  BY <2>2, Creating
  <2>3. CASE GiveWay(p)
    BY <2>3, Closing DEF GiveWay, Goes
  <2>4. CASE OpenWindow(p)
    <3>1. /\ stage[p] = "locked" /\ stage' = [stage EXCEPT ![p] = "window"]
          /\ handles' = handles /\ found' = found /\ p \notin found
      BY <2>4 DEF OpenWindow, At, Goes
    <3> QED  BY <3>1, Keeping DEF Mutex, Handles, Stages
  <2>5. CASE Unwind(p)
    BY <2>5, MutexStays DEF Unwind, guard
  <2>6. CASE Quit(p)
    <3>1. /\ stage[p] = "leaving" /\ stage' = [stage EXCEPT ![p] = "ended"]
          /\ handles' = handles \ {p} /\ found' = found
      BY <2>6 DEF Quit, At, Goes
    <3>2. p \notin found
      BY <3>1 DEF Mutex, Handles
    <3> QED  BY <3>1, <3>2, Closing
  <2> QED  BY <1>2, <2>1, <2>2, <2>3, <2>4, <2>5, <2>6 DEF Runs
<1>3. ASSUME NEW p \in Procs, Polls(p)
      PROVE  Mutex'
  BY <1>3, MutexStays DEF Polls, Timer, PostedRefresh, guard
<1>4. ASSUME NEW p \in Procs, User(p)
      PROVE  Mutex'
  <2>1. CASE Start(p)
    <3>1. /\ stage[p] = "off" /\ stage' = [stage EXCEPT ![p] = "locking"]
          /\ handles' = handles /\ found' = found
      BY <2>1 DEF Start, At, Goes
    <3> QED  BY <3>1, Keeping DEF Mutex, Handles, Stages
  <2>2. CASE Answer(p)
    <3>1. /\ stage[p] = "off" /\ stage' = [stage EXCEPT ![p] = "dialog"]
          /\ handles' = handles /\ found' = found
      BY <2>2 DEF Answer, At, Goes
    <3> QED  BY <3>1, Keeping DEF Mutex, Handles, Stages
  <2>3. CASE Dismiss(p)
    <3>1. /\ stage[p] = "dialog" /\ stage' = [stage EXCEPT ![p] = "ended"]
          /\ handles' = handles \ {p} /\ found' = found
      BY <2>3 DEF Dismiss, At, Goes
    <3>2. p \notin found
      BY <3>1 DEF Mutex, Handles
    <3> QED  BY <3>1, <3>2, Closing
  <2>4. CASE Close(p)
    <3>1. /\ stage[p] = "window" /\ stage' = [stage EXCEPT ![p] = "leaving"]
          /\ handles' = handles /\ found' = found
      BY <2>4 DEF Close, TakesInput, At, Goes
    <3> QED  BY <3>1, Keeping DEF Mutex, Handles, Stages
  <2>5. ASSUME NEW q \in Procs, RestartElevated(p, q)
        PROVE  Mutex'
    <3>1. /\ stage[p] = "window" /\ stage[q] = "off"
          /\ stage' = [stage EXCEPT ![p] = "leaving", ![q] = "waiting"]
          /\ handles' = handles /\ found' = found
      BY <2>5 DEF RestartElevated, MayReply, At, Begins
    <3>2. /\ stage' \in [Procs -> Stages] /\ p # q
          /\ stage'[p] = "leaving" /\ stage'[q] = "waiting"
      BY <3>1 DEF Mutex, MutexType, Stages
    <3>3. \A r \in Procs : r \notin {p, q} => stage'[r] = stage[r]
      BY <3>1 DEF Mutex, MutexType
    <3>4. Handles'
      BY <3>1, <3>2, <3>3 DEF Mutex, Handles
    <3> QED  BY <3>1, <3>2, <3>4 DEF Mutex, MutexType, Sole
  <2>6. CASE Command(p) \/ Minimize(p) \/ Restore(p)
    BY <2>6, MutexStays DEF Command, Minimize, Restore, guard
  <2>7. ASSUME NEW n \in DOMAIN stack[p], Reply(p, n)
        PROVE  Mutex'
    BY <2>7, MutexStays DEF Reply, guard
  <2>8. ASSUME NEW q \in Procs, RestartLate(p, q)
        PROVE  Mutex'
    <3>1. /\ stage[q] = "off" /\ stage' = [stage EXCEPT ![q] = "waiting"]
          /\ handles' = handles /\ found' = found
      BY <2>8 DEF RestartLate, At, Goes, Begins
    <3> QED  BY <3>1, Keeping DEF Mutex, Handles, Stages
  <2> QED  BY <1>4, <2>1, <2>2, <2>3, <2>4, <2>5, <2>6, <2>7, <2>8 DEF User
<1>5. ASSUME NEW p \in Procs, Environment(p)
      PROVE  Mutex'
  <2>1. CASE CreateFails(p)
    <3>1. /\ stage' = [stage EXCEPT ![p] = "dialog"] /\ p \notin found
          /\ handles' = handles /\ found' = found
      BY <2>1 DEF CreateFails, Goes
    <3> QED  BY <3>1, Keeping DEF Stages
  <2>2. CASE Killed(p)
    BY <2>2, Closing DEF Killed, Goes
  <2>3. CASE Age(p) \/ DetailReady(p)
    BY <2>3, MutexStays DEF Age, DetailReady, guard
  <2>4. CASE CloseFromOutside(p)
    <3>1. /\ stage[p] = "window" /\ stage' = [stage EXCEPT ![p] = "leaving"]
          /\ handles' = handles /\ found' = found
      BY <2>4 DEF CloseFromOutside, At, Goes
    <3> QED  BY <3>1, Keeping DEF Mutex, Handles, Stages
  <2> QED  BY <1>5, <2>1, <2>2, <2>3, <2>4 DEF Environment
<1> QED  BY <1>1, <1>2, <1>3, <1>4, <1>5 DEF Next

\* OneWindow, for any number of processes: a process with a window holds the
\* mutex and found none before it.
LEMMA SoleWindow ==
  ASSUME Mutex
  PROVE  OneWindow
<1> SUFFICES ASSUME NEW p \in Procs, NEW q \in Procs,
                    stage[p] \in {"window", "leaving"}, stage[q] \in {"window", "leaving"}
             PROVE  p = q
  BY DEF OneWindow
<1>1. p \in handles \ found /\ q \in handles \ found
  BY DEF Mutex, Handles
<1> QED  BY <1>1 DEF Mutex, Sole

LEMMA MutexInit ==
  ASSUME Init
  PROVE  Mutex
BY DEF Init, Mutex, MutexType, Handles, Sole, Stages

-----------------------------------------------------------------------------
(* The handlers that wait *)

StackType == stack \in [Procs -> Seq(Frames)]

\* Boxes that were answered from the innermost on: all are open, but for a menu
\* that a box cancelled; commands open one only at the bottom; and an open one
\* has at it or below it one that disables the window.
Nest(t) ==
    \A n \in 1 .. Len(t) :
        /\ t[n].kind = "menu" => ~t[n].disables
        /\ t[n].kind # "menu" => IsOpen(t[n])
        /\ n > 1 => t[n].kind \in {"prompt", "notice"}
        /\ t[n].kind # "menu" => \E m \in 1 .. n : IsOpen(t[m]) /\ t[m].disables

\* Handlers wait only under a window, or until those of a lost one returned.
Waits == \A p \in Procs : stage[p] \notin {"window", "leaving"} => stack[p] = <<>>

Nested == \A p \in Procs \ crossed : stage[p] = "window" => Nest(stack[p])

\* Who leaves, and not because of others, has no handler that waits.
Alone == \A p \in Procs \ (outside \cup crossed) : stage[p] = "leaving" => stack[p] = <<>>

Boxes == StackType /\ Waits /\ Nested /\ Alone /\ late \subseteq outside \cup crossed

-----------------------------------------------------------------------------
(* Stacks of boxes *)

LEMMA NestOfNone == Nest(<<>>)
BY DEF Nest

\* What is left when the handlers above the m-th have returned.
LEMMA NestOfPrefix ==
  ASSUME NEW t \in Seq(Frames), Nest(t), NEW m \in 0 .. Len(t)
  PROVE  Nest(SubSeq(t, 1, m))
<1> DEFINE u == SubSeq(t, 1, m)
<1>1. Len(u) = m /\ \A n \in 1 .. m : u[n] = t[n]
  OBVIOUS
<1>2. m \in Nat /\ m <= Len(t) /\ Len(t) \in Nat
  OBVIOUS
<1> HIDE DEF u
<1> SUFFICES ASSUME NEW n \in 1 .. Len(u)
             PROVE  /\ u[n].kind = "menu" => ~u[n].disables
                    /\ u[n].kind # "menu" => IsOpen(u[n])
                    /\ n > 1 => u[n].kind \in {"prompt", "notice"}
                    /\ u[n].kind # "menu" => \E k \in 1 .. n : IsOpen(u[k]) /\ u[k].disables
  BY DEF Nest, u
<1>3. n \in 1 .. Len(t) /\ u[n] = t[n]
  BY <1>1, <1>2
<1>4. \A k \in 1 .. n : u[k] = t[k]
  BY <1>1, <1>2
<1> QED  BY <1>3, <1>4 DEF Nest

\* The frames of a stack on which a box opened.
LEMMA OpenedIs ==
  ASSUME NEW t \in Seq(Frames), NEW k \in Kinds
  PROVE  /\ Opened(t, k) \in Seq(Frames)
         /\ Len(Opened(t, k)) = Len(t) + 1
         /\ \A n \in 1 .. Len(t) :
              /\ Opened(t, k)[n].kind = t[n].kind
              /\ Opened(t, k)[n].disables = t[n].disables
              /\ t[n].kind # "menu" => Opened(t, k)[n] = t[n]
         /\ Opened(t, k)[Len(t) + 1] =
              [kind |-> k, answer |-> "open", disables |-> k # "menu" /\ ~Disabled(t)]
<1> DEFINE C(n) == IF t[n].kind = "menu" /\ k # "menu"
                     THEN [t[n] EXCEPT !.answer = IF @ = "open" THEN "no" ELSE @]
                     ELSE t[n]
           c == [n \in DOMAIN t |-> C(n)]
           f == [kind |-> k, answer |-> "open", disables |-> k # "menu" /\ ~Disabled(t)]
<1>1. Len(t) \in Nat /\ DOMAIN t = 1 .. Len(t) /\ \A n \in 1 .. Len(t) : t[n] \in Frames
  OBVIOUS
<1>2. \A n \in 1 .. Len(t) :
        /\ C(n) \in Frames /\ C(n).kind = t[n].kind /\ C(n).disables = t[n].disables
        /\ t[n].kind # "menu" => C(n) = t[n]
  BY <1>1 DEF Frames
<1>3. f \in Frames
  BY DEF Frames
<1> HIDE DEF C
<1>4. c \in Seq(Frames) /\ Len(c) = Len(t) /\ \A n \in 1 .. Len(t) : c[n] = C(n)
  <2>1. c \in [1 .. Len(t) -> Frames]
    BY <1>1, <1>2
  <2>2. \A n \in 1 .. Len(t) : c[n] = C(n)
    BY <1>1
  <2> HIDE DEF c
  <2> QED  BY <1>1, <2>1, <2>2
<1>5. Opened(t, k) = Append(c, f)
  BY DEF Opened, C
<1> HIDE DEF c, f
<1>6. /\ Append(c, f) \in Seq(Frames) /\ Len(Append(c, f)) = Len(t) + 1
      /\ \A n \in 1 .. Len(t) : Append(c, f)[n] = c[n]
      /\ Append(c, f)[Len(t) + 1] = f
  BY <1>1, <1>3, <1>4
<1> QED  BY <1>2, <1>4, <1>5, <1>6 DEF f

\* A box of a command at the bottom, or a prompt or a detail box anywhere.
LEMMA NestOfOpened ==
  ASSUME NEW t \in Seq(Frames), Nest(t), NEW k \in Kinds,
         t = <<>> \/ k \in {"prompt", "notice"}
  PROVE  Nest(Opened(t, k))
<1> DEFINE u == Opened(t, k)
<1>1. /\ Len(u) = Len(t) + 1 /\ Len(t) \in Nat
      /\ \A n \in 1 .. Len(t) :
           u[n].kind = t[n].kind /\ u[n].disables = t[n].disables
           /\ (t[n].kind # "menu" => u[n] = t[n])
      /\ u[Len(u)] = [kind |-> k, answer |-> "open", disables |-> k # "menu" /\ ~Disabled(t)]
  BY OpenedIs
<1>2. Disabled(t) => \E m \in 1 .. Len(t) : IsOpen(t[m]) /\ t[m].disables
  BY DEF Disabled
<1>3. t = <<>> <=> Len(t) = 0
  OBVIOUS
<1> HIDE DEF u
<1>4. \A m \in 1 .. Len(t) : IsOpen(t[m]) /\ t[m].disables => IsOpen(u[m]) /\ u[m].disables
  BY <1>1 DEF Nest
<1> SUFFICES ASSUME NEW n \in 1 .. Len(u)
             PROVE  /\ u[n].kind = "menu" => ~u[n].disables
                    /\ u[n].kind # "menu" => IsOpen(u[n])
                    /\ n > 1 => u[n].kind \in {"prompt", "notice"}
                    /\ u[n].kind # "menu" => \E m \in 1 .. n : IsOpen(u[m]) /\ u[m].disables
  BY DEF Nest, u
<1>5. CASE n \in 1 .. Len(t)
  <2>1. /\ t[n].kind = "menu" => ~t[n].disables
        /\ t[n].kind # "menu" => IsOpen(t[n])
        /\ n > 1 => t[n].kind \in {"prompt", "notice"}
        /\ t[n].kind # "menu" => \E m \in 1 .. n : IsOpen(t[m]) /\ t[m].disables
    BY <1>5 DEF Nest
  <2>2. \A m \in 1 .. n : m \in 1 .. Len(t)
    BY <1>5, <1>1
  <2> QED  BY <1>5, <1>1, <1>4, <2>1, <2>2
<1>6. CASE n = Len(u)
  <2>1. u[n].kind = k /\ IsOpen(u[n]) /\ u[n].disables = (k # "menu" /\ ~Disabled(t))
    BY <1>6, <1>1 DEF IsOpen
  <2>2. n > 1 => k \in {"prompt", "notice"}
    BY <1>6, <1>1, <1>3
  <2>3. ASSUME k # "menu"
        PROVE  \E m \in 1 .. n : IsOpen(u[m]) /\ u[m].disables
    <3>1. CASE Disabled(t)
      <4>1. PICK m \in 1 .. Len(t) : IsOpen(t[m]) /\ t[m].disables
        BY <3>1, <1>2
      <4>2. m \in 1 .. n
        BY <1>6, <1>1
      <4> QED  BY <4>1, <4>2, <1>4
    <3>2. CASE ~Disabled(t)
      <4>1. n \in 1 .. n
        BY <1>6, <1>1
      <4>2. u[n].disables
        BY <3>2, <2>1, <2>3
      <4> QED  BY <4>1, <4>2, <2>1
    <3> QED  BY <3>1, <3>2
  <2> QED  BY <2>1, <2>2, <2>3
<1> QED  BY <1>1, <1>5, <1>6

\* The user reaches a window under which no box was answered out of turn only
\* if there is none.
LEMMA ReachedIsEmpty ==
  ASSUME NEW t \in Seq(Frames), Nest(t), ~Disabled(t),
         t # <<>> => t[Len(t)].kind # "menu"
  PROVE  t = <<>>
<1> SUFFICES ASSUME t # <<>>
             PROVE  FALSE
  OBVIOUS
<1>1. Len(t) \in 1 .. Len(t) /\ DOMAIN t = 1 .. Len(t)
  OBVIOUS
<1>2. \E m \in 1 .. Len(t) : IsOpen(t[m]) /\ t[m].disables
  BY <1>1 DEF Nest
<1> QED  BY <1>1, <1>2 DEF Disabled

\* A box that was answered.
LEMMA RepliedIs ==
  ASSUME NEW t \in Seq(Frames), NEW n \in 1 .. Len(t), NEW a \in {"yes", "no", "closed"}
  PROVE  /\ Replied(t, n, a) \in Seq(Frames)
         /\ Len(Replied(t, n, a)) = Len(t)
         /\ ~IsOpen(Replied(t, n, a)[n])
         /\ \A m \in 1 .. Len(t) : Replied(t, n, a)[m].kind = t[m].kind
         /\ \A m \in 1 .. Len(t) : m # n => Replied(t, n, a)[m] = t[m]
<1>1. Len(t) \in Nat /\ DOMAIN t = 1 .. Len(t) /\ t \in [1 .. Len(t) -> Frames]
  OBVIOUS
<1> DEFINE f == [t[n] EXCEPT !.answer = a, !.disables = FALSE]
           u == [t EXCEPT ![n] = f]
<1>2. Replied(t, n, a) = u
  BY <1>1 DEF Replied, Frames
<1>3. f \in Frames /\ f.kind = t[n].kind /\ ~IsOpen(f)
  <2>1. t[n] \in Frames
    BY <1>1
  <2> QED  BY <2>1 DEF Frames, IsOpen
<1> HIDE DEF f
<1>4. u \in Seq(Frames) /\ Len(u) = Len(t)
  BY <1>1, <1>3
<1>5. u[n] = f /\ \A m \in 1 .. Len(t) : m # n => u[m] = t[m]
  BY <1>1
<1> HIDE DEF u
<1> QED  BY <1>2, <1>3, <1>4, <1>5

\* Handlers that return from the innermost on leave a nest, and only the
\* handler of a command, at the bottom, goes on to a further box.
LEMMA NestOfReturned ==
  ASSUME NEW t \in Seq(Frames), Nest(t), t # <<>>, NEW a \in {"yes", "no", "closed"},
         NEW m \in 0 .. Len(t),
         m > 0 => IsOpen(Replied(t, Len(t), a)[m])
  PROVE  Nest(SubSeq(Replied(t, Len(t), a), 1, m))
<1> DEFINE u == Replied(t, Len(t), a)
<1>1. Len(t) \in 1 .. Len(t) /\ Len(t) \in Nat
  OBVIOUS
<1>2. /\ u \in Seq(Frames) /\ Len(u) = Len(t) /\ ~IsOpen(u[Len(t)])
      /\ \A n \in 1 .. Len(t) : n # Len(t) => u[n] = t[n]
  BY <1>1, RepliedIs
<1> HIDE DEF u
<1>3. m # Len(t)
  BY <1>1, <1>2 DEF u
<1>4. \A n \in 1 .. m : u[n] = t[n]
  BY <1>1, <1>2, <1>3
<1>5. SubSeq(u, 1, m) = SubSeq(t, 1, m)
  BY <1>1, <1>2, <1>4
<1> QED  BY <1>5, NestOfPrefix DEF u

LEMMA BottomIsCommand ==
  ASSUME NEW t \in Seq(Frames), Nest(t), t # <<>>, NEW a \in {"yes", "no", "closed"},
         NEW m \in 1 .. Len(t),
         Replied(t, Len(t), a)[m].kind \notin {"prompt", "notice"}
  PROVE  SubSeq(Replied(t, Len(t), a), 1, m - 1) = <<>>
<1>1. Len(t) \in 1 .. Len(t) /\ Len(t) \in Nat
  OBVIOUS
<1>2. /\ Replied(t, Len(t), a) \in Seq(Frames)
      /\ Replied(t, Len(t), a)[m].kind = t[m].kind
  BY <1>1, RepliedIs
<1>3. m = 1
  BY <1>2 DEF Nest
<1> QED  BY <1>2, <1>3

-----------------------------------------------------------------------------
(* The steps of a process *)

\* A step of p that leaves it with the stack t.
LEMMA StackBecomes ==
  ASSUME Boxes, NEW p \in Procs, NEW t \in Seq(Frames), Becomes(p, t),
         outside \subseteq outside', crossed \subseteq crossed',
         late' \subseteq late \cup {p},
         p \in late' \ late => p \in outside \cup crossed,
         \A q \in Procs \ {p} :
            stage'[q] = stage[q] \/ (stage[q] = "off" /\ stage'[q] = "waiting"),
         stage'[p] \notin {"window", "leaving"} => t = <<>>,
         stage'[p] = "window" /\ p \notin crossed' => Nest(t),
         stage'[p] = "leaving" /\ p \notin outside' \cup crossed' => t = <<>>
  PROVE  Boxes'
<1>1. StackType' /\ stack'[p] = t /\ \A q \in Procs : q # p => stack'[q] = stack[q]
  BY DEF Boxes, StackType, Becomes
<1>2. Waits'
  BY <1>1 DEF Boxes, Waits
<1>3. Nested'
  <2> SUFFICES ASSUME NEW q \in Procs, q \notin crossed', stage'[q] = "window"
               PROVE  Nest(stack'[q])
    BY DEF Nested, Nest, IsOpen
  <2>1. CASE q = p
    BY <2>1, <1>1
  <2>2. CASE q # p
    BY <2>2, <1>1 DEF Boxes, Nested
  <2> QED  BY <2>1, <2>2
<1>4. Alone'
  BY <1>1 DEF Boxes, Alone
<1>5. late' \subseteq outside' \cup crossed'
  BY DEF Boxes
<1> QED  BY <1>1, <1>2, <1>3, <1>4, <1>5 DEF Boxes

\* A step of p that leaves the stacks alone.
LEMMA StackStays ==
  ASSUME Boxes, NEW p \in Procs, stack' = stack,
         outside \subseteq outside', crossed' = crossed, late' = late,
         \A q \in Procs \ {p} : stage'[q] = stage[q],
         stage'[p] \notin {"window", "leaving"} => stack[p] = <<>>,
         stage'[p] = "window" => stage[p] = "window" \/ stack[p] = <<>>,
         stage'[p] = "leaving" =>
            stage[p] = "leaving" \/ p \in outside' \cup crossed' \/ stack[p] = <<>>
  PROVE  Boxes'
<1>1. stack[p] \in Seq(Frames) /\ Becomes(p, stack[p])
  BY DEF Boxes, StackType, Becomes
<1>2. stage'[p] = "window" /\ p \notin crossed' => Nest(stack[p])
  BY NestOfNone DEF Boxes, Nested
<1>3. stage'[p] = "leaving" /\ p \notin outside' \cup crossed' => stack[p] = <<>>
  BY DEF Boxes, Alone
<1> QED  BY <1>1, <1>2, <1>3, StackBecomes

\* A box opens over the others: those of commands only in a window that the
\* user reaches.
LEMMA Opening ==
  ASSUME Boxes, NEW p \in Procs, NEW k \in Kinds, Opens(p, k), stage[p] = "window",
         stage' = stage, outside' = outside, crossed' = crossed, late' = late,
         k \in {"prompt", "notice"} \/ TakesInput(p)
  PROVE  Boxes'
<1> DEFINE t == Opened(stack[p], k)
<1>1. stack[p] \in Seq(Frames) /\ (p \notin crossed => Nest(stack[p]))
  BY DEF Boxes, StackType, Nested
<1>2. t \in Seq(Frames) /\ Becomes(p, t)
  BY <1>1, OpenedIs DEF Opens
<1>3. ASSUME p \notin crossed
      PROVE  Nest(t)
  <2>1. stack[p] = <<>> \/ k \in {"prompt", "notice"}
    BY <1>1, <1>3, ReachedIsEmpty DEF TakesInput, Top
  <2> QED  BY <1>1, <1>3, <2>1, NestOfOpened
<1> HIDE DEF t
<1> QED  BY <1>2, <1>3, StackBecomes

\* refresh leaves the stack or opens the prompt.
LEMMA Refreshing ==
  ASSUME Boxes, NEW p \in Procs, Refresh(p), stage[p] = "window",
         stage' = stage, outside' = outside, crossed' = crossed, late' = late
  PROVE  Boxes'
<1>1. stack' = stack \/ Opens(p, "prompt")
  BY DEF Refresh, loop
<1>2. CASE stack' = stack
  BY <1>2, StackStays
<1>3. CASE Opens(p, "prompt")
  BY <1>3, Opening DEF Kinds
<1> QED  BY <1>1, <1>2, <1>3

\* A box is answered, and handlers return or go on.
LEMMA Replying ==
  ASSUME Boxes, NEW p \in Procs, NEW n \in DOMAIN stack[p], Reply(p, n)
  PROVE  Boxes'
<1>1. PICK a \in {"yes", "no", "closed"} :
        /\ MayReply(p, n, a)
        /\ LET t == Replied(stack[p], n, a) IN
             \/ \E m \in 0 .. Len(t) :
                  /\ Ended(t, m) /\ (m > 0 => IsOpen(t[m]))
                  /\ Becomes(p, SubSeq(t, 1, m))
             \/ \E m \in 1 .. Len(t) :
                  /\ Ended(t, m - 1)
                  /\ \E k \in Further(t[m]) : Becomes(p, Opened(SubSeq(t, 1, m - 1), k))
  BY DEF Reply
<1>2. /\ stage[p] = "window" /\ stage' = stage /\ outside' = outside /\ late' = late
      /\ crossed' = IF n < Len(stack[p]) THEN crossed \cup {p} ELSE crossed
  BY <1>1 DEF Reply, MayReply, At, guard
<1>3. /\ stack[p] \in Seq(Frames) /\ n \in 1 .. Len(stack[p]) /\ Len(stack[p]) \in Nat
      /\ stack[p] # <<>>
      /\ p \notin crossed => Nest(stack[p])
  BY <1>2 DEF Boxes, StackType, Nested
<1>4. p \notin crossed' => n = Len(stack[p]) /\ p \notin crossed
  BY <1>2, <1>3
<1> DEFINE t == Replied(stack[p], n, a)
<1>5. t \in Seq(Frames) /\ Len(t) = Len(stack[p])
  BY <1>3, RepliedIs
<1>6. ASSUME NEW u \in Seq(Frames), Becomes(p, u), p \notin crossed' => Nest(u)
      PROVE  Boxes'
  <2>1. crossed \subseteq crossed'
    BY <1>2
  <2> QED  BY <1>2, <1>6, <2>1, StackBecomes
<1>7. ASSUME NEW m \in 0 .. Len(t), m > 0 => IsOpen(t[m]), Becomes(p, SubSeq(t, 1, m))
      PROVE  Boxes'
  <2>1. SubSeq(t, 1, m) \in Seq(Frames)
    BY <1>5
  <2>2. ASSUME p \notin crossed'
        PROVE  Nest(SubSeq(t, 1, m))
    BY <1>3, <1>4, <1>5, <1>7, <2>2, NestOfReturned
  <2> HIDE DEF t
  <2> QED  BY <1>6, <1>7, <2>1, <2>2
<1>8. ASSUME NEW m \in 1 .. Len(t), NEW k \in Further(t[m]),
             Becomes(p, Opened(SubSeq(t, 1, m - 1), k))
      PROVE  Boxes'
  <2>1. k \in Kinds /\ t[m].kind \notin {"prompt", "notice"}
    <3> HIDE DEF t
    <3> QED  BY <1>8 DEF Further, Kinds
  <2>2. SubSeq(t, 1, m - 1) \in Seq(Frames)
    BY <1>5
  <2>3. Opened(SubSeq(t, 1, m - 1), k) \in Seq(Frames)
    BY <2>1, <2>2, OpenedIs
  <2>4. ASSUME p \notin crossed'
        PROVE  Nest(Opened(SubSeq(t, 1, m - 1), k))
    <3>1. SubSeq(t, 1, m - 1) = <<>>
      BY <1>3, <1>4, <1>5, <2>1, <2>4, BottomIsCommand
    <3> HIDE DEF t
    <3> QED  BY <2>1, <2>2, <3>1, NestOfNone, NestOfOpened
  <2> HIDE DEF t
  <2> QED  BY <1>6, <1>8, <2>3, <2>4
<1> QED  BY <1>1, <1>7, <1>8

\* A handler of a window that is gone returns, having gone on or not.
LEMMA Unwinding ==
  ASSUME Boxes, NEW p \in Procs, stage[p] = "leaving", stage'[p] = "leaving",
         stack[p] # <<>>, Becomes(p, Below(p)),
         outside' = outside, crossed' = crossed, late' \subseteq late \cup {p},
         \A q \in Procs \ {p} :
            stage'[q] = stage[q] \/ (stage[q] = "off" /\ stage'[q] = "waiting")
  PROVE  Boxes'
<1>1. p \in outside \cup crossed
  BY DEF Boxes, Alone
<1>2. Below(p) \in Seq(Frames)
  BY DEF Boxes, StackType, Below
<1> QED  BY <1>1, <1>2, StackBecomes

\* An offer to restart destroys the window of the only handler that waits.
LEMMA Restarting ==
  ASSUME Boxes, MutexType, NEW p \in Procs, NEW q \in Procs, RestartElevated(p, q)
  PROVE  Boxes'
<1>1. PICK n \in DOMAIN stack[p], a \in {"yes", "no", "closed"} :
        /\ MayReply(p, n, a)
        /\ LET t == Replied(stack[p], n, a) IN
             \E m \in 1 .. Len(t) :
                /\ Ended(t, m - 1) /\ t[m].kind = "admin" /\ t[m].answer = "yes"
                /\ Becomes(p, SubSeq(t, 1, m - 1))
        /\ crossed' = IF n < Len(stack[p]) THEN crossed \cup {p} ELSE crossed
  BY DEF RestartElevated
<1> DEFINE t == Replied(stack[p], n, a)
<1>2. PICK m \in 1 .. Len(t) : t[m].kind = "admin" /\ Becomes(p, SubSeq(t, 1, m - 1))
  BY <1>1
<1>3. /\ stage[p] = "window" /\ stage[q] = "off"
      /\ stage' = [stage EXCEPT ![p] = "leaving", ![q] = "waiting"]
      /\ outside' = outside /\ late' = late
  BY <1>1 DEF RestartElevated, MayReply, At, Begins
<1>4. /\ stack[p] \in Seq(Frames) /\ n \in 1 .. Len(stack[p]) /\ Len(stack[p]) \in Nat
      /\ stack[p] # <<>>
      /\ p \notin crossed => Nest(stack[p])
  BY <1>3 DEF Boxes, StackType, Nested
<1>5. p \notin crossed' => n = Len(stack[p]) /\ p \notin crossed
  BY <1>1, <1>4
<1>6. t \in Seq(Frames) /\ Len(t) = Len(stack[p])
  BY <1>4, RepliedIs
<1>7. SubSeq(t, 1, m - 1) \in Seq(Frames)
  BY <1>6
<1>8. ASSUME p \notin crossed'
      PROVE  SubSeq(t, 1, m - 1) = <<>>
  <2>1. t[m].kind \notin {"prompt", "notice"}
    BY <1>2
  <2> QED  BY <1>4, <1>5, <1>6, <1>8, <2>1, BottomIsCommand
<1>9. /\ stage'[p] = "leaving"
      /\ \A r \in Procs \ {p} :
           stage'[r] = stage[r] \/ (stage[r] = "off" /\ stage'[r] = "waiting")
  BY <1>3 DEF MutexType
<1>10. crossed \subseteq crossed'
  BY <1>1
<1> HIDE DEF t
<1> QED  BY <1>2, <1>3, <1>7, <1>8, <1>9, <1>10, StackBecomes

LEMMA BoxesKept ==
  ASSUME Boxes, MutexType, [Next]_vars
  PROVE  Boxes'
<1>1. CASE UNCHANGED vars
  <2>1. /\ stage' = stage /\ stack' = stack /\ late' = late
        /\ outside' = outside /\ crossed' = crossed
    BY <1>1 DEF vars, guard, loop, history
  <2> QED  BY <2>1 DEF Boxes, StackType, Waits, Nested, Alone, Nest, IsOpen
<1>2. ASSUME NEW p \in Procs, Runs(p)
      PROVE  Boxes'
  <2>1. ASSUME Wait(p) \/ CreateMutex(p) \/ GiveWay(p) \/ OpenWindow(p)
        PROVE  Boxes'
    <3>1. stack' = stack /\ outside' = outside /\ crossed' = crossed /\ late' = late
      BY <2>1 DEF Wait, CreateMutex, GiveWay, OpenWindow, loop, history
    <3>2. stage[p] \notin {"window", "leaving"}
      BY <2>1 DEF Wait, CreateMutex, GiveWay, OpenWindow, At
    <3>3. \E s \in Stages \ {"leaving"} : stage' = [stage EXCEPT ![p] = s]
      BY <2>1 DEF Wait, CreateMutex, GiveWay, OpenWindow, Goes, Stages
    <3>4. stage'[p] # "leaving" /\ \A q \in Procs \ {p} : stage'[q] = stage[q]
      BY <3>3 DEF MutexType
    <3>5. stack[p] = <<>>
      BY <3>2 DEF Boxes, Waits
    <3> QED  BY <3>1, <3>4, <3>5, StackStays
  <2>2. CASE Unwind(p)
    BY <2>2, Unwinding DEF Unwind, At, guard
  <2>3. CASE Quit(p)
    <3>1. /\ stack' = stack /\ outside' = outside /\ crossed' = crossed /\ late' = late
          /\ stack[p] = <<>> /\ stage' = [stage EXCEPT ![p] = "ended"]
      BY <2>3 DEF Quit, Goes, loop, history
    <3>2. stage'[p] = "ended" /\ \A q \in Procs \ {p} : stage'[q] = stage[q]
      BY <3>1 DEF MutexType
    <3> QED  BY <3>1, <3>2, StackStays
  <2> QED  BY <1>2, <2>1, <2>2, <2>3 DEF Runs
<1>3. ASSUME NEW p \in Procs, Polls(p)
      PROVE  Boxes'
  BY <1>3, Refreshing DEF Polls, Timer, PostedRefresh, At, guard
<1>4. ASSUME NEW p \in Procs, User(p)
      PROVE  Boxes'
  <2>1. ASSUME Start(p) \/ Answer(p) \/ Dismiss(p)
        PROVE  Boxes'
    <3>1. stack' = stack /\ outside' = outside /\ crossed' = crossed /\ late' = late
      BY <2>1 DEF Start, Answer, Dismiss, loop, history
    <3>2. stage[p] \notin {"window", "leaving"}
      BY <2>1 DEF Start, Answer, Dismiss, At
    <3>3. \E s \in Stages \ {"leaving"} : stage' = [stage EXCEPT ![p] = s]
      BY <2>1 DEF Start, Answer, Dismiss, Goes, Stages
    <3>4. stage'[p] # "leaving" /\ \A q \in Procs \ {p} : stage'[q] = stage[q]
      BY <3>3 DEF MutexType
    <3>5. stack[p] = <<>>
      BY <3>2 DEF Boxes, Waits
    <3> QED  BY <3>1, <3>4, <3>5, StackStays
  <2>2. CASE Command(p)
    <3>1. PICK k \in {"confirm", "failed", "notice", "menu"} : Opens(p, k)
      BY <2>2 DEF Command
    <3>2. /\ stage[p] = "window" /\ TakesInput(p) /\ stage' = stage
          /\ outside' = outside /\ crossed' = crossed /\ late' = late
      BY <2>2 DEF Command, TakesInput, At, guard, history
    <3>3. k \in Kinds
      BY DEF Kinds
    <3> QED  BY <3>1, <3>2, <3>3, Opening
  <2>3. CASE Close(p)
    <3>1. /\ stage' = [stage EXCEPT ![p] = "leaving"] /\ stage[p] = "window"
          /\ TakesInput(p) /\ stack' = stack
          /\ outside' = outside /\ crossed' = crossed /\ late' = late
      BY <2>3 DEF Close, TakesInput, At, Goes, Destroyed
    <3>2. stage'[p] = "leaving" /\ \A q \in Procs \ {p} : stage'[q] = stage[q]
      BY <3>1 DEF MutexType
    <3>3. stack[p] \in Seq(Frames) /\ (p \notin crossed => Nest(stack[p]))
      BY <3>1 DEF Boxes, StackType, Nested
    <3>4. p \in crossed \/ stack[p] = <<>>
      BY <3>1, <3>3, ReachedIsEmpty DEF TakesInput, Top
    <3> QED  BY <3>1, <3>2, <3>4, StackStays
  <2>4. CASE Minimize(p) \/ Restore(p)
    <3>1. /\ stack' = stack /\ stage' = stage /\ stage[p] = "window"
          /\ outside' = outside /\ crossed' = crossed /\ late' = late
      BY <2>4 DEF Minimize, Restore, At, guard, loop, history
    <3> QED  BY <3>1, StackStays
  <2>5. ASSUME NEW n \in DOMAIN stack[p], Reply(p, n)
        PROVE  Boxes'
    BY <2>5, Replying
  <2>6. ASSUME NEW q \in Procs, RestartElevated(p, q)
        PROVE  Boxes'
    BY <2>6, Restarting
  <2>7. ASSUME NEW q \in Procs, RestartLate(p, q)
        PROVE  Boxes'
    <3>1. /\ stage[p] = "leaving" /\ stage[q] = "off" /\ stack[p] # <<>>
          /\ stage' = [stage EXCEPT ![q] = "waiting"] /\ Becomes(p, Below(p))
          /\ late' = late \cup {p} /\ outside' = outside /\ crossed' = crossed
      BY <2>7 DEF RestartLate, At, Goes, Begins
    <3>2. /\ stage'[p] = "leaving"
          /\ \A r \in Procs \ {p} :
               stage'[r] = stage[r] \/ (stage[r] = "off" /\ stage'[r] = "waiting")
      BY <3>1 DEF MutexType
    <3> QED  BY <3>1, <3>2, Unwinding
  <2> QED  BY <1>4, <2>1, <2>2, <2>3, <2>4, <2>5, <2>6, <2>7 DEF User
<1>5. ASSUME NEW p \in Procs, Environment(p)
      PROVE  Boxes'
  <2>1. CASE CreateFails(p)
    <3>1. /\ stage' = [stage EXCEPT ![p] = "dialog"] /\ stage[p] \in {"locking", "locked"}
          /\ stack' = stack /\ outside' = outside /\ crossed' = crossed /\ late' = late
      BY <2>1 DEF CreateFails, Goes, loop
    <3>2. stage'[p] = "dialog" /\ \A q \in Procs \ {p} : stage'[q] = stage[q]
      BY <3>1 DEF MutexType
    <3>3. stack[p] = <<>>
      BY <3>1 DEF Boxes, Waits
    <3> QED  BY <3>1, <3>2, <3>3, StackStays
  <2>2. CASE Killed(p)
    <3>1. /\ stage' = [stage EXCEPT ![p] = "ended"] /\ Becomes(p, <<>>)
          /\ outside' = outside /\ crossed' = crossed /\ late' = late
      BY <2>2 DEF Killed, Goes, Becomes
    <3>2. stage'[p] = "ended" /\ \A q \in Procs \ {p} : stage'[q] = stage[q]
      BY <3>1 DEF MutexType
    <3>3. <<>> \in Seq(Frames)
      OBVIOUS
    <3> QED  BY <3>1, <3>2, <3>3, StackBecomes
  <2>3. CASE Age(p)
    <3>1. /\ stack' = stack /\ stage' = stage /\ stage[p] = "window"
          /\ outside' = outside /\ crossed' = crossed /\ late' = late
      BY <2>3 DEF Age, At, guard, loop
    <3> QED  BY <3>1, StackStays
  <2>4. CASE DetailReady(p)
    <3>1. /\ stage[p] = "window" /\ stage' = stage /\ Opens(p, "notice")
          /\ outside' = outside /\ crossed' = crossed /\ late' = late
      BY <2>4 DEF DetailReady, At, guard, history
    <3> QED  BY <3>1, Opening DEF Kinds
  <2>5. CASE CloseFromOutside(p)
    <3>1. /\ stage' = [stage EXCEPT ![p] = "leaving"] /\ stage[p] = "window"
          /\ stack' = stack /\ outside' = outside \cup {p}
          /\ crossed' = crossed /\ late' = late
      BY <2>5 DEF CloseFromOutside, At, Goes, Destroyed
    <3>2. stage'[p] = "leaving" /\ \A q \in Procs \ {p} : stage'[q] = stage[q]
      BY <3>1 DEF MutexType
    <3> QED  BY <3>1, <3>2, StackStays
  <2> QED  BY <1>5, <2>1, <2>2, <2>3, <2>4, <2>5 DEF Environment
<1> QED  BY <1>1, <1>2, <1>3, <1>4, <1>5 DEF Next

LEMMA BoxesInit ==
  ASSUME Init
  PROVE  Boxes
<1>1. stack \in [Procs -> Seq(Frames)] /\ late = {}
  BY DEF Init
<1>2. \A p \in Procs : stack[p] = <<>> /\ stage[p] = "off"
  BY DEF Init
<1> QED  BY <1>1, <1>2 DEF Boxes, StackType, Waits, Nested, Alone

-----------------------------------------------------------------------------
(* Types *)

\* What belongs to a window goes with it.
Windowed ==
    /\ asked \subseteq Procs /\ iconic \subseteq Procs /\ timer \subseteq Procs
    /\ posted \subseteq Procs /\ stale \subseteq Procs
    /\ \A p \in Procs : stage[p] # "window" =>
         p \notin asked /\ p \notin iconic /\ p \notin timer /\ p \notin posted /\ p \notin stale
    /\ timer = active

Marks ==
    /\ replaces \in [Procs -> Procs \cup {NoOne}]
    /\ late \subseteq Procs /\ outside \subseteq Procs
    /\ crossed \subseteq Procs /\ hindered \subseteq Procs

\* A step of p that sets no sets of windows, and closes none but p's empty one.
LEMMA NoWindowBefore ==
  ASSUME MutexType, Windowed, NEW p \in Procs, NEW s \in Stages,
         stage[p] # "window", stage' = [stage EXCEPT ![p] = s], UNCHANGED polling,
         asked' = asked, stale' = stale
  PROVE  Windowed'
BY DEF MutexType, Windowed, polling

\* A step of p that takes its window away.
LEMMA NoWindowAfter ==
  ASSUME MutexType, Windowed, NEW p \in Procs, NoWindow(p),
         \A q \in Procs : q # p /\ stage[q] = "window" => stage'[q] = "window"
  PROVE  Windowed'
BY DEF MutexType, Windowed, NoWindow

\* A step of p that leaves the stages alone, and has a window.
LEMMA WindowStays ==
  ASSUME Windowed, NEW p \in Procs, stage[p] = "window", stage' = stage,
         asked' \subseteq asked \cup {p}, iconic' \subseteq iconic \cup {p},
         timer' \subseteq timer \cup {p}, posted' \subseteq posted \cup {p},
         stale' \subseteq stale \cup {p}, timer' = active'
  PROVE  Windowed'
BY DEF Windowed

LEMMA WindowedKept ==
  ASSUME MutexType, Windowed, [Next]_vars
  PROVE  Windowed'
<1>1. CASE UNCHANGED vars
  BY <1>1 DEF vars, guard, loop, polling, history, Windowed
<1>2. ASSUME NEW p \in Procs, Runs(p)
      PROVE  Windowed'
  <2>1. CASE Wait(p) \/ CreateMutex(p) \/ GiveWay(p) \/ Quit(p)
    <3>1. \E s \in Stages : stage' = [stage EXCEPT ![p] = s]
      BY <2>1 DEF Wait, CreateMutex, GiveWay, Quit, Goes, Stages
    <3>2. stage[p] # "window" /\ UNCHANGED polling /\ asked' = asked /\ stale' = stale
      BY <2>1 DEF Wait, CreateMutex, GiveWay, Quit, At, loop, history
    <3> QED  BY <3>1, <3>2, NoWindowBefore
  <2>2. CASE OpenWindow(p)
    <3>1. /\ stage[p] = "locked" /\ stage' = [stage EXCEPT ![p] = "window"]
          /\ asked' \subseteq asked \cup {p} /\ timer' = timer \cup {p}
          /\ active' = active \cup {p} /\ posted' = posted \cup {p}
          /\ iconic' = iconic /\ stale' = stale
      BY <2>2 DEF OpenWindow, At, Goes, history
    <3> QED  BY <3>1 DEF MutexType, Windowed
  <2>3. CASE Unwind(p)
    BY <2>3 DEF Unwind, guard, polling, Windowed
  <2> QED  BY <1>2, <2>1, <2>2, <2>3 DEF Runs
<1>3. ASSUME NEW p \in Procs, Polls(p)
      PROVE  Windowed'
  <2>1. CASE Timer(p)
    <3>1. /\ stage[p] = "window" /\ stage' = stage /\ UNCHANGED polling
          /\ asked' \subseteq asked \cup {p} /\ stale' \subseteq stale
      BY <2>1 DEF Timer, Refresh, At, guard, loop
    <3> QED  BY <3>1, WindowStays DEF polling, Windowed
  <2>2. CASE PostedRefresh(p)
    <3>1. /\ stage[p] = "window" /\ stage' = stage /\ posted' = posted \ {p}
          /\ iconic' = iconic /\ timer' = timer /\ active' = active
          /\ asked' \subseteq asked \cup {p} /\ stale' \subseteq stale
      BY <2>2 DEF PostedRefresh, Refresh, At, guard, loop
    <3> QED  BY <3>1, WindowStays DEF Windowed
  <2> QED  BY <1>3, <2>1, <2>2 DEF Polls
<1>4. ASSUME NEW p \in Procs, User(p)
      PROVE  Windowed'
  <2>1. CASE Start(p) \/ Answer(p) \/ Dismiss(p)
    <3>1. \E s \in Stages : stage' = [stage EXCEPT ![p] = s]
      BY <2>1 DEF Start, Answer, Dismiss, Goes, Stages
    <3>2. stage[p] # "window" /\ UNCHANGED polling /\ asked' = asked /\ stale' = stale
      BY <2>1 DEF Start, Answer, Dismiss, At, loop, history
    <3> QED  BY <3>1, <3>2, NoWindowBefore
  <2>2. CASE Command(p)
    BY <2>2 DEF Command, guard, polling, history, Windowed
  <2>3. CASE Close(p)
    <3>1. NoWindow(p) /\ stage' = [stage EXCEPT ![p] = "leaving"]
      BY <2>3 DEF Close, Goes, Destroyed
    <3> QED  BY <3>1, NoWindowAfter DEF MutexType
  <2>4. CASE Minimize(p) \/ Restore(p)
    <3>1. /\ stage[p] = "window" /\ stage' = stage /\ asked' = asked /\ stale' = stale
          /\ iconic' \subseteq iconic \cup {p}
      BY <2>4 DEF Minimize, Restore, At, guard, loop, history
    <3>2. CASE Minimize(p)
      BY <3>1, <3>2, WindowStays DEF Minimize, Windowed
    <3>3. CASE Restore(p)
      BY <3>1, <3>3, WindowStays DEF Restore, Windowed
    <3> QED  BY <2>4, <3>2, <3>3
  <2>5. ASSUME NEW q \in Procs, RestartElevated(p, q)
        PROVE  Windowed'
    <3>1. /\ NoWindow(p) /\ stage[q] = "off"
          /\ stage' = [stage EXCEPT ![p] = "leaving", ![q] = "waiting"]
      BY <2>5 DEF RestartElevated, At, Begins
    <3>2. \A r \in Procs : r # p /\ stage[r] = "window" => stage'[r] = "window"
      BY <3>1 DEF MutexType
    <3> QED  BY <3>1, <3>2, NoWindowAfter
  <2>6. ASSUME NEW n \in DOMAIN stack[p], Reply(p, n)
        PROVE  Windowed'
    BY <2>6 DEF Reply, guard, polling, Windowed
  <2>7. ASSUME NEW q \in Procs, RestartLate(p, q)
        PROVE  Windowed'
    <3>1. /\ stage[q] = "off" /\ stage' = [stage EXCEPT ![q] = "waiting"]
          /\ UNCHANGED polling /\ asked' = asked /\ stale' = stale
      BY <2>7 DEF RestartLate, At, Goes, Begins
    <3> QED  BY <3>1, NoWindowBefore DEF Stages
  <2> QED  BY <1>4, <2>1, <2>2, <2>3, <2>4, <2>5, <2>6, <2>7 DEF User
<1>5. ASSUME NEW p \in Procs, Environment(p)
      PROVE  Windowed'
  <2>1. CASE CreateFails(p)
    <3>1. /\ stage[p] # "window" /\ stage' = [stage EXCEPT ![p] = "dialog"]
          /\ UNCHANGED polling /\ asked' = asked /\ stale' = stale
      BY <2>1 DEF CreateFails, Goes, loop
    <3> QED  BY <3>1, NoWindowBefore DEF Stages
  <2>2. CASE Killed(p)
    <3>1. NoWindow(p) /\ stage' = [stage EXCEPT ![p] = "ended"]
      BY <2>2 DEF Killed, Goes
    <3> QED  BY <3>1, NoWindowAfter DEF MutexType
  <2>3. CASE Age(p)
    <3>1. /\ stage[p] = "window" /\ stage' = stage /\ asked' = asked
          /\ stale' = stale \cup {p} /\ UNCHANGED polling
      BY <2>3 DEF Age, At, guard, loop
    <3> QED  BY <3>1, WindowStays DEF polling, Windowed
  <2>4. CASE DetailReady(p)
    BY <2>4 DEF DetailReady, guard, polling, history, Windowed
  <2>5. CASE CloseFromOutside(p)
    <3>1. NoWindow(p) /\ stage' = [stage EXCEPT ![p] = "leaving"]
      BY <2>5 DEF CloseFromOutside, Goes, Destroyed
    <3> QED  BY <3>1, NoWindowAfter DEF MutexType
  <2> QED  BY <1>5, <2>1, <2>2, <2>3, <2>4, <2>5 DEF Environment
<1> QED  BY <1>1, <1>2, <1>3, <1>4, <1>5 DEF Next

LEMMA MarksKept ==
  ASSUME Marks, [Next]_vars
  PROVE  Marks'
<1>1. CASE UNCHANGED vars
  BY <1>1 DEF vars, guard, loop, polling, history, Marks
<1>2. ASSUME NEW p \in Procs, Runs(p)
      PROVE  Marks'
  BY <1>2 DEF Runs, Wait, CreateMutex, GiveWay, OpenWindow, Unwind, Quit, guard, history, Marks
<1>3. ASSUME NEW p \in Procs, Polls(p)
      PROVE  Marks'
  BY <1>3 DEF Polls, Timer, PostedRefresh, guard, Marks
<1>4. ASSUME NEW p \in Procs, User(p)
      PROVE  Marks'
  <2>1. CASE Start(p) \/ Answer(p) \/ Dismiss(p)
    BY <2>1 DEF Start, Answer, Dismiss, history, Marks
  <2>2. CASE Command(p) \/ Minimize(p) \/ Restore(p)
    BY <2>2 DEF Command, Minimize, Restore, guard, history, Marks
  <2>3. CASE Close(p)
    BY <2>3 DEF Close, Marks
  <2>4. ASSUME NEW q \in Procs, RestartElevated(p, q)
        PROVE  Marks'
    BY <2>4 DEF RestartElevated, Marks
  <2>5. ASSUME NEW n \in DOMAIN stack[p], Reply(p, n)
        PROVE  Marks'
    BY <2>5 DEF Reply, guard, Marks
  <2>6. ASSUME NEW q \in Procs, RestartLate(p, q)
        PROVE  Marks'
    BY <2>6 DEF RestartLate, Marks
  <2> QED  BY <1>4, <2>1, <2>2, <2>3, <2>4, <2>5, <2>6 DEF User
<1>5. ASSUME NEW p \in Procs, Environment(p)
      PROVE  Marks'
  BY <1>5 DEF Environment, CreateFails, Killed, Age, DetailReady, CloseFromOutside,
              guard, history, Marks
<1> QED  BY <1>1, <1>2, <1>3, <1>4, <1>5 DEF Next

LEMMA TypesInit ==
  ASSUME Init
  PROVE  Windowed /\ Marks
BY DEF Init, Windowed, Marks

-----------------------------------------------------------------------------
(* Theorems *)

\* OneWindow: "One process, one window".
THEOREM OneAtATime == Spec => []OneWindow
<1>1. Init => Mutex
  BY MutexInit
<1>2. Mutex /\ [Next]_vars => Mutex'
  BY MutexKept
<1>3. Mutex => OneWindow
  BY SoleWindow
<1> QED  BY <1>1, <1>2, <1>3, PTL DEF Spec

\* StateOutlivesHandlers: a handler uses AppState after its drop only if a box
\* was answered before one that opened over it, or the window was closed from
\* outside under a box.
THEOREM HandlersOutlived == Spec => []StateOutlivesHandlers
<1>1. Init => Mutex /\ Boxes
  BY MutexInit, BoxesInit
<1>2. Mutex /\ Boxes /\ [Next]_vars => (Mutex /\ Boxes)'
  BY MutexKept, BoxesKept DEF Mutex
<1>3. Boxes => StateOutlivesHandlers
  BY DEF Boxes, StateOutlivesHandlers
<1> QED  BY <1>1, <1>2, <1>3, PTL DEF Spec

\* TypeOK: every variable keeps its type, and what belongs to a window or a
\* handle goes with it.
THEOREM TypeCorrect == Spec => []TypeOK
<1>1. Init => Mutex /\ Boxes /\ Windowed /\ Marks
  BY MutexInit, BoxesInit, TypesInit
<1>2. Mutex /\ Boxes /\ Windowed /\ Marks /\ [Next]_vars => (Mutex /\ Boxes /\ Windowed /\ Marks)'
  BY MutexKept, BoxesKept, WindowedKept, MarksKept DEF Mutex
<1>3. Mutex /\ Boxes /\ Windowed /\ Marks => TypeOK
  <2>1. ASSUME Windowed
        PROVE  \A s \in {asked, iconic, timer, posted, stale} : s \subseteq {p \in Procs : At(p, "window")}
    BY <2>1 DEF Windowed, At
  <2> QED  BY <2>1 DEF Mutex, MutexType, Boxes, StackType, Windowed, Marks, TypeOK
<1> QED  BY <1>1, <1>2, <1>3, PTL DEF Spec
=============================================================================
