------------------------------ MODULE Lifetime ------------------------------
(***************************************************************************)
(* The life of a ProcDrift process: src/main.rs (invocation, run,          *)
(* restart_elevated) and the part of src/app.rs that the window's life     *)
(* depends on (state, window_proc, refresh, set_minimized, and the message *)
(* boxes and the menu that the handlers open).                             *)
(*                                                                         *)
(* Processes of one session share a named mutex, of which only the         *)
(* existence counts: it is there while some process has a handle to it.    *)
(* Inside one process everything is one thread, but a box or a menu is a   *)
(* message loop in a handler: stack[p] are the handlers that wait, each    *)
(* with a reference to the same AppState, which WM_NCDESTROY drops.  The   *)
(* boxes all have the main window as owner, so one does not disable        *)
(* another: any of them can be answered, though only the innermost returns *)
(* then, and the one that disabled the window enables it when answered.    *)
(*                                                                         *)
(* Abstracted: scans succeed, and those of a command that was carried out  *)
(* are left out; the drop of AppState, which joins the details worker, is  *)
(* DetailWorker's and takes any time here.                                 *)
(***************************************************************************)
EXTENDS Naturals, Sequences, FiniteSets

CONSTANTS
    Procs,     \* processes that may be started, each once
    NoOne,
    MaxDepth   \* bound: by process, the handlers that wait after a box opens

ASSUME LifetimeAssumption == NoOne \notin Procs /\ MaxDepth \in [Procs -> Nat]

\* Where a process is in run():
\*   off      not started              dialog   shows a box without a window
\*   waiting  for the one it replaces  window   in the message loop
\*   locking  before CreateMutexW      leaving  the window is destroyed
\*   locked   has a handle             ended
Stages == {"off", "waiting", "locking", "locked", "dialog", "window", "leaving", "ended"}

\* What a handler waits for: the first-run prompt, a confirmation, the box
\* "Process action failed" of an action that was denied, the offer to restart,
\* any box after which the handler only returns (that of another failure and a
\* detail box too), the context menu.
Kinds == {"prompt", "confirm", "failed", "admin", "notice", "menu"}

\* How it was answered.  A prompt, a notice and a failure go on the same way
\* whatever the answer, so only theirs is "closed".
Replies(k) == IF k \in {"confirm", "admin", "menu"} THEN {"yes", "no"} ELSE {"closed"}

\* disables: this box disabled the window, and enables it when it is answered.
Frames == [kind : Kinds, answer : {"open", "yes", "no", "closed"}, disables : BOOLEAN]

VARIABLES
    stage,     \* by process
    replaces,  \* the process it was started to replace
    handles,   \* the processes with a handle to the mutex
    found,     \* ERROR_ALREADY_EXISTS was the last error of CreateMutexW
    stack,     \* the handlers that wait, innermost last
    asked,     \* onboarding_done
    iconic,    \* the window is minimized
    timer,     \* the scan timer is set
    active,    \* AppState.timer_active
    posted,    \* a WM_REFRESH waits
    stale,     \* history: time passed since the last scan
    late,      \* history: a handler used AppState after its drop
    outside,   \* history: WM_CLOSE came from outside, under a box or menu
    crossed,   \* history: a box was answered before one that opened over it
    hindered   \* history: something beside the program kept it from a window

guard   == <<stage, replaces, handles, found>>
loop    == <<stack, asked>>
polling == <<iconic, timer, active, posted>>
history == <<stale, late, outside, crossed, hindered>>

vars == <<guard, loop, polling, history>>

Init ==
    /\ stage = [p \in Procs |-> "off"]
    /\ replaces = [p \in Procs |-> NoOne]
    /\ stack = [p \in Procs |-> <<>>]
    /\ handles = {} /\ found = {} /\ asked = {}
    /\ iconic = {} /\ timer = {} /\ active = {} /\ posted = {}
    /\ stale = {} /\ late = {} /\ outside = {} /\ crossed = {} /\ hindered = {}

At(p, s)    == stage[p] = s
Goes(p, s)  == stage' = [stage EXCEPT ![p] = s]
Top(p)      == stack[p][Len(stack[p])]
Below(p)    == SubSeq(stack[p], 1, Len(stack[p]) - 1)
Becomes(p, t) == stack' = [stack EXCEPT ![p] = t]

IsOpen(f) == f.answer = "open"

\* EnableWindow(FALSE) was called for a box that is still there.
Disabled(t) == \E n \in DOMAIN t : IsOpen(t[n]) /\ t[n].disables

\* A box disables its owner unless another has, which cancels an open menu.
Opened(t, k) ==
    Append([n \in DOMAIN t |-> IF t[n].kind = "menu" /\ k # "menu"
                                 THEN [t[n] EXCEPT !.answer = IF @ = "open" THEN "no" ELSE @]
                                 ELSE t[n]],
           [kind |-> k, answer |-> "open", disables |-> k # "menu" /\ ~Disabled(t)])

Opens(p, k) == Becomes(p, Opened(stack[p], k))

\* p has no window and no AppState.
NoWindow(p) ==
    /\ iconic' = iconic \ {p} /\ timer' = timer \ {p}
    /\ active' = active \ {p} /\ posted' = posted \ {p}
    /\ asked' = asked \ {p} /\ stale' = stale \ {p}

-----------------------------------------------------------------------------
(* run(), up to the window *)

\* Invocation::Open(None): the user starts ProcDrift.
Start(p) ==
    /\ At(p, "off")
    /\ Goes(p, "locking")
    /\ UNCHANGED <<replaces, handles, found>>
    /\ UNCHANGED loop /\ UNCHANGED polling /\ UNCHANGED history

\* --version, --help, or arguments that are refused: one box, and no mutex.
Answer(p) ==
    /\ At(p, "off")
    /\ Goes(p, "dialog")
    /\ UNCHANGED <<replaces, handles, found>>
    /\ UNCHANGED loop /\ UNCHANGED polling /\ UNCHANGED history

\* WaitForSingleObject returns, because the process it replaces ended or
\* because five seconds are over, or OpenProcess failed.
Wait(p) ==
    /\ At(p, "waiting")
    /\ Goes(p, "locking")
    /\ hindered' = IF At(replaces[p], "ended") THEN hindered ELSE hindered \cup {p}
    /\ UNCHANGED <<replaces, handles, found, stale, late, outside, crossed>>
    /\ UNCHANGED loop /\ UNCHANGED polling

NeverExists == FALSE

\* The mutex exists.
Exists == handles # {}

CreateMutex(p) ==
    /\ At(p, "locking")
    /\ Goes(p, "locked")
    /\ handles' = handles \cup {p}
    /\ found' = IF Exists THEN found \cup {p} ELSE found
    /\ hindered' = IF handles \subseteq {replaces[p]} THEN hindered ELSE hindered \cup {p}
    /\ UNCHANGED <<replaces, stale, late, outside, crossed>>
    /\ UNCHANGED loop /\ UNCHANGED polling

\* CreateMutexW, RegisterClassW or CreateWindowExW fails: an error box.  What
\* handle there is stays open until the process ends.
CreateFails(p) ==
    /\ stage[p] \in {"locking", "locked"} /\ p \notin found
    /\ Goes(p, "dialog")
    /\ hindered' = hindered \cup {p}
    /\ UNCHANGED <<replaces, handles, found, stale, late, outside, crossed>>
    /\ UNCHANGED loop /\ UNCHANGED polling

\* The mutex was there: close the handle and leave without a word.
GiveWay(p) ==
    /\ At(p, "locked") /\ p \in found
    /\ Goes(p, "ended")
    /\ handles' = handles \ {p}
    /\ found' = found \ {p}
    /\ UNCHANGED replaces
    /\ UNCHANGED loop /\ UNCHANGED polling /\ UNCHANGED history

\* CreateWindowExW and WM_CREATE.  A first run was answered before, or not.
OpenWindow(p) ==
    /\ At(p, "locked") /\ p \notin found
    /\ Goes(p, "window")
    /\ asked' \in {asked, asked \cup {p}}
    /\ timer' = timer \cup {p}
    /\ active' = active \cup {p}
    /\ posted' = posted \cup {p}
    /\ UNCHANGED <<replaces, handles, found, stack, iconic>> /\ UNCHANGED history

Dismiss(p) ==
    /\ At(p, "dialog")
    /\ Goes(p, "ended")
    /\ handles' = handles \ {p}
    /\ UNCHANGED <<replaces, found>>
    /\ UNCHANGED loop /\ UNCHANGED polling /\ UNCHANGED history

\* The process is ended from outside; Windows closes what it had open.
Killed(p) ==
    /\ stage[p] \notin {"off", "ended"}
    /\ Goes(p, "ended")
    /\ handles' = handles \ {p}
    /\ found' = found \ {p}
    /\ stack' = [stack EXCEPT ![p] = <<>>]
    /\ NoWindow(p)
    /\ hindered' = hindered \cup {p}
    /\ UNCHANGED <<replaces, late, outside, crossed>>

-----------------------------------------------------------------------------
(* refresh, the timer and set_minimized *)

\* refresh: nothing while minimized, else a scan, and the first time the
\* prompt, whose box runs a message loop of its own.
Refresh(p) ==
    IF p \in iconic THEN UNCHANGED <<stale, loop>>
    ELSE /\ stale' = stale \ {p}
         /\ IF p \in asked THEN UNCHANGED loop
            ELSE Opens(p, "prompt") /\ asked' = asked \cup {p}

\* WM_TIMER, in whichever message loop runs.
Timer(p) ==
    /\ At(p, "window") /\ p \in timer
    /\ Refresh(p)
    /\ UNCHANGED guard /\ UNCHANGED polling /\ UNCHANGED <<late, outside, crossed, hindered>>

\* WM_REFRESH.
PostedRefresh(p) ==
    /\ At(p, "window") /\ p \in posted
    /\ posted' = posted \ {p}
    /\ Refresh(p)
    /\ UNCHANGED guard /\ UNCHANGED <<iconic, timer, active>>
    /\ UNCHANGED <<late, outside, crossed, hindered>>

\* A second passes.
Age(p) ==
    /\ At(p, "window")
    /\ stale' = stale \cup {p}
    /\ UNCHANGED guard /\ UNCHANGED loop /\ UNCHANGED polling
    /\ UNCHANGED <<late, outside, crossed, hindered>>

\* WM_SIZE with SIZE_MINIMIZED, also under a box.
Minimize(p) ==
    /\ At(p, "window") /\ p \notin iconic
    /\ iconic' = iconic \cup {p}
    /\ IF p \in active
         THEN timer' = timer \ {p} /\ active' = active \ {p}
         ELSE UNCHANGED <<timer, active>>
    /\ UNCHANGED posted
    /\ UNCHANGED guard /\ UNCHANGED loop /\ UNCHANGED history

RestoreOnce(p) ==
    /\ At(p, "window") /\ p \in iconic
    /\ iconic' = iconic \ {p}
    /\ IF p \in active
         THEN UNCHANGED <<timer, active, posted>>
         ELSE /\ active' = active \cup {p}
              /\ posted' = posted \cup {p}
              /\ UNCHANGED timer
    /\ UNCHANGED guard /\ UNCHANGED loop /\ UNCHANGED history

Restore(p) ==
    /\ At(p, "window") /\ p \in iconic
    /\ iconic' = iconic \ {p}
    /\ IF p \in active
         THEN UNCHANGED <<timer, active, posted>>
         ELSE /\ timer' = timer \cup {p}
              /\ active' = active \cup {p}
              /\ posted' = posted \cup {p}
    /\ UNCHANGED guard /\ UNCHANGED loop /\ UNCHANGED history

-----------------------------------------------------------------------------
(* Handlers that wait *)

TakesInputAlways(p) == At(p, "window")

\* The user reaches the window itself: no box disables it, and no menu takes
\* the input.
TakesInput(p) ==
    /\ At(p, "window") /\ ~Disabled(stack[p])
    /\ stack[p] # <<>> => Top(p).kind # "menu"

\* A command of the user opens a box, or a right click the menu.
Command(p) ==
    /\ TakesInput(p) /\ Len(stack[p]) < MaxDepth[p]
    /\ \E k \in {"confirm", "failed", "notice", "menu"} : Opens(p, k)
    /\ UNCHANGED guard /\ UNCHANGED asked /\ UNCHANGED polling /\ UNCHANGED history

\* WM_DETAILS_READY for the selected row, in whichever message loop runs.
DetailReady(p) ==
    /\ At(p, "window") /\ Len(stack[p]) < MaxDepth[p]
    /\ Opens(p, "notice")
    /\ UNCHANGED guard /\ UNCHANGED asked /\ UNCHANGED polling /\ UNCHANGED history

\* The n-th box or menu, not necessarily the innermost, may be answered with a;
\* while a menu is open it takes the input.
MayReply(p, n, a) ==
    /\ At(p, "window") /\ IsOpen(stack[p][n])
    /\ Top(p).kind = "menu" => n = Len(stack[p])
    /\ a \in Replies(stack[p][n].kind)

\* The box goes, and with it what it disabled.
Replied(t, n, a) == [t EXCEPT ![n].answer = a, ![n].disables = FALSE]

\* The loops of all boxes above the m-th end, innermost first.
Ended(t, m) == \A n \in (m + 1) .. Len(t) : ~IsOpen(t[n])

\* The boxes a handler may go on to: a menu to those of its command, a
\* confirmation to the failure of what was confirmed, and an action that was
\* denied to the offer to restart.
Further(f) ==
    CASE f.kind = "menu" /\ f.answer = "yes"    -> {"confirm", "failed", "notice"}
      [] f.kind = "confirm" /\ f.answer = "yes" -> {"failed", "notice"}
      [] f.kind = "failed"                      -> {"admin"}
      [] OTHER                                  -> {}

\* The user answers a box.  Handlers return, and no message comes in between,
\* until one waits for a box that is open, or goes on to a further one.
Reply(p, n) ==
    /\ \E a \in {"yes", "no", "closed"} :
         /\ MayReply(p, n, a)
         /\ LET t == Replied(stack[p], n, a) IN
              \/ \E m \in 0 .. Len(t) :
                   /\ Ended(t, m) /\ (m > 0 => IsOpen(t[m]))
                   /\ Becomes(p, SubSeq(t, 1, m))
              \/ \E m \in 1 .. Len(t) :
                   /\ Ended(t, m - 1)
                   /\ \E k \in Further(t[m]) : Becomes(p, Opened(SubSeq(t, 1, m - 1), k))
    /\ crossed' = IF n < Len(stack[p]) THEN crossed \cup {p} ELSE crossed
    /\ UNCHANGED guard /\ UNCHANGED asked /\ UNCHANGED polling
    /\ UNCHANGED <<stale, late, outside, hindered>>

-----------------------------------------------------------------------------
(* The end of the window *)

\* DestroyWindow: WM_DESTROY posts WM_QUIT, WM_NCDESTROY drops AppState, and
\* the handlers that wait are still on the stack.
Destroyed(p) == NoWindow(p) /\ UNCHANGED stack

\* WM_CLOSE by the user.
Close(p) ==
    /\ TakesInput(p)
    /\ Goes(p, "leaving")
    /\ Destroyed(p)
    /\ UNCHANGED <<replaces, handles, found, late, outside, crossed, hindered>>

\* WM_CLOSE posted by another program reaches a disabled window as well, in
\* the message loop of the innermost box or menu.
CloseFromOutside(p) ==
    /\ At(p, "window") /\ stack[p] # <<>>
    /\ Goes(p, "leaving")
    /\ Destroyed(p)
    /\ outside' = outside \cup {p}
    /\ UNCHANGED <<replaces, handles, found, late, crossed, hindered>>

\* The handler of f uses AppState after its box: to record or save the answer
\* of the prompt, to carry out what was confirmed, to show the offer after an
\* action that was denied, and to hand its window to restart_elevated.
GoesOn(f) ==
    \/ f.kind \in {"prompt", "failed"}
    \/ f.kind \in {"confirm", "admin"} /\ f.answer = "yes"

BeginsAtOnce == "locking"

\* --replace-instance: the replacement waits before it asks for the mutex.
Begins == "waiting"

\* restart_elevated with the user's consent: p starts q, destroys its own
\* window from inside the handler, and returns to those that are left.
RestartElevated(p, q) ==
    /\ At(q, "off")
    /\ stage' = [stage EXCEPT ![p] = "leaving", ![q] = Begins]
    /\ replaces' = [replaces EXCEPT ![q] = p]
    /\ \E n \in DOMAIN stack[p], a \in {"yes", "no", "closed"} :
         /\ MayReply(p, n, a)
         /\ LET t == Replied(stack[p], n, a) IN
              \E m \in 1 .. Len(t) :
                 /\ Ended(t, m - 1) /\ t[m].kind = "admin" /\ t[m].answer = "yes"
                 /\ Becomes(p, SubSeq(t, 1, m - 1))
         /\ crossed' = IF n < Len(stack[p]) THEN crossed \cup {p} ELSE crossed
    /\ NoWindow(p)
    /\ UNCHANGED <<handles, found, late, outside, hindered>>

\* The same, by a handler that was answered before the window was gone.
RestartLate(p, q) ==
    /\ At(p, "leaving") /\ At(q, "off")
    /\ stack[p] # <<>> /\ Top(p).kind = "admin" /\ Top(p).answer = "yes"
    /\ Goes(q, Begins)
    /\ replaces' = [replaces EXCEPT ![q] = p]
    /\ Becomes(p, Below(p))
    /\ late' = late \cup {p}
    /\ UNCHANGED <<handles, found, outside, crossed, hindered, stale>>
    /\ UNCHANGED asked /\ UNCHANGED polling

\* The boxes of a destroyed window close, and their handlers go on with what
\* they were answered.
Unwind(p) ==
    /\ At(p, "leaving") /\ stack[p] # <<>>
    /\ Becomes(p, Below(p))
    /\ late' = IF GoesOn(Top(p)) THEN late \cup {p} ELSE late
    /\ UNCHANGED guard /\ UNCHANGED asked /\ UNCHANGED polling
    /\ UNCHANGED <<stale, outside, crossed, hindered>>

\* GetMessageW finds WM_QUIT; run() closes the handle and returns.
Quit(p) ==
    /\ At(p, "leaving") /\ stack[p] = <<>>
    /\ Goes(p, "ended")
    /\ handles' = handles \ {p}
    /\ UNCHANGED <<replaces, found>>
    /\ UNCHANGED loop /\ UNCHANGED polling /\ UNCHANGED history

-----------------------------------------------------------------------------

\* What run() does by itself, and what a message loop dispatches.
Runs(p) ==
    \/ Wait(p) \/ CreateMutex(p) \/ GiveWay(p) \/ OpenWindow(p)
    \/ Unwind(p) \/ Quit(p)
Polls(p) == Timer(p) \/ PostedRefresh(p)

User(p) ==
    \/ Start(p) \/ Answer(p) \/ Dismiss(p)
    \/ Command(p) \/ Close(p) \/ Minimize(p) \/ Restore(p)
    \/ \E n \in DOMAIN stack[p] : Reply(p, n)
    \/ \E q \in Procs : RestartElevated(p, q) \/ RestartLate(p, q)

Environment(p) ==
    CreateFails(p) \/ Killed(p) \/ Age(p) \/ DetailReady(p) \/ CloseFromOutside(p)

Next == \E p \in Procs : Runs(p) \/ Polls(p) \/ User(p) \/ Environment(p)

\* A process that can run does, and a message loop, of the window or of a box,
\* dispatches what is there.  Nothing is assumed of the user.
Fairness == \A p \in Procs : WF_vars(Runs(p)) /\ WF_vars(Polls(p))

Spec == Init /\ [][Next]_vars /\ Fairness

-----------------------------------------------------------------------------
(* Properties *)

\* Every variable keeps its type, the timer is set just when timer_active says
\* so, and what belongs to a window or a handle goes with it.
TypeOK ==
    /\ stage \in [Procs -> Stages]
    /\ replaces \in [Procs -> Procs \cup {NoOne}]
    /\ stack \in [Procs -> Seq(Frames)]
    /\ \A s \in {asked, iconic, timer, posted, stale} :
         s \subseteq {p \in Procs : At(p, "window")}
    /\ timer = active
    /\ found \subseteq handles /\ handles \subseteq Procs
    /\ \A s \in {late, outside, crossed, hindered} : s \subseteq Procs

\* README.md: "One process, one window".  From the window's creation until it
\* is destroyed and every handler has returned, no other process has one,
\* though the mutex is not owned by anybody and a process that gives way holds
\* a handle to it for a moment.
OneWindow ==
    \A p, q \in Procs :
        stage[p] \in {"window", "leaving"} /\ stage[q] \in {"window", "leaving"} => p = q

\* AppState is "dropped in WM_NCDESTROY", with handlers on the stack that have
\* a reference to it.  None of them uses it after that, although commands,
\* refreshes and results open boxes under one another and RestartElevated
\* destroys the window from inside a handler: as long as the boxes are answered
\* from the innermost on, and nobody posts WM_CLOSE to the window under one.
\* Both exceptions are needed, and the code prevents neither.
StateOutlivesHandlers == late \subseteq outside \cup crossed

\* A window that is shown is never left with old rows: each scan is followed
\* by another, whatever was minimized and restored, and under any box.
KeepsCurrent ==
    \A p \in Procs :
        (At(p, "window") /\ p \in stale)
            ~> (p \notin stale \/ p \in iconic \/ ~At(p, "window"))

\* The copy that was started to replace this process gets its window, unless
\* it waited in vain, another process held the mutex, or Windows failed it.
HandedOver ==
    \A q \in Procs :
        (replaces[q] # NoOne /\ stage[q] \in {"waiting", "locking", "locked"})
            ~> (At(q, "window") \/ q \in hindered)
=============================================================================
