--------------------------- MODULE DetailWorker ---------------------------
(***************************************************************************)
(* Process details: src/details.rs (DetailWorker, BoundedCache) and the    *)
(* parts of src/app.rs that use it (details, detail_ready, and the drop of *)
(* AppState when the window goes).                                         *)
(*                                                                         *)
(* Two threads: the user interface thread sends commands into an unbounded *)
(* channel; the worker inspects one process at a time, or finds it in its  *)
(* cache, and posts the result to the window.  When the window goes, the   *)
(* user interface thread sends Stop and joins the worker.                  *)
(*                                                                         *)
(* Abstracted: a request and its result are the key of the process (name   *)
(* and path are fixed for a key; the verdict is the business of            *)
(* signature.rs).  An inspection ends: it does no network access.          *)
(***************************************************************************)
EXTENDS Naturals, Sequences, FiniteSets, SequencesExt

CONSTANTS
    Keys,        \* SelectionKeys of processes
    Nobody,      \* no row is selected; also: the worker holds no request
    Stop,        \* Command::Stop
    CacheLimit,  \* CACHE_LIMIT
    MaxRequests  \* bound: requests the user makes

ASSUME DetailAssumption ==
    /\ CacheLimit \in Nat \ {0}
    /\ MaxRequests \in Nat
    /\ Nobody \notin Keys
    /\ Stop \notin Keys \cup {Nobody}

VARIABLES
    ui,        \* "open", "joining" (in the drop of AppState), "gone"
    selected,  \* the selected row
    dialogs,   \* detail boxes on screen, one inside another
    disabled,  \* one of them disabled the window when it opened
    channel,   \* commands sent and not received
    worker,    \* "none", "waiting", "working", "answering", "ended"
    current,   \* the request the worker has
    entries,   \* BoundedCache.entries, as the set of its keys
    order,     \* BoundedCache.order, least recently used first
    posted,    \* WM_DETAILS_READY messages not dispatched
    sent,      \* history: requests accepted by the channel
    answered   \* history: requests the worker delivered

vars == <<ui, selected, dialogs, disabled, channel, worker, current, entries,
          order, posted, sent, answered>>

Init ==
    /\ ui = "open"
    /\ selected = Nobody
    /\ dialogs = 0 /\ disabled = FALSE
    /\ channel = <<>>
    /\ worker = "none"
    /\ current = Nobody
    /\ entries = {}
    /\ order = <<>>
    /\ posted = <<>>
    /\ sent = <<>> /\ answered = <<>>

-----------------------------------------------------------------------------
(* The user interface thread *)

\* The user selects a row, or a refresh finds the selected process gone; the
\* first needs an enabled window.
Select(k) ==
    /\ ui = "open"
    /\ k # selected
    /\ disabled => k = Nobody
    /\ selected' = k
    /\ UNCHANGED <<ui, dialogs, disabled, channel, worker, current, entries, order,
                   posted, sent, answered>>

\* A request goes behind those that wait.
SentAlone(ch, k) == <<k>>
Sent(ch, k)      == Append(ch, k)

\* details(): the worker is started by the first request (if Windows cannot
\* start it, only the status line changes) and gets the request.
Details ==
    /\ ui = "open" /\ ~disabled
    /\ selected # Nobody
    /\ Len(sent) < MaxRequests
    /\ worker' = IF worker = "none" THEN "waiting" ELSE worker
    /\ channel' = Sent(channel, selected)
    /\ sent' = Append(sent, selected)
    /\ UNCHANGED <<ui, selected, dialogs, disabled, current, entries, order, posted, answered>>

\* is_current_selection
IsCurrentSelection(k) == selected = k

\* WM_DETAILS_READY, also under the message loop of a detail box.  A box disables
\* the window it finds enabled.
DetailReady ==
    /\ ui = "open"
    /\ posted # <<>>
    /\ posted' = Tail(posted)
    /\ IF IsCurrentSelection(Head(posted))
         THEN dialogs' = dialogs + 1 /\ disabled' = TRUE
         ELSE UNCHANGED <<dialogs, disabled>>
    /\ UNCHANGED <<ui, selected, channel, worker, current, entries, order, sent, answered>>

\* The user may close any box, not only the innermost; the one that disabled
\* the window enables it, whichever others are up.
DismissDetails ==
    /\ ui = "open" /\ dialogs > 0
    /\ dialogs' = dialogs - 1
    /\ disabled' \in {FALSE, disabled /\ dialogs > 1}
    /\ UNCHANGED <<ui, selected, channel, worker, current, entries, order,
                   posted, sent, answered>>

CloseAhead ==
    /\ ui = "open"
    /\ ui' = "joining"
    /\ dialogs' = 0 /\ disabled' = FALSE
    /\ channel' = IF worker = "none" THEN channel ELSE <<Stop>> \o channel
    /\ UNCHANGED <<selected, worker, current, entries, order, posted, sent, answered>>

\* The window is destroyed: dropping AppState drops the worker, which sends
\* Stop behind the requests that wait.
Close ==
    /\ ui = "open"
    /\ ui' = "joining"
    /\ dialogs' = 0 /\ disabled' = FALSE
    /\ channel' = IF worker = "none" THEN channel ELSE Append(channel, Stop)
    /\ UNCHANGED <<selected, worker, current, entries, order, posted, sent, answered>>

\* join() returns; with no worker there is nothing to join.
Join ==
    /\ ui = "joining"
    /\ worker \in {"none", "ended"}
    /\ ui' = "gone"
    /\ UNCHANGED <<selected, dialogs, disabled, channel, worker, current, entries, order,
                   posted, sent, answered>>

-----------------------------------------------------------------------------
(* The worker thread *)

\* A key is in the order once at most.
Without(s, k) == RemoveFirst(s, k)

\* BoundedCache::get of a key that is there moves it to the recent end.
GotInPlace(s, k) == s
Got(s, k)        == Append(Without(s, k), k)

\* BoundedCache::insert of k: the oldest keys leave, until there is room.
Inserted(k) ==
    LET all    == Append(Without(order, k), k)
        left(n) == (entries \cup {k}) \ {all[m] : m \in 1 .. n}
        fewest == Min({n \in 0 .. Len(all) : Cardinality(left(n)) <= CacheLimit})
    IN  /\ order' = SubSeq(all, fewest + 1, Len(all))
        /\ entries' = left(fewest)

NeverStops(c) == FALSE
Stops(c)      == c = Stop

\* recv: the loop ends at Stop; a key in the cache is answered at once.
Receive ==
    /\ worker = "waiting"
    /\ channel # <<>>
    /\ channel' = Tail(channel)
    /\ IF Stops(Head(channel))
         THEN worker' = "ended" /\ UNCHANGED <<current, order>>
         ELSE /\ current' = Head(channel)
              /\ IF Head(channel) \in entries
                   THEN worker' = "answering" /\ order' = Got(order, Head(channel))
                   ELSE worker' = "working" /\ UNCHANGED order
    /\ UNCHANGED <<ui, selected, dialogs, disabled, entries, posted, sent, answered>>

\* The inspection ends and BoundedCache::insert makes room.
Inspect ==
    /\ worker = "working"
    /\ worker' = "answering"
    /\ Inserted(current)
    /\ UNCHANGED <<ui, selected, dialogs, disabled, channel, current, posted, sent, answered>>

\* The answer waits until the user interface thread has taken it.
SendAndWait ==
    /\ worker = "answering"
    /\ ui = "open"
    /\ worker' = "waiting"
    /\ current' = Nobody
    /\ answered' = Append(answered, current)
    /\ posted' = Append(posted, current)
    /\ UNCHANGED <<ui, selected, dialogs, disabled, channel, entries, order, sent>>

\* deliver: PostMessageW does not wait; it may fail once the window is being
\* destroyed, and the result is freed then.
Deliver ==
    /\ worker = "answering"
    /\ worker' = "waiting"
    /\ current' = Nobody
    /\ answered' = Append(answered, current)
    /\ \/ posted' = Append(posted, current)
       \/ ui # "open" /\ UNCHANGED posted
    /\ UNCHANGED <<ui, selected, dialogs, disabled, channel, entries, order, sent>>

Worker == Receive \/ Inspect \/ Deliver

Next ==
    \/ \E k \in Keys \cup {Nobody} : Select(k)
    \/ Details \/ DetailReady \/ DismissDetails \/ Close \/ Join
    \/ Worker

\* The worker thread is scheduled, and join returns when it has ended.
\* Nothing obliges the user, nor the message loop while a box is up.
Fairness == WF_vars(Worker) /\ WF_vars(Join)

Spec == Init /\ [][Next]_vars /\ Fairness

-----------------------------------------------------------------------------
(* Properties *)

Held == IF current = Nobody THEN <<>> ELSE <<current>>

\* Every variable keeps its type.
TypeOK ==
    /\ ui \in {"open", "joining", "gone"}
    /\ selected \in Keys \cup {Nobody}
    /\ dialogs \in 0 .. MaxRequests /\ disabled \in BOOLEAN
    /\ disabled => dialogs > 0
    /\ channel \in Seq(Keys \cup {Stop})
    /\ worker \in {"none", "waiting", "working", "answering", "ended"}
    /\ current \in Keys \cup {Nobody}
    /\ entries \in SUBSET Keys
    /\ order \in Seq(Keys)
    /\ posted \in Seq(Keys)
    /\ sent \in Seq(Keys) /\ answered \in Seq(Keys)

\* No accepted request is lost, answered twice or out of its turn, also when
\* the window goes while requests wait: Stop is behind them.
InTurn == answered \o Held \o channel \in {sent, Append(sent, Stop)}

\* The cache holds the keys used last, as many as there is room for: the keys
\* that at least CacheLimit others were used after are the ones evicted.  Its
\* two halves agree, which keeps the eviction loop of insert from running on
\* forever with nothing left to evict.
UsedAfter(s, k) == {s[n] : n \in {m \in 1 .. Len(s) :
                        \A h \in m .. Len(s) : s[h] # k}}
Used == answered \o (IF worker = "answering" THEN Held ELSE <<>>)
CacheIsRecent ==
    /\ entries = {k \in Range(Used) : Cardinality(UsedAfter(Used, k)) < CacheLimit}
    /\ entries = Range(order) /\ Len(order) = Cardinality(entries)

\* A request that was accepted is answered in the end.
Answered == \A n \in 1 .. MaxRequests : Len(sent) >= n ~> Len(answered) >= n

\* The window does go: joining waits for the queue to drain, never for ever,
\* because the worker never waits for the user interface thread.
WindowGoes == ui = "joining" ~> ui = "gone"
=============================================================================
