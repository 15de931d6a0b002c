# ProcDrift, specified

ProcDrift is a Windows program that shows the running processes, compares them
with a reference snapshot the user recorded, and can end, suspend or resume
them. This directory holds TLA+ models of its parts, the TLC configurations that
check them on small instances, and theorems about them that TLAPS proves for
every value of the constants. Every definition is translated from `src/src/*.rs`;
`PROJECT.json` maps each one to its lines and lists the hazards of the code, each
with the properties that cover it.

Check a model with `tlc -config X.cfg M`, a proof with `tlapm M.tla`.

## The system

One user interface thread runs everything but the inspection of files: a message
loop, a window procedure, a one-second timer. A message box or a context menu
runs a message loop of its own *inside* the handler that opened it, so the timer
goes on refreshing the same `AppState` while a handler waits for an answer. That
nesting, PIDs that are used again, and a state file that outlives crashes and is
shared between sessions are where the program is hard.

| Component | State | Operations | What makes it correct |
|---|---|---|---|
| State file, snapshot (`state.rs`, `baseline.rs`) | `state.json`, a temporary file per process; `Baseline` | load, import of a legacy file, replace, allow, unallow, save | the file is always whole; memory and file agree; a file that could not be read is never replaced |
| First-run prompt and snapshot commands (`app.rs`) | `onboarding_done`, the local replacement of a handler | prompt from inside refresh, Record all, Allow, Unallow | nothing is written unasked; rows say of the snapshot what was recorded |
| Process actions (`action.rs`, `app.rs`) | rows, `paused`, one handle at a time | end, suspend, resume, end a tree | only what the user confirmed is struck, never the system; failures are noted |
| Details (`details.rs`, `app.rs`) | channel, worker, cache, posted results | request, inspect, deliver, show, shut down | answered in turn; the cache is bounded and recent; closing ends |
| Scanner, classification (`process.rs`, `baseline.rs`) | counters and identities of the last scan | scan, classify, rank, search | a row's evidence is about that process |
| Activity (`activity.rs`) | live keys, events, starts per path | update, is_restarting, expire | Restarting is three starts noted within two minutes, as scans date them; each start and exit is noted once |
| Evidence (`model.rs`, `process.rs`) | none | filters, rank, top five, outliers | filter, rank and count agree; the marked rows are the largest and the ones that stand out |
| Startup entries (`autostart.rs`) | an index, built once | enumerate the keys, look up | the index is no more and no less than the registry was |
| Authenticode (`signature.rs`) | a file handle and three contexts of Windows | open, hash, look up, verify, close | contexts are released in order; a verdict is never made up |
| Window, list (`app.rs`, `ui.rs`) | displayed rows, selection, timer, boxes that wait | refresh, render, select, minimize, destroy | the list shows the rows; it stays current; no handler uses `AppState` after its drop |
| Start (`main.rs`) | a named mutex per session | single instance, hand-over to an elevated one | one window at most, and a replacement gets it |
| Descriptions, bindings (`knowledge.rs`, `win32.rs`) | none | look-ups, conversions | outside the models: a constant table and declarations |

Interaction: `refresh` calls the scanner, which uses the baseline and the
activity tracker, and shows the first-run prompt; the handlers save the baseline
or call `perform_action` and then refresh; the details worker is the only other
thread, verifies signatures, and talks to the window through a channel one way
and posted messages the other way. The startup index is built before the first
scan and never again. The file is shared with other sessions of the same user: the mutex
name is local to a session.

## Modules

| Module | What it is |
|---|---|
| `StateStore` | the state file, the baseline and every handler that saves |
| `StateRegister` | what the file promises: one register, read at start, written in one step |
| `ProcControl` | the process actions against an operating system that reuses PIDs |
| `Scanner` | a scan and its classification, with the identities asked for by PID |
| `Classification` | how a name and a path match the snapshot, and what trust comes of it |
| `Evidence` | filters, rank, top five and outliers: what the rows say beside each other |
| `Autostart` | the startup index, built entry by entry while the registry changes |
| `Findings` | composes the three before it: index, then scans against a snapshot that changes |
| `Activity` | the activity tracker and the finding Restarting |
| `ListView` | filtering, sorting, the cells a refresh writes, the selection, the context menu |
| `DetailWorker` | the details thread, its queue, its cache and its shutdown |
| `Signature` | the verification inside an inspection, call by call |
| `Lifetime` | a process from `main` to its end: mutex, hand-over, timer, nested message loops |
| `StateStoreProofs`, `ProcControlProofs`, `ScannerProofs`, `FindingsProofs`, `ActivityProofs`, `ListViewProofs`, `LifetimeProofs` | the inductive invariants of the module and the theorems from them |
| `InspectionProofs` | the same of `DetailWorker` and of `Signature`, which it extends together |
| `MCStateStore`, `MCProcControl`, `MCScanner`, `MCFindings`, `MCListView`, `MCSignature`, `MCLifetime` | the instances TLC checks |
| `MCScan`, `MCInspection` | instances of two modules side by side: `Scanner` and `Activity`, `DetailWorker` and `Signature` |

`Scanner` and `Findings` share the operators of `Classification`; `Findings`
composes `Autostart`, `Classification` and `Evidence`. `MCScan` and `MCInspection`
put two modules into one instance, a behaviour of which is one of either; their
names do not clash, and all that the code shares between the two is a call (the
scan, `verify`). Otherwise the modules share no variables: the rows that `Scanner` computes are any rows in `ListView`
and any consistent ones in `ProcControl`, the boxes of `Lifetime` are those of
every handler, the parents and restarts of `Findings` are given, so that each is
checked against more than the others produce. Beside a few operators stands one
that nothing uses, with a slip somebody could have made (`PausedNotForgotten`
beside `PausedAfter`): `PROJECT.json` lists them under `mutants`, each with the
property that breaks when it takes the place of the operator next to it.

### StateStore

Each element of `Instances` is a session that may run the program again and
again. `file` and `temp[i]` are files, each with its content and whether it was
flushed. A snapshot is the set of its paths; the grouping by name is abstracted.
`Start` is `Baseline::load` with every outcome the code tells apart. `Refresh`
replaces the rows and, the first time, opens the prompt; further refreshes happen
while the prompt is open. Because the nested refresh goes through a second
reference to the same `AppState`, what the prompt's handler reads afterwards is
either the rows of the prompt or those of now: `WelcomeYes` takes either.
`OpenTemp`, `WriteTemp`, `SyncTemp`, `MoveTemp` are the calls of `save_atomic`;
`SaveFails` is the failure of any of them; `Publish` is the assignment after `Ok`
and the refresh that follows. `Exit` and `PowerLoss` may fall between any two of
these steps; a power loss may lose or tear what was not flushed.

`ImplementsRegister` is the refinement: `StateRegister` has no temporary file, no
prompt and no failure, and an instance's view of it is the baseline it holds
(the replacement, from the moment it is on disk).

### ProcControl

`os[p]` is the process that has PID `p`, or the remains of the last one. `Spawn`,
`ExitByItself` and `Grant` happen between any two steps of the program, except
that an open handle keeps its PID from being used again. A handler captures its
targets from the rows (`Act`, `EndTree`), may wait in a confirmation box while
`Refresh` goes on, and then, for each target, `Open`, `Verify` and `Strike` are
the three parts of `perform_action`. `line` is history: true descent, recorded by
`Spawn`, which the captured tree is compared with.

`critical` is what `IsProcessCritical` reports. When that call itself fails, the
code goes on (`action.rs:54`), so such a process is like one that is not critical
here, and `SparesTheSystem` says nothing of it.

Creation times are distinct in the model. With equal times (or a clock set back)
the comparison `created >= parent_created` cannot tell descent.

### Scanner

`os[p]` is as in `ProcControl`, with what the process runs, whether it can be
opened, and its CPU time. `Enumerate` is the one consistent moment, the list of
`NtQuerySystemInformation`; `Query` asks for the identity of one key of that list
that is not cached, by PID, and may therefore be answered by the next process
with that PID; `Classify` is the rest of `scan`: the CPU time since the last
scan, the trust of each row, the findings about paths and parents, and the caches
it keeps. `Minimize` and `Restore` are the parts of `set_minimized` that touch
the scanner. Fields of the rows that only history knows (`mother`, `spent`) are
what the findings are compared with.

Abstracted: a program is a name and a path; upper and lower case, the separators
of paths, the size of the buffer and the measurements other than CPU time are
left out. A scan that fails changes nothing.

### Activity

The specification is `Tracking` (its parts are named apart from those of
`Scanner`). Processes start (`Launch`) and exit (`Leave`) while time passes (`Tick`); `Scan`
is an update of the tracker with what runs. `seen` is the history of all the
events that were noted, which the code forgets; `born` is when a process started,
which the code does not know. The path of a process is a constant of it.

### ListView

`cells`, `selected` and `top` are the Windows control; `rendered` is what the code
remembers of it. `Refresh`, `SetFilter`, `UpdateSearch` and `SortBy` replace the
displayed rows and end in `render`: `Redraw` when the lines are of the same
processes in the same order, `Rebuild` otherwise. `Click` and `Scroll` are the
control itself. `OpenMenu` selects the line of a right click; refreshes go on
while the menu is open; `CloseMenu` is its end, and `Selected` is then what the
chosen command acts on. Deleting all items is taken to clear the selection and
scroll to the top, as the control does.

One column stands for name, PID and path, none of which changes for a process;
`evidence` for trust and findings, `load` for the three measurements. The height
of the window is a constant: that it is resized is not modelled. A rebuild selects
the first of several selected lines and drops the others, as the code does, and
`SelectionKept` is about the first.

### DetailWorker

The channel, the worker thread and the posted results. `Details` sends, `Receive`
takes a command and looks into the cache, `Inspect` is the inspection and the
insertion, `Deliver` the post. `DetailReady` drops a result whose process is no
longer selected and otherwise opens a box; boxes nest, and only the first
disables the window (`disabled`), so that the user, who may answer any of them,
reaches the window again when that one is gone. `Close` is the drop of the
worker: Stop is sent behind what waits, and `Join` waits for the worker.

### Signature

The specification is `Verification` (its parts are named apart from those of
`DetailWorker`, so that one module can speak of both). One call of `verify`:
`Open`, then `Acquire`, `Hash`, `Lookup`, `Describe` for the
catalog, `Verify`, `Signer` and `CloseState` for `run_verification`, and
`Release`. Each call to Windows is a step that succeeds or is refused, and each
way to give up on the catalog goes through `Embedded`. A file is what its two
kinds of signature say: none, good, bad. Other programs `Replace` the file (the
open handle keeps the old one) or `Rewrite` it in place (the handle sees it)
between any two calls. `Lookup` answers 0 both for a file without a catalog and
for a search that fails, as the code sees it. What WinVerifyTrust does inside is
external: it answers what is true of the contents, or an error.

### Lifetime

`stage` is where each process is in `run()`, `handles` who has a handle to the
mutex: as in Windows it exists while anybody has one, also a process that only
looked. `Wait` ends when the replaced process ended or five seconds are over.
`stack[p]` are the handlers that wait in a box or a menu, innermost last; the
timer and posted messages are dispatched whatever is on it, so `Timer` may open
the first-run prompt and `DetailReady` another box on top.

Every box has the main window as owner (`ui.rs:204`). Windows disables the owner
for the first box and leaves it alone for a second one; what enables it is the
answer to the box that disabled it. So the boxes do not disable one another, and
any of them can be answered (`Reply`). If it is not the innermost, its handler
stays on the stack, since its loop can only return after those above it have, but
a window that it disabled takes input again (`TakesInput`): a second command, or
the user's own `Close`. An open menu takes the input; a box that opens over it
cancels it. `Further` names the boxes a handler goes on to.

`Close` is the user's; `CloseFromOutside` is a `WM_CLOSE` that another program
posts, which a disabled window takes too; `RestartElevated` starts the copy and
destroys the window from inside the handler. After `DestroyWindow` the handlers
return one by one (`Unwind`, `RestartLate`), and `GoesOn` names those that then
use `AppState` again. What that use does is undefined, so that the model only
notes it (`late`) and goes on as if the memory were still what it was.

`Killed` and `CreateFails` may come at any step. `late`, `outside`, `crossed`,
`hindered` and `stale` are history.

### Findings, with Autostart, Classification and Evidence

`Autostart` reads the five views of the keys, position by position, as
`RegEnumValueW` does, while entries are added and removed and the positions
shift. `Classification` has `Match` (`classify_normalized`) and `Trust`.
`Evidence` has the filters, the rank, `TopFive` (with every order of ties that an
unstable sort may leave), medians and limits in integers that saturate, and
`WithLiveFindings` as `apply_live_findings`. `Findings` builds the index, and then
each step that ends in a scan (`Scan`, `RecordBaseline`, `Allow`, `Unallow`)
replaces the rows by what these operators make of the processes found. Paths
come as Windows spells them, and `Normal` is `normalize_path`: the snapshot and
the index compare normalized paths, the peers of an outlier raw ones.

Abstracted: how the executable is made out of a command line or a service image
is data of the entry. The saves and boxes of the commands are `StateStore`'s.

## Runs

| Run | Bounds | Shows |
|---|---|---|
| `store` | 2 sessions, 1 path and the empty path, a legacy file with that path | `DiskWhole`, `UnreadableKept`, `AskedBeforeWritten`, `ImplementsRegister` |
| `control` | 4 PIDs (System, ProcDrift, two reused ones), 3 creations, suspend count 1 | `StrikesTheChosen`, `SparesTheSystem`, `TreeExact`, `PausedIsSuspended`, `NothingSilentlyLeft` |
| `suspend_twice` | the same, suspend count 2 | a violation of `SuspendedIsPaused` |
| `scans` | scanner: 3 PIDs, 2 creations, CPU time 0 and 1, two programs of one name; tracker: 3 processes of one path and 1 of another, clock 0 to 2, window 0, memory 1, threshold 2, queues of 2 | `PathIsOwn`, `CpuIsOwn`; `RestartingExact`, `NotedOnce`, `StartedSinceScan` |
| `known_parent` | the scanner alone, 3 creations and no CPU time | a violation of `KnownParentTrue` |
| `list` | 3 processes, one of which changes in everything and one comes and goes; a window of 1 line and a cut one | `ScreenCurrent`, `MenuIsOfLine`, `SelectionKept` |
| `finding_shown` | the same | a violation of `FindingShown` |
| `inspection` | worker: 3 processes, a cache of 2, 4 requests; verification: 2 changes of the file, to any file or none | `InTurn`, `CacheIsRecent`, and the liveness `Answered`, `WindowGoes`; `Balanced`, `Honest` |
| `unsigned` | the verification alone | a violation of `UnsignedIsUnsigned` |
| `lifetime` | 3 processes; boxes two deep in the first, in the others the prompt only | `OneWindow`, `StateOutlivesHandlers`, and the liveness `KeepsCurrent`, `HandedOver` |
| `findings` | 2 programs, one spelled in two ways; up to 3, then 4 processes; 1 change of the registry; 2 rows marked for each measure, integers that saturate at 3 | `IndexFaithful`, `ReviewIsRisk`, `SnapshotTold`, `ResourcesExact` |
| `snapshot_allowed` | the same | a violation of `RecordedIsAllowed` |

Each passing run also checks the type invariant of its modules (`TypeOK`;
`VerificationTypeOK` of `Signature`, `TrackerTypeOK` of `Activity`).

Why the bounds are enough to be interesting. `store`: one path makes a snapshot
empty, imported or replaced and an allowance present or absent, and two sessions
are what it takes for a write under another's feet; sessions are symmetric.
`control`: two ordinary PIDs and three creations give a parent, a child and a
reuse of either's PID, and a tree through ProcDrift. `inspection`: three processes
overflow a cache of two, and a fourth request comes back to one that was kept or
evicted (the code's limit is 64; only the comparison with it matters).

`scans`: with one PID for System, two PIDs and two creations give a parent and
its child, or a reuse of a PID between snapshot and query; System, whose path is
withheld, runs one program there and has used its CPU time before, and
`known_parent` is where it may run either. For the tracker, three
starts of one path are one more than the queues hold and than the threshold
needs; only the order of the numbers matters (window below memory, threshold at
most the queue), and the code's are 120 s, 600 s, 3, 8 and 128. `list`: three
lines and a window of one leave a line that is never written, in each position.

In a verification, one change separates the hash from the embedded check, and a
second one restores or removes the file. `lifetime`: a process, its replacement
and a third one that the user starts meanwhile are what it takes to lose the mutex
between two; two handlers that wait are what it takes to answer the outer one
first, and a third, by a prompt or a further box, is reached too. Boxes in the
other two processes add nothing: what relates processes is the mutex. `findings`: four processes give three peers
and one that stands apart, or four peers with ties for the top two (the code
marks five; only the comparison with the number of rows matters), and the
measures 0 to 3 reach the saturated limit; one change of the registry removes or
adds an entry before or behind the position that is read.

`CHECK_DEADLOCK FALSE` stands where the system may stop: when the window is gone
or the verification done (`inspection`), when a bound on creations is reached
(`control`) or the clock has reached its bound and all processes have run
(`scans`), when every process that may be started has ended (`lifetime`) and when
the scans are used up (`findings`).

Fairness. `DetailWorker`: the worker thread is scheduled (`WF_vars(Worker)`; an
inspection touches the disk and no network) and `join` returns once the thread
has ended. Nothing is assumed of the message loop there, which a box may hold for
ever: `WindowGoes` says that the worker never waits for it. `Lifetime`: a process
that can run does (`WF_vars(Runs(p))`: what `run()` does by itself, each wait of
it bounded), and a message loop, of the window or of a box, dispatches a timer
message or a posted refresh that is there (`WF_vars(Polls(p))`: every loop of the
process takes messages for any window of the thread). Nothing is assumed of the
user, who may leave any box open for ever, nor of other programs.

### What the violations show

- `finding_shown`: `static_cells_changed` (`ui.rs:111`) asks for a change of trust
  or findings before the first column is written, but `legacy_category`
  (`process.rs:325`) puts "Paused by ProcDrift" before both. After Suspend the
  line keeps its finding, after Resume it keeps "Paused by ProcDrift", until
  something else about the row or the order of the list changes. By
  `README.md:36` findings "are what is true about it right now".
- `known_parent`: `classify_evidence` (`process.rs:250`) looks for the parent
  among the PIDs of this scan. When the parent has ended and a program of the
  snapshot got its PID, the orphan is shown as Known parent, "Launched by a
  process that matches the snapshot" (`README.md:47`), and not as Parent ended.
- `suspend_twice`: Windows counts suspensions, the paused set does not. After
  Suspend, Suspend, Resume the process is suspended and no longer marked, and
  Space, a toggle by `README.md:111`, suspends it again.

- `unsigned`: `verify_via_catalog` returns `None` both when no catalog lists the
  file and when one of its calls is refused (`signature.rs:181`, 196, 208, 233), and
  `verify` then asks about the embedded signature alone, which most files of Windows
  do not have. The verdict Unsigned is documented as "No signature is present,
  embedded or catalogued" (`signature.rs:70`). `Honest`, which does hold, is about
  the other verdicts, and about verifications in which no call was refused.
- `snapshot_allowed`: `README.md:29-30` says that Allowed is a path of the snapshot
  and Known a program of Windows outside it; in the code Known is a match of the
  snapshot and Allowed a path in `allowed_paths` (`process.rs:233`). `SnapshotTold`
  is what rows do say of a snapshot.

### Observations without a run

What else came up while the models were written, and is built into them:

- `Baseline::load` (`baseline.rs:47`) tells an unreadable file from a first run by
  `path.exists()`, which is also false when the metadata of an existing file
  cannot be read. `StateStore` has the constant `MetadataMayFail` for that;
  `UnreadableKept` is checked and proved where it is `FALSE`.
- Starts are dated by the scan that finds them (`activity.rs:58`), and nothing
  tells the tracker that scans paused while the window was minimized
  (`app.rs:482`): starts far apart then count as close. `StartedSinceScan` is what
  does hold.
- `end_selected_tree` (`app.rs:705`) does not look at `TrustState::Protected`, as
  the single action does. What stands between it and the system are the checks of
  `perform_action`, which `SparesTheSystem` is about, and of these the one for
  critical processes lets those pass of which `IsProcessCritical` fails.
- A handler goes on with a dropped `AppState` in two ways, both of which need a box
  to be answered, or the window to be closed, out of turn (`app.rs:1205`). A detail
  box opens over "Process action failed"; the user answers the lower one, which
  enables the window, and closes the window; `AppState` is dropped, and when the
  detail box is gone `action()` reads `self.hwnd` (`app.rs:1002`). Or another program
  posts `WM_CLOSE` to the window under a box. `StateOutlivesHandlers` says that these
  are the only ways. It rests on what is said above of boxes with one owner.
- Two sessions of one user share the file and not the mutex (`main.rs:59`): the one
  that saves last drops what the other saved. The register that `ImplementsRegister`
  speaks of allows that, so the property does not exclude it.
- `HandedOver` exempts (`hindered`) a replacement that waited its five seconds in vain
  (`main.rs:49`), met another holder of the mutex, one that shows an error box among
  them (`main.rs:79`), or was refused by Windows. It shows that nothing else keeps a
  replacement from its window, and does not cover these.
- Peers are grouped by the path as Windows spells it, so two spellings are two
  programs for outliers and Many instances, and one for the snapshot.
- An unquoted startup command is cut at its first blank (`state.rs:225`).
- The status line counts "anomalous" rows without the combination New and Starts
  automatically that the filter Review has. The two agree (`ReviewIsRisk`) only
  because a New row is always Unclassified.
- `import_v1` (`state.rs:110`) lower-cases names, so that of two names of a legacy
  file that differ in case one replaces the other.

## Proofs

Every invariant and every action property of the passing runs is also a theorem,
and so is the one refinement: TLC shows it on the instance of the run, TLAPS for
every value of the constants that the module's assumptions allow. What stays with
TLC is liveness (below).

`StateStoreProofs` proves, for any number of sessions and any paths, scans and
initial file, from the assumptions that `StateStore` names (a scan that succeeds
is not empty, the markers of file contents are distinct and are no states):

- `TypeCorrect`, `FileNeverTorn`, `NeverWrittenUnasked`, invariants of the run
  `store`, and two that are proved and not run: `MemoryMatchesFile` (the baseline
  in memory is what the file holds until another session writes) and
  `ChoiceAskedOnce` (a choice that is in the file is not asked for again);
- `UnreadNeverWritten`, under the assumption that the metadata can be read;
- `Implementation`: `Spec => ImplementsRegister`.

None of the invariants is inductive by itself. `Inv` adds what the steps of a
handler owe each other: while a handler is busy its replacement is a choice made
on the baseline it still holds (`ReplacementOK`), which is what makes the move a
`Write` of the register and what carries a load error into the replacement; the
temporary file holds that replacement before it is moved, and is durable by then
(`TempOK`), so that `file` is always durable and a power loss cannot change it;
rows are shown only after the session asked (`AskedOK`); a stopped session is
empty (`DownOK`). Most handlers are one shape of step, `Handles`, so that the
preservation of `Inv` is proved once for them. For the refinement, `StartLoads`,
`MoveWrites` and `StopStops` map the three steps that matter, and `Stutters`
covers the rest.

`ProcControlProofs` proves, for any PIDs, any natures of the processes that start
and any bounds, from the assumptions that `ProcControl` names (ProcDrift is no
pseudo-process; a suspend count has room for one):

- `OnlyTheChosen`: `Spec => StrikesTheChosen`, and `NeverTheSystem`:
  `Spec => SparesTheSystem`. Both come from what the open handle is for: `Pinned`
  says that from the checks on the process of the handle is, PID and creation
  time, the row that was confirmed, and not critical. It is preserved because
  `Spawn` cannot give away the PID of a held process. That a remembered key never
  names a new process is `Dated`: nothing that ProcDrift remembers is younger
  than the last creation.
- `PausedTruly` and `TreeAccounted`, from `PausedIsSuspended`, which is inductive
  with `Pinned`, and from `Accounted`: every captured row is still to be done, or
  gone, or among the failures.
- `TypeCorrect`, for which `Accounted` says that a handler leaves nothing behind.

- `TreeIsDescent`: `Spec => TreeExact`, from a second invariant, `Descent`. The
  capture goes by numbers and dates, true descent by the line that each process
  has from its birth. `Lines` ties the two for the processes: the line of a
  process is its own key and the line of its parent, for as long as the parent's
  number was not given away, and after that the number belongs to somebody
  younger. `RowLines` is the same of the rows of one scan. `CapturedDescends` and
  `DescendsCaptured` are the two directions. `Captured` is the last of a recursive
  function of passes; that a pass is reached which adds nothing, and that a member
  has a first pass that added it, are arguments by a least element (`WFMin` of
  WellFoundedInduction on the numbers of the passes), as are all that look like
  inductions in these modules.

`LifetimeProofs`, for any number of processes and any depth of boxes:
`OneAtATime` (`OneWindow`), from `Sole`: of the processes with a handle at most one
found no mutex before it. `HandlersOutlived` (`StateOutlivesHandlers`), from
`Nested`, of a process in which boxes were only answered from the innermost on: at an
open box or below it one disables the window. So only prompts and detail boxes
open over others, the user cannot close the window under a handler, and the offer
to restart is the only handler left when it destroys its window. `TypeCorrect` holds
the timer to its flag. From the assumptions that `NoOne` is
no process and that depths are natural numbers.

`InspectionProofs` has two parts. Of `DetailWorker`, for any number of requests and
a cache of any size: `AnsweredInTurn` (`InTurn`), inductive with the facts that the
worker holds a request just while it works (`Busy`) and that Stop is not sent
before the window goes (`OpenQueue`). `RecentKept` (`CacheIsRecent`) speaks of all
uses there ever were, of which the cache only has an order; `RecentOf` says how the
two relate: behind each key in the order are just the keys used after it, and if
a key was used and is gone, the cache is full and all in it were used after that.
`get` and `insert` each preserve it. `TypeCorrect` counts boxes, of which there are
no more than answers (`Boxes`).

Of `Signature`, for any number of changes to the file: `ContextsReleased` (`Balanced`)
from what is open before each step (`Contexts`), and `VerdictHonest` (`Honest`) and
`VerificationTypeCorrect` from where each answer came from: what was hashed or
verified was at the path, a catalog is asked about only where one was found, and
what WinVerifyTrust returned was true of one of these files; with one file and
nothing refused, of that one.

`ScannerProofs`, for any PIDs, programs and snapshots: `OwnPath` (`PathIsOwn`),
`OwnCpu` (`CpuIsOwn`) and `TypeCorrect`. A cached path may well be wrong; the
invariant says of whom: of keys that run no more, and never will, since every key
that ProcDrift has was created by now and what starts later is created later.

`FindingsProofs`, for any startup entries, snapshots and scans, has three parts.

- `IndexIsFaithful` (`IndexFaithful`). An entry of the start is *ahead* if its key is
  still to be opened or it stands behind the position that is read next, and
  *lost* if it is neither taken nor ahead. `WalkInv` says that no more are lost than
  were removed: reading takes what it passes, adding only moves entries further
  ahead, and removing one loses either that one or, if it had been read, the one
  that was next and is pulled over the position (`Removing`, the one long case).
- `ReviewAgrees` (`ReviewIsRisk`) and `SnapshotIsTold` (`SnapshotTold`), from what
  a row owes to the snapshot it was scanned against (`Judged`) and what the
  snapshot owes to the rows that were recorded (`KeptRecorded`); findings added
  later never touch those two. `TypeCorrect` needs `Typed`, which is about the rows
  before and after those findings.
- `ResourcesAreExact` (`ResourcesExact`), by lemmas about the operators alone: a
  ranking puts the largest in front whatever it does with ties (`TopFiveFacts`);
  a median is exceeded by half of the values at most (`MedianFacts`), and is
  their common value if all but one are the same (`MedianOfMost`). With the limit
  of saturating sums between them, a marked row exceeds most of its peers and one
  that leaves equal ones behind is marked (`Compared`, `ComparedExact`).

`ActivityProofs`, for any processes, limits and pace of the scans: `EachNotedOnce`
(`NotedOnce`) and `NoStartMadeUp` (`StartedSinceScan`). Whoever was noted to have
exited does not run, whoever is live was born, and whoever runs and is not live
was born after the last scan. `RestartsExact` (`RestartingExact`) compares bounded
queues with an unbounded memory: since any time within `Keep` seconds of the last
scan, the starts that a path remembers are all there were, or fill the queue
(`Remembered`), and a full queue is enough to answer, because the threshold is at
most its length and the window within what is kept. `TypeCorrect` completes it.

`ListViewProofs`, for any processes, scans, filters and height of the window:
`Current` (`ScreenCurrent`), `MenuTarget` (`MenuIsOfLine`), `Selection`
(`SelectionKept`) and `Types` (`TypeOK`). `Aligned` relates the three copies of the
list, the displayed rows, the rows as they were drawn and the control: the same
processes in the same places, the evidence of the last refresh in all three, and
measurements that are those of the drawn rows everywhere and of the displayed
rows in view. `MenuHeld` says that an open menu is on the selected process or on
none. Beneath it are lemmas about the sort: a total order on places gives each
place one row, so that sorting and filtering neither lose nor repeat a process.

The assumptions are those the modules name, and they say what the code's types
say: a scan is a finite list of rows with distinct keys, measures are natural
numbers (they are `u64`), an empty search is one of the searches (`Everything \in
Queries`), a cache has room for one, the window of `is_restarting` is within what
`expire` keeps. Four operators are written so that they can be reasoned about, and
compute what the code does: a sort is a count of who goes before (`ListView!Sorted`),
a median is the least value that more than half of the values do not exceed
(`Evidence!Median`), a `retain` on a queue that holds a key once at most removes
the first one (`DetailWorker!Without`), one pass of the capture is an operator of
its own (`ProcControl!Pass`).

Model-checked only: the liveness properties `Answered`, `WindowGoes`, `KeepsCurrent`
and `HandedOver`, since fairness and ENABLED are out of the prover's reach, and the
five violations, which are counterexamples. Nothing in the models is a recursive
operator; the one recursive function, in `Captured`, is dealt with above.

## Not modelled

`knowledge.rs` (a constant table whose entries only appear in the text of the
details box), `win32.rs` (declarations and string conversion), the build and its
scripts; layout, wording, the clipboard, opening a file location. The parsing of
`state.json` and of the legacy file, of command lines, environment variables and
service images is abstracted to its outcome. Also left out: the report of
`end_selected_tree` is cut to eight lines (`app.rs:744`), and `NothingSilentlyLeft`
speaks of the failures before that; a process may become critical between the
check and the action; equal creation times; the retries of the process list.

## Plan

The modules were written in the order of this list; all are done, with their
proofs: `StateStore`, `ProcControl`, `DetailWorker`, `Activity`, `Scanner`,
`ListView`, `Lifetime`, `Signature`, `Findings`.

What is left: an abstract specification of `ProcControl`, an operating system that
ends exactly the confirmed processes, and of `DetailWorker`, a queue that answers
in order with a cache beside it, each with the refinement proved step by step as
for `StateRegister`; of `Scanner`, a classification of a consistent snapshot; the
grouping of names and paths in the import of a legacy file.
