---------------------------- MODULE StateStore ----------------------------
(***************************************************************************)
(* The state file of ProcDrift: src/state.rs (load, save_atomic),          *)
(* src/baseline.rs (Baseline: load, add, remove, replacement_from_rows,    *)
(* save) and the handlers of src/app.rs that save (the first-run prompt,   *)
(* Record all, Allow, Unallow).                                            *)
(*                                                                         *)
(* Each element of Instances is one run of the program at a time: a        *)
(* session of the user that may start, be closed or killed, and start      *)
(* again.  The instances share state.json; each writes a temporary file of *)
(* its own (the name carries the PID).  The user interface thread does     *)
(* every step of an instance; save_atomic is cut at each system call, so   *)
(* that a crash, a power loss, a failure or the other instance can fall    *)
(* between any two of them.                                                *)
(*                                                                         *)
(* Abstracted: a snapshot is the set of its normalized paths (names group  *)
(* them and are not told apart here); recorded_at, imported_from, and the  *)
(* wording of prompts are left out.                                        *)
(***************************************************************************)
EXTENDS FiniteSets

CONSTANTS
    Instances,       \* sessions that may run the program on one state file
    Paths,           \* normalized executable paths
    NoPath,          \* the empty path of a row Windows did not expose
    RowSets,         \* what a successful scan may return, as sets of paths
    LegacyPaths,     \* the paths of a legacy baseline.json, if one is there
    Absent, Torn, Foreign,  \* file contents that are not a saved state
    MetadataMayFail  \* whether Path::exists may answer FALSE for a file
                     \* that is there (its metadata cannot be read)

\* What state.rs serializes: State { snapshot, allowed_paths, onboarding_complete }.
States == [records : SUBSET Paths, allowed : SUBSET Paths, onboarded : BOOLEAN]

\* Baseline in memory: the same, and whether load_error is set.
Baselines == [state : States, blocked : BOOLEAN]

Contents == States \cup {Absent, Torn, Foreign}

\* A file: its content, and whether that content was flushed to the disk.
Files == [content : Contents, durable : BOOLEAN]

\* A scan that succeeds returns at least one row (enumerate_processes).
ASSUME RowSetsAssumption ==
    /\ RowSets \subseteq SUBSET (Paths \cup {NoPath})
    /\ {} \notin RowSets
    /\ NoPath \notin Paths
    /\ LegacyPaths \in SUBSET Paths

ASSUME ContentsAssumption ==
    /\ Absent \notin States
    /\ Torn \notin States
    /\ Foreign \notin States
    /\ Torn # Absent
    /\ Foreign # Absent
    /\ Foreign # Torn

ASSUME MetadataAssumption == MetadataMayFail \in BOOLEAN

VARIABLES
    file,      \* state.json
    temp,      \* temp[i]: the temporary file of the running instance i
    pc,        \* pc[i]: where the user interface thread of i is
    baseline,  \* baseline[i]: scanner.baseline
    pending,   \* pending[i]: the handler's local replacement (FirstRun: none)
    rows,      \* rows[i]: AppState.rows, as the set of its paths
    asked,     \* asked[i]: AppState.onboarding_done
    unread,    \* history: i could not read the state file that was there
    current    \* history: instances that loaded or saved since the last write

vars == <<file, temp, pc, baseline, pending, rows, asked, unread, current>>

-----------------------------------------------------------------------------
(* Baseline *)

Empty == [records |-> {}, allowed |-> {}, onboarded |-> FALSE]

\* Baseline::load with nothing to read, and with an unreadable file.
FirstRun == [state |-> Empty, blocked |-> FALSE]
Unloaded == [state |-> Empty, blocked |-> TRUE]

\* State::import_v1 through from_state: it is not the user's decision yet.
Imported == [state |-> [Empty EXCEPT !.records = LegacyPaths], blocked |-> FALSE]

\* Baseline::from_state of a state file that was read.
FromState(s) == [state |-> s, blocked |-> FALSE]

ReplacementUnblocked(b, rs) ==
    [state   |-> [b.state EXCEPT !.records = rs \ {NoPath}, !.onboarded = TRUE],
     blocked |-> FALSE]

ReplacementWithEmptyPath(b, rs) ==
    [state   |-> [b.state EXCEPT !.records = rs, !.onboarded = TRUE],
     blocked |-> b.blocked]

\* Baseline::replacement_from_rows: the allowed paths and the load error stay.
ReplacementFromRows(b, rs) ==
    [state   |-> [b.state EXCEPT !.records = rs \ {NoPath}, !.onboarded = TRUE],
     blocked |-> b.blocked]

Allowed(b, p)   == [b EXCEPT !.state.allowed = @ \cup {p}]
Unallowed(b, p) == [b EXCEPT !.state.allowed = @ \ {p}]
Skipped(b)      == [b EXCEPT !.state.onboarded = TRUE]

-----------------------------------------------------------------------------
(* Program counters *)

Saving == {"open", "write", "sync", "move"}
PCs    == {"down", "idle", "welcome", "confirm", "saved"} \cup Saving

\* Messages are dispatched: at the top level, or by the loop of a message box.
Dispatching(i) == pc[i] \in {"idle", "welcome", "confirm"}

NoFile == [content |-> Absent, durable |-> TRUE]

Init ==
    /\ file \in [content : Contents \ {Torn}, durable : {TRUE}]
    /\ temp = [i \in Instances |-> NoFile]
    /\ pc = [i \in Instances |-> "down"]
    /\ baseline = [i \in Instances |-> FirstRun]
    /\ pending = [i \in Instances |-> FirstRun]
    /\ rows = [i \in Instances |-> {}]
    /\ asked = [i \in Instances |-> FALSE]
    /\ unread = [i \in Instances |-> FALSE]
    /\ current = {}

-----------------------------------------------------------------------------
(* Baseline::load, called by Scanner::new, and AppState::create *)

Loaded(bs, wasRead) == [baseline : bs, read : {wasRead}]

\* The state file is read, parsed and not of a newer version; or it is there
\* and was not understood or could not be read at all, which exists() tells
\* from a first run, unless its metadata cannot be read either; or there is
\* none, and a legacy file beside the executable may be imported.
LoadResults(content) ==
    (IF content \in States THEN Loaded({FromState(content)}, TRUE) ELSE {})
      \cup (IF content # Absent THEN Loaded({Unloaded}, FALSE) ELSE {})
      \cup (IF content = Absent \/ MetadataMayFail
              THEN Loaded({FirstRun, Imported}, FALSE) ELSE {})

Start(i) ==
    /\ pc[i] = "down"
    /\ \E l \in LoadResults(file.content) :
        /\ baseline' = [baseline EXCEPT ![i] = l.baseline]
        /\ asked' = [asked EXCEPT ![i] = l.baseline.state.onboarded]
        /\ unread' = [unread EXCEPT ![i] = file.content # Absent /\ ~l.read]
        /\ current' = IF l.read THEN current \cup {i} ELSE current
    /\ pc' = [pc EXCEPT ![i] = "idle"]
    /\ UNCHANGED <<file, temp, pending, rows>>

-----------------------------------------------------------------------------
(* refresh() and the first-run prompt *)

\* Baseline::save up to its first system call: a load error stops it.
Save(i, b) ==
    /\ pending' = [pending EXCEPT ![i] = IF b.blocked THEN FirstRun ELSE b]
    /\ pc' = [pc EXCEPT ![i] = IF b.blocked THEN "idle" ELSE "open"]

\* refresh(): the rows are replaced; the first time, unless the loaded state
\* says the choice was made, show_onboarding_if_needed prompts.  pending holds
\* the replacement of the rows the prompt was opened on.
Refresh(i) ==
    /\ Dispatching(i)
    /\ \E rs \in RowSets :
        /\ rows' = [rows EXCEPT ![i] = rs]
        /\ IF asked[i]
             THEN UNCHANGED <<pc, pending, asked>>
             ELSE /\ pc' = [pc EXCEPT ![i] = "welcome"]
                  /\ asked' = [asked EXCEPT ![i] = TRUE]
                  /\ pending' = [pending EXCEPT
                        ![i] = ReplacementFromRows(baseline[i], rs)]
    /\ UNCHANGED <<file, temp, baseline, unread, current>>

\* The answer Yes.  The message box dispatched refreshes meanwhile, through a
\* second reference to the same AppState: the rows captured are those of the
\* prompt or those of now.
WelcomeYes(i) ==
    /\ pc[i] = "welcome"
    /\ \E b \in {pending[i], ReplacementFromRows(baseline[i], rows[i])} : Save(i, b)
    /\ UNCHANGED <<file, temp, baseline, rows, asked, unread, current>>

\* The answer No, or the box closed: what was loaded is saved as it is.
WelcomeNo(i) ==
    /\ pc[i] = "welcome"
    /\ Save(i, Skipped(baseline[i]))
    /\ UNCHANGED <<file, temp, baseline, rows, asked, unread, current>>

-----------------------------------------------------------------------------
(* The user's commands; the window is disabled while a message box is up *)

RecordAnything(i) ==
    /\ pc[i] = "idle"
    /\ pc' = [pc EXCEPT ![i] = "confirm"]
    /\ pending' = [pending EXCEPT ![i] = ReplacementFromRows(baseline[i], rows[i])]
    /\ UNCHANGED <<file, temp, baseline, rows, asked, unread, current>>

\* record_baseline up to its confirmation.
Record(i) ==
    /\ pc[i] = "idle"
    /\ rows[i] # {}
    /\ pc' = [pc EXCEPT ![i] = "confirm"]
    /\ pending' = [pending EXCEPT ![i] = ReplacementFromRows(baseline[i], rows[i])]
    /\ UNCHANGED <<file, temp, baseline, rows, asked, unread, current>>

RecordYes(i) ==
    /\ pc[i] = "confirm"
    /\ Save(i, pending[i])
    /\ UNCHANGED <<file, temp, baseline, rows, asked, unread, current>>

RecordNo(i) ==
    /\ pc[i] = "confirm"
    /\ pc' = [pc EXCEPT ![i] = "idle"]
    /\ pending' = [pending EXCEPT ![i] = FirstRun]
    /\ UNCHANGED <<file, temp, baseline, rows, asked, unread, current>>

\* add_selected_to_baseline: p is the path of the selected row.
Allow(i, p) ==
    /\ pc[i] = "idle"
    /\ p \in rows[i] \ {NoPath}
    /\ p \notin baseline[i].state.allowed
    /\ Save(i, Allowed(baseline[i], p))
    /\ UNCHANGED <<file, temp, baseline, rows, asked, unread, current>>

\* remove_selected_from_baseline
Unallow(i, p) ==
    /\ pc[i] = "idle"
    /\ p \in rows[i] \cap baseline[i].state.allowed
    /\ Save(i, Unallowed(baseline[i], p))
    /\ UNCHANGED <<file, temp, baseline, rows, asked, unread, current>>

-----------------------------------------------------------------------------
(* State::save_atomic, one action per system call *)

\* The file truncated in place instead of replaced.
TruncateInPlace(i) ==
    /\ pc[i] = "open"
    /\ file' = [content |-> Torn, durable |-> FALSE]
    /\ temp' = [temp EXCEPT ![i] = [content |-> Torn, durable |-> FALSE]]
    /\ pc' = [pc EXCEPT ![i] = "write"]
    /\ UNCHANGED <<baseline, pending, rows, asked, unread, current>>

\* create_dir_all and open with truncate: the file is there and empty.
OpenTemp(i) ==
    /\ pc[i] = "open"
    /\ temp' = [temp EXCEPT ![i] = [content |-> Torn, durable |-> FALSE]]
    /\ pc' = [pc EXCEPT ![i] = "write"]
    /\ UNCHANGED <<file, baseline, pending, rows, asked, unread, current>>

WriteTemp(i) ==
    /\ pc[i] = "write"
    /\ temp' = [temp EXCEPT ![i].content = pending[i].state]
    /\ pc' = [pc EXCEPT ![i] = "sync"]
    /\ UNCHANGED <<file, baseline, pending, rows, asked, unread, current>>

NoFlush(i) ==
    /\ pc[i] = "sync"
    /\ pc' = [pc EXCEPT ![i] = "move"]
    /\ UNCHANGED <<file, temp, baseline, pending, rows, asked, unread, current>>

SyncTemp(i) ==
    /\ pc[i] = "sync"
    /\ temp' = [temp EXCEPT ![i].durable = TRUE]
    /\ pc' = [pc EXCEPT ![i] = "move"]
    /\ UNCHANGED <<file, baseline, pending, rows, asked, unread, current>>

\* MoveFileExW with REPLACE_EXISTING and WRITE_THROUGH.
MoveTemp(i) ==
    /\ pc[i] = "move"
    /\ file' = temp[i]
    /\ temp' = [temp EXCEPT ![i] = NoFile]
    /\ pc' = [pc EXCEPT ![i] = "saved"]
    /\ current' = {i}
    /\ UNCHANGED <<baseline, pending, rows, asked, unread>>

\* Any of the four calls fails: the temporary file is removed (if that fails
\* too, it is a file nothing reads) and the handler reports the error.
SaveFails(i) ==
    /\ pc[i] \in Saving
    /\ temp' = [temp EXCEPT ![i] = NoFile]
    /\ pc' = [pc EXCEPT ![i] = "idle"]
    /\ pending' = [pending EXCEPT ![i] = FirstRun]
    /\ UNCHANGED <<file, baseline, rows, asked, unread, current>>

\* save returned Ok: the replacement becomes the baseline, and the handlers
\* refresh (a scan that fails leaves the rows).
Publish(i) ==
    /\ pc[i] = "saved"
    /\ baseline' = [baseline EXCEPT ![i] = pending[i]]
    /\ \E rs \in RowSets \cup {rows[i]} : rows' = [rows EXCEPT ![i] = rs]
    /\ pc' = [pc EXCEPT ![i] = "idle"]
    /\ pending' = [pending EXCEPT ![i] = FirstRun]
    /\ UNCHANGED <<file, temp, asked, unread, current>>

-----------------------------------------------------------------------------
(* Endings *)

Stopped(S) ==
    /\ temp' = [i \in Instances |-> IF i \in S THEN NoFile ELSE temp[i]]
    /\ pc' = [i \in Instances |-> IF i \in S THEN "down" ELSE pc[i]]
    /\ baseline' = [i \in Instances |-> IF i \in S THEN FirstRun ELSE baseline[i]]
    /\ pending' = [i \in Instances |-> IF i \in S THEN FirstRun ELSE pending[i]]
    /\ rows' = [i \in Instances |-> IF i \in S THEN {} ELSE rows[i]]
    /\ asked' = [i \in Instances |-> IF i \in S THEN FALSE ELSE asked[i]]
    /\ unread' = [i \in Instances |-> IF i \in S THEN FALSE ELSE unread[i]]
    /\ current' = current \ S

\* The window is closed or the process is ended, at any step.  Nothing reads
\* a temporary file left behind: the name carries the PID, and open truncates.
Exit(i) ==
    /\ pc[i] # "down"
    /\ Stopped({i})
    /\ UNCHANGED file

\* What may be found of a file after the power failed.
Survivors(f) == {f} \cup (IF f.durable THEN {}
                          ELSE {NoFile, [content |-> Torn, durable |-> TRUE]})

PowerLoss ==
    /\ \E i \in Instances : pc[i] # "down"
    /\ file' \in Survivors(file)
    /\ Stopped(Instances)

Command(i) ==
    \/ Record(i) \/ RecordYes(i) \/ RecordNo(i)
    \/ \E p \in Paths : Allow(i, p) \/ Unallow(i, p)

SaveStep(i) ==
    OpenTemp(i) \/ WriteTemp(i) \/ SyncTemp(i) \/ MoveTemp(i) \/ SaveFails(i) \/ Publish(i)

Next ==
    \/ \E i \in Instances :
        Start(i) \/ Refresh(i) \/ WelcomeYes(i) \/ WelcomeNo(i)
          \/ Command(i) \/ SaveStep(i) \/ Exit(i)
    \/ PowerLoss

Spec == Init /\ [][Next]_vars

-----------------------------------------------------------------------------
(* Properties *)

\* Every variable keeps its type.
TypeOK ==
    /\ file \in Files
    /\ temp \in [Instances -> Files]
    /\ pc \in [Instances -> PCs]
    /\ baseline \in [Instances -> Baselines]
    /\ pending \in [Instances -> Baselines]
    /\ rows \in [Instances -> RowSets \cup {{}}]
    /\ asked \in [Instances -> BOOLEAN]
    /\ unread \in [Instances -> BOOLEAN]
    /\ current \in SUBSET Instances

\* Whatever crash, power loss or failed call falls between the steps of
\* save_atomic, state.json is never found half written.
DiskWhole == file.content # Torn

\* The comment of Baseline.load_error: an instance that could not read the
\* state file that was there never gets as far as writing it, whichever of the
\* handlers saves and however its replacement was built.
UnreadableKept ==
    \A i \in Instances : unread[i] => pc[i] \notin Saving \cup {"saved"}

\* What an instance goes on with is what the file holds, as long as no other
\* instance wrote it since: the handlers replace the baseline after save
\* returned Ok, never before, and a failed save changes neither.
InSync ==
    \A i \in current :
        file.content = (IF pc[i] = "saved" THEN pending[i] ELSE baseline[i]).state

\* A first-run choice that is in the file is not asked for again, whatever
\* crashes and restarts lie between.
NotAskedAgain ==
    \A i \in current : pc[i] = "welcome" => ~file.content.onboarded

\* The file is written by an instance only after the user was asked in this
\* session or had answered in an earlier one: Record all and Allow are out of
\* reach until a scan has put rows on the screen, and the scan asks.
AskedBeforeWritten ==
    \A i \in Instances : pc[i] \in Saving \cup {"saved", "confirm"} => asked[i]

-----------------------------------------------------------------------------
(* The steps above implement the register of StateRegister *)

\* What instance i goes on with: the replacement from the moment it is on disk.
View(i) ==
    [up   |-> pc[i] # "down",
     held |-> IF pc[i] = "saved" THEN pending[i] ELSE baseline[i]]

Register == INSTANCE StateRegister
    WITH disk <- file.content, view <- [i \in Instances |-> View(i)]

\* The state file behaves as one register: each change of it is a whole choice
\* of the user, made on the baseline that instance held, and the instance
\* holds it from then on; no failure and no crash shows anything between.
ImplementsRegister == Register!RegisterSpec
=============================================================================
