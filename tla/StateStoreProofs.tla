------------------------- MODULE StateStoreProofs -------------------------
(***************************************************************************)
(* What is proved of StateStore, for any number of instances, any paths,   *)
(* any scans and any contents the file may start with.                     *)
(*                                                                         *)
(* The properties are consequences of one inductive invariant, Inv.  What  *)
(* it adds to them is what the steps of a handler owe each other: how the  *)
(* replacement was made from the baseline, that the temporary file holds   *)
(* it before it is moved and is on the disk by then, and that a session    *)
(* shows rows only after it asked.                                         *)
(***************************************************************************)
EXTENDS StateStore, TLAPS

\* A handler has a replacement and has not returned.
Busy(i)    == pc[i] \notin {"down", "idle"}
Writing(i) == pc[i] \in Saving \cup {"saved"}

\* The replacement is a choice of the user made on the baseline.
ReplacementOK(i) ==
    Busy(i) => /\ pending[i].blocked = baseline[i].blocked
               /\ pending[i].state \in Register!Choices(baseline[i].state)
               /\ Writing(i) => ~pending[i].blocked

\* The temporary file holds the replacement, and it does so after a crash.
TempOK(i) ==
    /\ pc[i] \in {"sync", "move"} => temp[i].content = pending[i].state
    /\ pc[i] = "move" => temp[i].durable

AskedOK(i) ==
    /\ rows[i] # {} \/ Busy(i) => asked[i]
    /\ pc[i] # "down" /\ (~asked[i] \/ pc[i] = "welcome") => ~baseline[i].state.onboarded

DownOK(i) == pc[i] = "down" => rows[i] = {} /\ i \notin current

UnreadOK(i) == unread[i] => MetadataMayFail \/ baseline[i].blocked

InstanceOK(i) == ReplacementOK(i) /\ TempOK(i) /\ AskedOK(i) /\ DownOK(i) /\ UnreadOK(i)

FileOK == file.durable /\ file.content # Torn

Inv == TypeOK /\ FileOK /\ InSync /\ \A i \in Instances : InstanceOK(i)

-----------------------------------------------------------------------------
(* The handlers' arithmetic on baselines *)

\* What a load may give is a baseline, and only a file that was read counts
\* as read; an unreadable file blocks, unless its metadata failed as well.
LEMMA LoadResultsOK ==
    ASSUME NEW content \in Contents, NEW l \in LoadResults(content)
    PROVE  /\ l.baseline \in Baselines
           /\ l.read \in BOOLEAN
           /\ l.read => content = l.baseline.state
           /\ (content # Absent /\ ~l.read) => (MetadataMayFail \/ l.baseline.blocked)
<1>1. /\ FirstRun \in Baselines /\ Unloaded \in Baselines /\ Imported \in Baselines
      /\ Unloaded.blocked = TRUE
  BY RowSetsAssumption DEF FirstRun, Unloaded, Imported, Empty, Baselines, States
<1>2. \A st \in States : FromState(st) \in Baselines /\ FromState(st).state = st
  BY DEF FromState, Baselines
<1>3. CASE content \in States /\ l \in Loaded({FromState(content)}, TRUE)
  BY <1>2, <1>3 DEF Loaded
<1>4. CASE content # Absent /\ l \in Loaded({Unloaded}, FALSE)
  BY <1>1, <1>4 DEF Loaded
<1>5. CASE (content = Absent \/ MetadataMayFail) /\ l \in Loaded({FirstRun, Imported}, FALSE)
  BY <1>1, <1>5 DEF Loaded
<1>6. QED
  BY <1>3, <1>4, <1>5 DEF LoadResults

\* c is a baseline made from b by a choice of the user, blocked if b is.
Derived(c, b) ==
    c \in Baselines /\ c.blocked = b.blocked /\ c.state \in Register!Choices(b.state)

\* Each replacement a handler makes is derived from the baseline it is made from.
LEMMA ReplacementsDerived ==
    ASSUME NEW b \in Baselines
    PROVE  /\ \A rs \in RowSets \cup {{}} : Derived(ReplacementFromRows(b, rs), b)
           /\ \A p \in Paths : Derived(Allowed(b, p), b) /\ Derived(Unallowed(b, p), b)
           /\ Derived(Skipped(b), b)
<1>1. b.state \in States /\ b.blocked \in BOOLEAN /\ b = [state |-> b.state, blocked |-> b.blocked]
  BY DEF Baselines
<1>2. ASSUME NEW rs \in RowSets \cup {{}} PROVE Derived(ReplacementFromRows(b, rs), b)
  <2>1. rs \ {NoPath} \in SUBSET Paths
    BY RowSetsAssumption
  <2>2. QED
    BY <1>1, <2>1 DEF Derived, ReplacementFromRows, Register!Choices, Baselines, States
<1>3. ASSUME NEW p \in Paths PROVE Derived(Allowed(b, p), b)
  BY <1>1 DEF Derived, Allowed, Register!Choices, Baselines, States
<1>4. ASSUME NEW p \in Paths PROVE Derived(Unallowed(b, p), b)
  BY <1>1 DEF Derived, Unallowed, Register!Choices, Baselines, States
<1>5. Derived(Skipped(b), b)
  BY <1>1 DEF Derived, Skipped, Register!Choices, Baselines, States
<1>6. QED
  BY <1>2, <1>3, <1>4, <1>5

-----------------------------------------------------------------------------
(* The inductive invariant *)

LEMMA InvInit == ASSUME Init PROVE Inv
<1>1. FirstRun \in Baselines
  BY DEF FirstRun, Empty, Baselines, States
<1>2. TypeOK
  BY <1>1, ContentsAssumption DEF Init, TypeOK, Files, Contents, NoFile, PCs
<1>3. FileOK /\ InSync
  BY DEF Init, FileOK, InSync, Contents
<1>4. ASSUME NEW i \in Instances PROVE InstanceOK(i)
  BY DEF Init, InstanceOK, ReplacementOK, TempOK, AskedOK, DownOK, UnreadOK, Busy
<1>5. QED
  BY <1>2, <1>3, <1>4 DEF Inv

\* Starting: the baseline is what was loaded.
LEMMA StartInv == ASSUME Inv, NEW i \in Instances, Start(i) PROVE Inv'
<1>1. PICK l \in LoadResults(file.content) :
        /\ baseline' = [baseline EXCEPT ![i] = l.baseline]
        /\ asked' = [asked EXCEPT ![i] = l.baseline.state.onboarded]
        /\ unread' = [unread EXCEPT ![i] = file.content # Absent /\ ~l.read]
        /\ current' = IF l.read THEN current \cup {i} ELSE current
  BY DEF Start
<1>2. file.content \in Contents
  BY DEF Inv, TypeOK, Files
<1>3. /\ l.baseline \in Baselines
      /\ l.baseline.state.onboarded \in BOOLEAN
      /\ l.read \in BOOLEAN
      /\ l.read => file.content = l.baseline.state
      /\ (file.content # Absent /\ ~l.read) => (MetadataMayFail \/ l.baseline.blocked)
  BY <1>2, LoadResultsOK DEF Baselines, States
<1>4. pc[i] = "down" /\ pc' = [pc EXCEPT ![i] = "idle"] /\ UNCHANGED <<file, temp, pending, rows>>
  BY DEF Start
<1>5. TypeOK'
  BY <1>1, <1>3, <1>4 DEF Inv, TypeOK, PCs
<1>6. FileOK' /\ InSync'
  BY <1>1, <1>3, <1>4 DEF Inv, TypeOK, FileOK, InSync, InstanceOK, DownOK
<1>7. ASSUME NEW j \in Instances PROVE InstanceOK(j)'
  <2>1. InstanceOK(j)
    BY DEF Inv
  <2>2. CASE j = i
    BY <1>1, <1>3, <1>4, <2>1, <2>2
       DEF Inv, TypeOK, InstanceOK, ReplacementOK, TempOK, AskedOK, DownOK, UnreadOK, Busy
  <2>3. CASE j # i
    BY <1>1, <1>4, <2>1, <2>3 DEF Inv, TypeOK, InstanceOK, ReplacementOK, TempOK,
       AskedOK, DownOK, UnreadOK, Busy, Writing
  <2>4. QED
    BY <2>2, <2>3
<1>8. QED
  BY <1>5, <1>6, <1>7 DEF Inv

\* What a handler that waits for the user may do to its instance, apart from
\* saving: go to q with the replacement b, the rows rs and asked as given.
Handles(i, q, b, rs, ak) ==
    /\ pc[i] \in {"idle", "welcome", "confirm"}
    /\ q \in {"idle", "welcome", "confirm", "open"}
    /\ b \in Baselines
    /\ rs \in RowSets \cup {{}}
    /\ ak \in BOOLEAN
    /\ q # "idle" => Derived(b, baseline[i])
    /\ q = "open" => ~b.blocked
    /\ asked[i] \/ q # "idle" \/ rs # {} => ak
    /\ q = "welcome" => ~baseline[i].state.onboarded
    /\ pc' = [pc EXCEPT ![i] = q]
    /\ pending' = [pending EXCEPT ![i] = b]
    /\ rows' = [rows EXCEPT ![i] = rs]
    /\ asked' = [asked EXCEPT ![i] = ak]
    /\ UNCHANGED <<file, temp, baseline, unread, current>>

LEMMA HandlesInv ==
    ASSUME Inv, NEW i \in Instances, NEW q, NEW b, NEW rs, NEW ak, Handles(i, q, b, rs, ak)
    PROVE  Inv'
<1>1. TypeOK'
  BY DEF Inv, Handles, TypeOK, PCs, Saving
<1>2. FileOK' /\ InSync'
  BY DEF Handles, Inv, TypeOK, FileOK, InSync
<1>3. ASSUME NEW j \in Instances PROVE InstanceOK(j)'
  <2>1. InstanceOK(j)
    BY DEF Inv
  <2>2. CASE j = i
    <3>1. /\ pc'[i] = q /\ pending'[i] = b /\ rows'[i] = rs /\ asked'[i] = ak
          /\ baseline'[i] = baseline[i] /\ temp'[i] = temp[i] /\ unread'[i] = unread[i]
          /\ current' = current
      BY DEF Inv, TypeOK, Handles
    <3>2. ReplacementOK(i)'
      BY <3>1 DEF Handles, ReplacementOK, Busy, Writing, Saving, Derived
    <3>3. TempOK(i)' /\ DownOK(i)' /\ UnreadOK(i)'
      BY <2>1, <2>2, <3>1 DEF Handles, InstanceOK, TempOK, DownOK, UnreadOK
    <3>4. AskedOK(i)'
      BY <2>1, <2>2, <3>1 DEF Handles, InstanceOK, AskedOK, Busy
    <3>5. QED
      BY <2>2, <3>2, <3>3, <3>4 DEF InstanceOK
  <2>3. CASE j # i
    BY <2>1, <2>3 DEF Handles, Inv, TypeOK, InstanceOK, ReplacementOK, TempOK,
       AskedOK, DownOK, UnreadOK, Busy, Writing
  <2>4. QED
    BY <2>2, <2>3
<1>4. QED
  BY <1>1, <1>2, <1>3 DEF Inv

\* Baseline::save of a derived replacement is such a step.
LEMMA SaveHandles ==
    ASSUME Inv, NEW i \in Instances, NEW b \in Baselines, Save(i, b),
           Derived(b, baseline[i]), asked[i],
           pc[i] \in {"idle", "welcome", "confirm"},
           UNCHANGED <<file, temp, baseline, rows, asked, unread, current>>
    PROVE  Inv'
<1>1. FirstRun \in Baselines
  BY DEF FirstRun, Empty, Baselines, States
<1>2. rows' = [rows EXCEPT ![i] = rows[i]] /\ asked' = [asked EXCEPT ![i] = asked[i]]
      /\ rows[i] \in RowSets \cup {{}} /\ asked[i] \in BOOLEAN
  BY DEF Inv, TypeOK
<1>3. CASE b.blocked
  <2>1. Handles(i, "idle", FirstRun, rows[i], asked[i])
    BY <1>1, <1>2, <1>3 DEF Save, Handles
  <2>2. QED
    BY <2>1, HandlesInv
<1>4. CASE ~b.blocked
  <2>1. Handles(i, "open", b, rows[i], asked[i])
    BY <1>2, <1>4 DEF Save, Handles
  <2>2. QED
    BY <2>1, HandlesInv
<1>5. QED
  BY <1>3, <1>4

LEMMA RefreshInv == ASSUME Inv, NEW i \in Instances, Refresh(i) PROVE Inv'
<1>1. PICK rs \in RowSets :
        /\ rows' = [rows EXCEPT ![i] = rs]
        /\ IF asked[i]
             THEN UNCHANGED <<pc, pending, asked>>
             ELSE /\ pc' = [pc EXCEPT ![i] = "welcome"]
                  /\ asked' = [asked EXCEPT ![i] = TRUE]
                  /\ pending' = [pending EXCEPT ![i] = ReplacementFromRows(baseline[i], rs)]
  BY DEF Refresh
<1>2. pc[i] \in {"idle", "welcome", "confirm"} /\ UNCHANGED <<file, temp, baseline, unread, current>>
  BY DEF Refresh, Dispatching
<1>3. InstanceOK(i) /\ baseline[i] \in Baselines /\ pending[i] \in Baselines
  BY DEF Inv, TypeOK
<1>4. CASE asked[i]
  <2>1. /\ pc' = [pc EXCEPT ![i] = pc[i]] /\ pending' = [pending EXCEPT ![i] = pending[i]]
        /\ asked' = [asked EXCEPT ![i] = TRUE]
    BY <1>1, <1>4 DEF Inv, TypeOK
  <2>2. pc[i] # "idle" => Derived(pending[i], baseline[i])
    BY <1>2, <1>3 DEF InstanceOK, ReplacementOK, Busy, Derived
  <2>3. pc[i] = "welcome" => ~baseline[i].state.onboarded
    BY <1>3 DEF InstanceOK, AskedOK
  <2>4. Handles(i, pc[i], pending[i], rs, TRUE)
    BY <1>1, <1>2, <1>3, <2>1, <2>2, <2>3 DEF Handles
  <2>5. QED
    BY <2>4, HandlesInv
<1>5. CASE ~asked[i]
  <2>1. Derived(ReplacementFromRows(baseline[i], rs), baseline[i])
    BY <1>3, ReplacementsDerived
  <2>2. ~baseline[i].state.onboarded
    BY <1>2, <1>3, <1>5 DEF InstanceOK, AskedOK
  <2>3. Handles(i, "welcome", ReplacementFromRows(baseline[i], rs), rs, TRUE)
    BY <1>1, <1>2, <1>5, <2>1, <2>2 DEF Handles, Derived
  <2>4. QED
    BY <2>3, HandlesInv
<1>6. QED
  BY <1>4, <1>5

LEMMA WelcomeInv ==
    ASSUME Inv, NEW i \in Instances, WelcomeYes(i) \/ WelcomeNo(i) PROVE Inv'
<1>1. /\ pc[i] = "welcome"
      /\ UNCHANGED <<file, temp, baseline, rows, asked, unread, current>>
  BY DEF WelcomeYes, WelcomeNo
<1>2. /\ baseline[i] \in Baselines /\ pending[i] \in Baselines /\ rows[i] \in RowSets \cup {{}}
      /\ asked[i] /\ Derived(pending[i], baseline[i])
  BY <1>1 DEF Inv, TypeOK, InstanceOK, AskedOK, ReplacementOK, Busy, Derived
<1>3. /\ Derived(ReplacementFromRows(baseline[i], rows[i]), baseline[i])
      /\ Derived(Skipped(baseline[i]), baseline[i])
  BY <1>2, ReplacementsDerived
<1>4. PICK b : Save(i, b) /\ Derived(b, baseline[i])
  BY <1>2, <1>3 DEF WelcomeYes, WelcomeNo
<1>5. QED
  BY <1>1, <1>2, <1>4, SaveHandles DEF Derived

LEMMA CommandInv == ASSUME Inv, NEW i \in Instances, Command(i) PROVE Inv'
<1> DEFINE Rest == UNCHANGED <<file, temp, baseline, rows, asked, unread, current>>
<1>1. /\ baseline[i] \in Baselines /\ pending[i] \in Baselines /\ rows[i] \in RowSets \cup {{}}
      /\ asked[i] \in BOOLEAN /\ InstanceOK(i)
      /\ rows = [rows EXCEPT ![i] = rows[i]] /\ asked = [asked EXCEPT ![i] = asked[i]]
  BY DEF Inv, TypeOK
<1>2. CASE Record(i)
  <2>1. asked[i] /\ Derived(ReplacementFromRows(baseline[i], rows[i]), baseline[i])
    BY <1>1, <1>2, ReplacementsDerived DEF Record, InstanceOK, AskedOK
  <2>2. Handles(i, "confirm", ReplacementFromRows(baseline[i], rows[i]), rows[i], TRUE)
    BY <1>1, <1>2, <2>1 DEF Record, Handles, Derived
  <2>3. QED
    BY <2>2, HandlesInv
<1>3. CASE RecordYes(i)
  <2>1. pc[i] = "confirm" /\ asked[i] /\ Derived(pending[i], baseline[i])
    BY <1>1, <1>3 DEF RecordYes, InstanceOK, AskedOK, ReplacementOK, Busy, Derived
  <2>2. QED
    BY <1>1, <1>3, <2>1, SaveHandles DEF RecordYes
<1>4. CASE RecordNo(i)
  <2>1. FirstRun \in Baselines
    BY DEF FirstRun, Empty, Baselines, States
  <2>2. rows[i] # {} => asked[i]
    BY <1>1 DEF InstanceOK, AskedOK
  <2>3. Handles(i, "idle", FirstRun, rows[i], asked[i])
    BY <1>1, <1>4, <2>1, <2>2 DEF RecordNo, Handles
  <2>4. QED
    BY <2>3, HandlesInv
<1>5. ASSUME NEW p \in Paths, Allow(i, p) \/ Unallow(i, p) PROVE Inv'
  <2>1. Derived(Allowed(baseline[i], p), baseline[i]) /\ Derived(Unallowed(baseline[i], p), baseline[i])
    BY <1>1, ReplacementsDerived
  <2>2. PICK b : Save(i, b) /\ Derived(b, baseline[i])
    BY <1>5, <2>1 DEF Allow, Unallow
  <2>3. pc[i] = "idle" /\ asked[i] /\ Rest
    BY <1>1, <1>5 DEF Allow, Unallow, InstanceOK, AskedOK
  <2>4. QED
    BY <2>2, <2>3, SaveHandles DEF Derived
<1>6. QED
  BY <1>2, <1>3, <1>4, <1>5 DEF Command

\* save_atomic up to the move, and its failures: state.json is not touched.
LEMMA TempInv ==
    ASSUME Inv, NEW i \in Instances,
           OpenTemp(i) \/ WriteTemp(i) \/ SyncTemp(i) \/ SaveFails(i)
    PROVE  Inv'
<1>1. /\ UNCHANGED <<file, baseline, rows, asked, unread, current>>
      /\ pc[i] \in Saving
      /\ \E q \in {"idle", "write", "sync", "move"} :
            /\ pc' = [pc EXCEPT ![i] = q]
            /\ q # "idle" => pending' = pending
            /\ q = "idle" => pending' = [pending EXCEPT ![i] = FirstRun]
  BY DEF OpenTemp, WriteTemp, SyncTemp, SaveFails, Saving
<1>2. \E t \in Files : /\ temp' = [temp EXCEPT ![i] = t]
                       /\ pc'[i] \in {"sync", "move"} => t.content = pending'[i].state
                       /\ pc'[i] = "move" => t.durable
  <2>1. pending[i].state \in Contents /\ temp[i] \in Files /\ InstanceOK(i)
    BY DEF Inv, TypeOK, Baselines, Contents
  <2>2. CASE OpenTemp(i)
    <3>1. [content |-> Torn, durable |-> FALSE] \in Files
      BY DEF Files, Contents
    <3>2. QED
      BY <2>2, <3>1 DEF OpenTemp, Inv, TypeOK
  <2>3. CASE WriteTemp(i)
    <3>1. [temp[i] EXCEPT !.content = pending[i].state] \in Files
      BY <2>1 DEF Files
    <3>2. [temp[i] EXCEPT !.content = pending[i].state].content = pending[i].state
      BY <2>1 DEF Files
    <3>3. temp' = [temp EXCEPT ![i] = [temp[i] EXCEPT !.content = pending[i].state]]
      BY <2>3 DEF WriteTemp
    <3>4. pc'[i] = "sync" /\ pending' = pending
      BY <2>3 DEF WriteTemp, Inv, TypeOK
    <3>5. QED
      BY <3>1, <3>2, <3>3, <3>4
  <2>4. CASE SyncTemp(i)
    <3>1. [temp[i] EXCEPT !.durable = TRUE] \in Files
          /\ [temp[i] EXCEPT !.durable = TRUE].content = temp[i].content
          /\ [temp[i] EXCEPT !.durable = TRUE].durable
      BY <2>1 DEF Files
    <3>2. temp' = [temp EXCEPT ![i] = [temp[i] EXCEPT !.durable = TRUE]]
      BY <2>4 DEF SyncTemp
    <3>3. pc[i] = "sync" /\ pending' = pending
      BY <2>4 DEF SyncTemp
    <3>4. temp[i].content = pending[i].state
      BY <2>1, <3>3 DEF InstanceOK, TempOK
    <3>5. QED
      BY <3>1, <3>2, <3>3, <3>4
  <2>5. CASE SaveFails(i)
    <3>1. NoFile \in Files
      BY DEF NoFile, Files, Contents
    <3>2. QED
      BY <2>5, <3>1 DEF SaveFails, Inv, TypeOK
  <2>6. QED
    BY <2>2, <2>3, <2>4, <2>5
<1>3. TypeOK'
  <2>1. FirstRun \in Baselines
    BY DEF FirstRun, Empty, Baselines, States
  <2>2. QED
    BY <1>1, <1>2, <2>1 DEF Inv, TypeOK, PCs, Saving
<1>4. FileOK' /\ InSync'
  BY <1>1 DEF Inv, TypeOK, FileOK, InSync, Saving
<1>5. ASSUME NEW j \in Instances PROVE InstanceOK(j)'
  <2>1. InstanceOK(j)
    BY DEF Inv
  <2>2. CASE j = i
    <3>1. ReplacementOK(i)' /\ AskedOK(i)' /\ DownOK(i)' /\ UnreadOK(i)'
      BY <1>1, <2>1, <2>2 DEF Inv, TypeOK, InstanceOK, ReplacementOK, AskedOK, DownOK,
         UnreadOK, Busy, Writing, Saving
    <3>2. TempOK(i)'
      BY <1>1, <1>2 DEF Inv, TypeOK, TempOK
    <3>3. QED
      BY <2>2, <3>1, <3>2 DEF InstanceOK
  <2>3. CASE j # i
    BY <1>1, <1>2, <2>1, <2>3 DEF Inv, TypeOK, InstanceOK, ReplacementOK, TempOK,
       AskedOK, DownOK, UnreadOK, Busy, Writing
  <2>4. QED
    BY <2>2, <2>3
<1>6. QED
  BY <1>3, <1>4, <1>5 DEF Inv

\* The move: the file holds the replacement, which is whole and on the disk.
LEMMA MoveInv == ASSUME Inv, NEW i \in Instances, MoveTemp(i) PROVE Inv'
<1>1. /\ pc[i] = "move" /\ pc' = [pc EXCEPT ![i] = "saved"]
      /\ file' = temp[i] /\ temp' = [temp EXCEPT ![i] = NoFile]
      /\ current' = {i} /\ UNCHANGED <<baseline, pending, rows, asked, unread>>
  BY DEF MoveTemp
<1>2. /\ temp[i].content = pending[i].state /\ temp[i].durable
      /\ temp[i] \in Files /\ pending[i].state \in States
  BY <1>1 DEF Inv, TypeOK, InstanceOK, TempOK, Baselines
<1>3. TypeOK'
  <2>1. NoFile \in Files
    BY DEF NoFile, Files, Contents
  <2>2. QED
    BY <1>1, <1>2, <2>1 DEF Inv, TypeOK, PCs
<1>4. FileOK' /\ InSync'
  BY <1>1, <1>2, ContentsAssumption DEF Inv, TypeOK, FileOK, InSync
<1>5. ASSUME NEW j \in Instances PROVE InstanceOK(j)'
  <2>1. InstanceOK(j)
    BY DEF Inv
  <2>2. CASE j = i
    BY <1>1, <2>1, <2>2 DEF Inv, TypeOK, InstanceOK, ReplacementOK, TempOK, AskedOK, DownOK,
       UnreadOK, Busy, Writing, Saving
  <2>3. CASE j # i
    BY <1>1, <2>1, <2>3 DEF Inv, TypeOK, InstanceOK, ReplacementOK, TempOK,
       AskedOK, DownOK, UnreadOK, Busy, Writing
  <2>4. QED
    BY <2>2, <2>3
<1>6. QED
  BY <1>3, <1>4, <1>5 DEF Inv

LEMMA PublishInv == ASSUME Inv, NEW i \in Instances, Publish(i) PROVE Inv'
<1>1. PICK rs \in RowSets \cup {rows[i]} : rows' = [rows EXCEPT ![i] = rs]
  BY DEF Publish
<1>2. /\ pc[i] = "saved" /\ pc' = [pc EXCEPT ![i] = "idle"]
      /\ baseline' = [baseline EXCEPT ![i] = pending[i]]
      /\ pending' = [pending EXCEPT ![i] = FirstRun]
      /\ UNCHANGED <<file, temp, asked, unread, current>>
  BY DEF Publish
<1>3. InstanceOK(i) /\ pending[i] \in Baselines /\ FirstRun \in Baselines /\ asked[i]
  BY <1>2 DEF Inv, TypeOK, InstanceOK, AskedOK, Busy, FirstRun, Empty, Baselines, States
<1>4. TypeOK'
  BY <1>1, <1>2, <1>3 DEF Inv, TypeOK, PCs
<1>5. FileOK' /\ InSync'
  BY <1>2 DEF Inv, TypeOK, FileOK, InSync
<1>6. ASSUME NEW j \in Instances PROVE InstanceOK(j)'
  <2>1. InstanceOK(j)
    BY DEF Inv
  <2>2. CASE j = i
    BY <1>1, <1>2, <1>3, <2>1, <2>2 DEF Inv, TypeOK, InstanceOK, ReplacementOK, TempOK,
       AskedOK, DownOK, UnreadOK, Busy, Writing, Saving
  <2>3. CASE j # i
    BY <1>1, <1>2, <2>1, <2>3 DEF Inv, TypeOK, InstanceOK, ReplacementOK, TempOK,
       AskedOK, DownOK, UnreadOK, Busy, Writing
  <2>4. QED
    BY <2>2, <2>3
<1>7. QED
  BY <1>4, <1>5, <1>6 DEF Inv

\* Stopping some or all instances keeps a durable file as it is.
LEMMA StopInv ==
    ASSUME Inv, NEW S \in SUBSET Instances, Stopped(S), UNCHANGED file PROVE Inv'
<1>1. TypeOK'
  <2>1. FirstRun \in Baselines /\ NoFile \in Files
    BY DEF FirstRun, Empty, Baselines, States, NoFile, Files, Contents
  <2>2. QED
    BY <2>1 DEF Inv, TypeOK, Stopped, PCs
<1>2. FileOK' /\ InSync'
  BY DEF Inv, TypeOK, FileOK, InSync, Stopped
<1>3. ASSUME NEW j \in Instances PROVE InstanceOK(j)'
  <2>1. InstanceOK(j)
    BY DEF Inv
  <2>2. CASE j \in S
    BY <2>2 DEF Inv, TypeOK, Stopped, InstanceOK, ReplacementOK, TempOK, AskedOK, DownOK,
       UnreadOK, Busy
  <2>3. CASE j \notin S
    BY <2>1, <2>3 DEF Inv, TypeOK, Stopped, InstanceOK, ReplacementOK, TempOK, AskedOK,
       DownOK, UnreadOK, Busy, Writing
  <2>4. QED
    BY <2>2, <2>3
<1>4. QED
  BY <1>1, <1>2, <1>3 DEF Inv

LEMMA PowerLossKeepsFile == ASSUME Inv, PowerLoss PROVE UNCHANGED file
BY DEF Inv, FileOK, PowerLoss, Survivors

LEMMA InvNext == ASSUME Inv, [Next]_vars PROVE Inv'
<1>1. ASSUME NEW i \in Instances, SaveStep(i) PROVE Inv'
  BY <1>1, TempInv, MoveInv, PublishInv DEF SaveStep
<1>2. ASSUME NEW i \in Instances, Exit(i) PROVE Inv'
  <2>1. {i} \in SUBSET Instances /\ Stopped({i}) /\ UNCHANGED file
    BY <1>2 DEF Exit
  <2>2. QED
    BY <2>1, StopInv
<1>3. CASE PowerLoss
  <2>1. Instances \in SUBSET Instances /\ Stopped(Instances) /\ UNCHANGED file
    BY <1>3, PowerLossKeepsFile DEF PowerLoss
  <2>2. QED
    BY <2>1, StopInv
<1>4. CASE UNCHANGED vars
  BY <1>4 DEF vars, Inv, TypeOK, FileOK, InSync, InstanceOK, ReplacementOK, TempOK, AskedOK,
     DownOK, UnreadOK, Busy, Writing
<1>5. QED
  BY <1>1, <1>2, <1>3, <1>4, StartInv, RefreshInv, WelcomeInv, CommandInv DEF Next

-----------------------------------------------------------------------------
(* The theorems *)

\* The inductive invariant holds in every reachable state.
THEOREM Invariance == Spec => []Inv
<1>1. Init => Inv
  BY InvInit
<1>2. Inv /\ [Next]_vars => Inv'
  BY InvNext
<1>3. QED
  BY <1>1, <1>2, PTL DEF Spec

\* Every variable keeps its type.
THEOREM TypeCorrect == Spec => []TypeOK
<1>1. Inv => TypeOK
  BY DEF Inv
<1>2. QED
  BY <1>1, Invariance, PTL

\* However save_atomic is cut short, state.json is never half written.
THEOREM FileNeverTorn == Spec => []DiskWhole
<1>1. Inv => DiskWhole
  BY DEF Inv, FileOK, DiskWhole
<1>2. QED
  BY <1>1, Invariance, PTL

\* As long as exists() tells an unreadable file from none, an instance that
\* could not read the file that was there never starts to write it.
THEOREM UnreadNeverWritten == ASSUME ~MetadataMayFail PROVE Spec => []UnreadableKept
<1>1. Inv => UnreadableKept
  BY DEF Inv, InstanceOK, UnreadOK, ReplacementOK, Writing, Busy, Saving, UnreadableKept
<1>2. QED
  BY <1>1, Invariance, PTL

\* The baseline in memory is what the file holds, until another instance writes.
THEOREM MemoryMatchesFile == Spec => []InSync
<1>1. Inv => InSync
  BY DEF Inv
<1>2. QED
  BY <1>1, Invariance, PTL

\* A choice that is in the file is not asked for again.
THEOREM ChoiceAskedOnce == Spec => []NotAskedAgain
<1>1. Inv => NotAskedAgain
  BY DEF Inv, TypeOK, InSync, InstanceOK, AskedOK, NotAskedAgain
<1>2. QED
  BY <1>1, Invariance, PTL

\* Nothing is written by a session that has not asked and was not told before.
THEOREM NeverWrittenUnasked == Spec => []AskedBeforeWritten
<1>1. Inv => AskedBeforeWritten
  BY DEF Inv, InstanceOK, AskedOK, Busy, Saving, AskedBeforeWritten
<1>2. QED
  BY <1>1, Invariance, PTL

-----------------------------------------------------------------------------
(* The implementation of StateRegister *)

Views == [j \in Instances |-> View(j)]

\* The initial file is a register that nobody holds.
LEMMA RegisterInitial == ASSUME Init PROVE Register!RegisterInit
<1>1. file.content \in Register!Register
  BY ContentsAssumption DEF Init, Contents, States, Register!Register, Register!Saved
<1>2. ASSUME NEW j \in Instances PROVE View(j) = Register!Closed
  BY DEF Init, View, FirstRun, Empty, Register!Closed, Register!Nothing
<1>3. QED
  BY <1>1, <1>2 DEF Register!RegisterInit

\* What a load may give is what the register may give.
LEMMA LoadableOK ==
    ASSUME NEW content \in Contents, NEW l \in LoadResults(content)
    PROVE  [up |-> TRUE, held |-> l.baseline] \in Register!Loadable(content)
<1>1. CASE content \in States /\ l \in Loaded({FromState(content)}, TRUE)
  BY <1>1 DEF Loaded, FromState, Register!Loadable, Register!Open, Register!Saved, States
<1>2. CASE content # Absent /\ l \in Loaded({Unloaded}, FALSE)
  BY <1>2 DEF Loaded, Unloaded, Empty, Register!Loadable, Register!Open, Register!Nothing
<1>3. CASE (content = Absent \/ MetadataMayFail) /\ l \in Loaded({FirstRun, Imported}, FALSE)
  <2>1. [up |-> TRUE, held |-> l.baseline] \in Register!FreshStart
    BY <1>3 DEF Loaded, FirstRun, Imported, Empty,
       Register!FreshStart, Register!Open, Register!Nothing
  <2>2. QED
    BY <1>3, <2>1 DEF Register!Loadable
<1>4. QED
  BY <1>1, <1>2, <1>3 DEF LoadResults

LEMMA StartLoads == ASSUME Inv, NEW i \in Instances, Start(i) PROVE Register!Load(i)
<1>1. PICK l \in LoadResults(file.content) : baseline' = [baseline EXCEPT ![i] = l.baseline]
  BY DEF Start
<1>2. pc[i] = "down" /\ pc' = [pc EXCEPT ![i] = "idle"] /\ UNCHANGED <<file, pending>>
  BY DEF Start
<1>3. [up |-> TRUE, held |-> l.baseline] \in Register!Loadable(file.content)
  BY LoadableOK DEF Inv, TypeOK, Files
<1>4. View(i)' = [up |-> TRUE, held |-> l.baseline] /\ ~View(i).up
  BY <1>1, <1>2 DEF Inv, TypeOK, View
<1>5. \A j \in Instances \ {i} : View(j)' = View(j)
  BY <1>1, <1>2 DEF Inv, TypeOK, View
<1>6. Views' = [Views EXCEPT ![i] = [up |-> TRUE, held |-> l.baseline]]
  BY <1>4, <1>5 DEF Views
<1>7. QED
  BY <1>2, <1>3, <1>4, <1>6 DEF Register!Load, Views

\* The move is the one step that writes, and writes a choice made on the baseline.
LEMMA MoveWrites == ASSUME Inv, NEW i \in Instances, MoveTemp(i) PROVE Register!Write(i)
<1>1. /\ pc[i] = "move" /\ pc' = [pc EXCEPT ![i] = "saved"]
      /\ file' = temp[i] /\ UNCHANGED <<baseline, pending>>
  BY DEF MoveTemp
<1>2. InstanceOK(i) /\ pending[i] \in Baselines
  BY DEF Inv, TypeOK
<1>3. /\ file'.content = pending[i].state
      /\ pending[i].state \in Register!Choices(baseline[i].state)
      /\ pending[i].blocked = FALSE /\ baseline[i].blocked = FALSE
  BY <1>1, <1>2 DEF InstanceOK, TempOK, ReplacementOK, Busy, Writing, Saving, Baselines
<1>4. View(i).up /\ View(i).held = baseline[i]
  BY <1>1 DEF View
<1>5. View(i)' = Register!Open(file'.content, FALSE)
  BY <1>1, <1>2, <1>3 DEF Inv, TypeOK, View, Baselines, Register!Open
<1>6. \A j \in Instances \ {i} : View(j)' = View(j)
  BY <1>1 DEF Inv, TypeOK, View
<1>7. Views' = [Views EXCEPT ![i] = Register!Open(file'.content, FALSE)]
  BY <1>5, <1>6 DEF Views
<1>8. QED
  BY <1>3, <1>4, <1>7 DEF Register!Write, Views

LEMMA StopStops ==
    ASSUME NEW S \in SUBSET Instances, Stopped(S), UNCHANGED file
    PROVE  Register!Stop(S)
<1>1. ASSUME NEW j \in Instances
      PROVE  View(j)' = IF j \in S THEN Register!Closed ELSE View(j)
  BY DEF Stopped, View, FirstRun, Empty, Register!Closed, Register!Nothing
<1>2. QED
  BY <1>1 DEF Register!Stop

\* The view of an instance is its baseline until a replacement is on disk.
LEMMA Stutters ==
    ASSUME Inv, NEW i \in Instances,
           UNCHANGED file,
           \E q \in PCs \ {"down"} : pc' = [pc EXCEPT ![i] = q],
           pc[i] # "down",
           \E b : pending' = [pending EXCEPT ![i] = b],
           \/ pc[i] # "saved" /\ pc'[i] # "saved" /\ UNCHANGED baseline
           \/ pc[i] = "saved" /\ pc'[i] # "saved" /\ baseline' = [baseline EXCEPT ![i] = pending[i]]
    PROVE  UNCHANGED <<file.content, Views>>
<1>1. View(i)' = View(i)
  BY DEF Inv, TypeOK, View
<1>2. \A j \in Instances \ {i} : View(j)' = View(j)
  BY DEF Inv, TypeOK, View
<1>3. QED
  BY <1>1, <1>2 DEF Views

LEMMA HandlersStutter ==
    ASSUME Inv, NEW i \in Instances,
           Refresh(i) \/ WelcomeYes(i) \/ WelcomeNo(i) \/ Command(i)
    PROVE  UNCHANGED <<file.content, Views>>
<1>1. /\ pc[i] \in {"idle", "welcome", "confirm"}
      /\ UNCHANGED <<file, baseline>>
  BY DEF Refresh, Dispatching, WelcomeYes, WelcomeNo, Command, Record, RecordYes, RecordNo,
     Allow, Unallow
<1>2. /\ \E q \in {"idle", "welcome", "confirm", "open"} : pc' = [pc EXCEPT ![i] = q]
      /\ \E b : pending' = [pending EXCEPT ![i] = b]
  <2>1. /\ pc = [pc EXCEPT ![i] = pc[i]]
        /\ pending = [pending EXCEPT ![i] = pending[i]]
    BY DEF Inv, TypeOK
  <2>2. CASE Refresh(i)
    BY <1>1, <2>1, <2>2 DEF Refresh
  <2>3. ASSUME NEW b, Save(i, b)
        PROVE  /\ \E q \in {"idle", "open"} : pc' = [pc EXCEPT ![i] = q]
               /\ \E c : pending' = [pending EXCEPT ![i] = c]
    BY <2>3 DEF Save
  <2>4. CASE WelcomeYes(i) \/ WelcomeNo(i) \/ RecordYes(i) \/ \E p \in Paths : Allow(i, p) \/ Unallow(i, p)
    BY <2>3, <2>4 DEF WelcomeYes, WelcomeNo, RecordYes, Allow, Unallow
  <2>5. CASE Record(i) \/ RecordNo(i)
    BY <2>5 DEF Record, RecordNo
  <2>6. QED
    BY <2>2, <2>4, <2>5 DEF Command
<1>3. pc'[i] # "saved"
  BY <1>2 DEF Inv, TypeOK
<1>4. QED
  BY <1>1, <1>2, <1>3, Stutters DEF PCs, Saving

LEMMA SaveStutters ==
    ASSUME Inv, NEW i \in Instances,
           OpenTemp(i) \/ WriteTemp(i) \/ SyncTemp(i) \/ SaveFails(i) \/ Publish(i)
    PROVE  UNCHANGED <<file.content, Views>>
<1>1. /\ pc[i] \in Saving \cup {"saved"} /\ UNCHANGED file
      /\ \E q \in {"idle", "write", "sync", "move"} : pc' = [pc EXCEPT ![i] = q]
      /\ IF pc[i] = "saved" THEN baseline' = [baseline EXCEPT ![i] = pending[i]]
                            ELSE UNCHANGED baseline
  BY DEF OpenTemp, WriteTemp, SyncTemp, SaveFails, Publish, Saving
<1>2. \E b : pending' = [pending EXCEPT ![i] = b]
  <2>1. pending = [pending EXCEPT ![i] = pending[i]]
    BY DEF Inv, TypeOK
  <2>2. QED
    BY <2>1 DEF OpenTemp, WriteTemp, SyncTemp, SaveFails, Publish
<1>3. pc'[i] # "saved"
  BY <1>1 DEF Inv, TypeOK
<1>4. QED
  BY <1>1, <1>2, <1>3, Stutters DEF PCs, Saving

\* Every step is a step of the register, or leaves it and what is held alone.
LEMMA RegisterStep ==
    ASSUME Inv, [Next]_vars PROVE [Register!RegisterNext]_<<file.content, Views>>
<1>1. ASSUME NEW i \in Instances,
             Start(i) \/ Refresh(i) \/ WelcomeYes(i) \/ WelcomeNo(i) \/ Command(i) \/ SaveStep(i)
      PROVE  [Register!RegisterNext]_<<file.content, Views>>
  BY <1>1, StartLoads, MoveWrites, HandlersStutter, SaveStutters DEF SaveStep, Register!RegisterNext
<1>2. ASSUME NEW i \in Instances, Exit(i) PROVE [Register!RegisterNext]_<<file.content, Views>>
  <2>1. {i} \in SUBSET Instances /\ Stopped({i}) /\ UNCHANGED file
    BY <1>2 DEF Exit
  <2>2. QED
    BY <2>1, StopStops DEF Register!RegisterNext
<1>3. CASE PowerLoss
  <2>1. Instances \in SUBSET Instances /\ Stopped(Instances) /\ UNCHANGED file
    BY <1>3, PowerLossKeepsFile DEF PowerLoss
  <2>2. QED
    BY <2>1, StopStops DEF Register!RegisterNext
<1>4. CASE UNCHANGED vars
  BY <1>4 DEF vars, Views, View
<1>5. QED
  BY <1>1, <1>2, <1>3, <1>4 DEF Next

\* The state file, with its temporary files and system calls, implements the
\* register: whatever falls between the steps of a save, other sessions and
\* later runs see a whole choice of the user or nothing of it.
THEOREM Implementation == Spec => ImplementsRegister
<1>1. Init => Register!RegisterInit
  BY RegisterInitial
<1>2. Inv /\ [Next]_vars => [Register!RegisterNext]_Register!rvars
  BY RegisterStep DEF Register!rvars, Views
<1>3. QED
  BY <1>1, <1>2, Invariance, PTL DEF Spec, ImplementsRegister, Register!RegisterSpec
=============================================================================
