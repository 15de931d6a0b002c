------------------------------ MODULE Findings ------------------------------
(***************************************************************************)
(* From startup to the findings on screen: the startup index (Autostart)   *)
(* is built once, then scans classify what runs against the snapshot       *)
(* (Classification) and against each other (Evidence), and the user        *)
(* replaces the snapshot or allows a path.  src/process.rs, Scanner::new   *)
(* and scan; src/app.rs, record_baseline and the two commands about one    *)
(* program, whose boxes and saves are StateStore's.                        *)
(*                                                                         *)
(* Who the parent is and whether a program is restarting are given here;   *)
(* Scanner and Activity derive them.                                       *)
(***************************************************************************)
EXTENDS Autostart, Evidence

CONSTANTS
    RawPaths,     \* paths as Windows spells them
    Normal,       \* normalize_path, by raw path
    Registries,   \* the startup entries there may be
    Snapshots,    \* the records and allowed paths that may have been loaded
    FirstScans,   \* the processes that the first scan may find
    LaterScans    \* and a later one

ASSUME FindingsAssumption ==
    /\ NoPath \in RawPaths /\ NoPath \notin Exes
    /\ Normal \in [RawPaths -> Exes \cup {NoPath}]
    /\ \A q \in RawPaths : Normal[q] = NoPath <=> q = NoPath
    /\ Registries \subseteq [Places -> Seq(Entries)]
    /\ \A s \in Snapshots : s.allowed \subseteq Exes /\ \A n \in DOMAIN s.records : s.records[n] \subseteq Exes
    /\ \A f \in FirstScans \cup LaterScans : IsFiniteSet(DOMAIN f.processes)
    /\ \A f \in FirstScans \cup LaterScans : \A i \in DOMAIN f.processes :
         /\ f.processes[i].path \in RawPaths /\ f.processes[i].accessible \in BOOLEAN
         /\ {f.processes[i].cpu, f.processes[i].memory, f.processes[i].disk} \subseteq Nat
         /\ f.processes[i].parent \subseteq {"ParentEnded", "LaunchedByKnown"}

VARIABLES
    records, allowed,  \* Baseline
    rows,              \* AppState.rows
    scans,             \* bound: one scan of FirstScans, one of LaterScans
    kept               \* history: <<name, path>> of the rows last recorded

baseline == <<records, allowed>>
vars == <<walk, baseline, rows, scans, kept>>

Init ==
    /\ \E reg \in Registries : WalkInit(reg)
    /\ \E s \in Snapshots : records = s.records /\ allowed = s.allowed
    /\ rows = <<>> /\ scans = 0 /\ kept = {}

-----------------------------------------------------------------------------
(* Scanner::new *)

Build == Walk /\ UNCHANGED <<baseline, rows, scans, kept>>

\* build returns; nothing looks at the registry again.
Built == ~Walking /\ registry = NoEntries /\ original = {}

Return ==
    /\ ~Walking /\ ~Built
    /\ registry' = NoEntries
    /\ original' = {} /\ present' = {} /\ removed' = 0 /\ refused' = {} /\ changes' = 0
    /\ UNCHANGED <<visit, position, index, baseline, rows, scans, kept>>

-----------------------------------------------------------------------------
(* Scanner::scan *)

\* AutostartIndex::contains
InIndex == {q \in RawPaths : Normal[q] \in index}

\* The row of a process, before the others are looked at.
RowOf(m, recs, allow) ==
    LET match == Match(recs, allow, m.name, Normal[m.path])
    IN  [name |-> m.name, path |-> m.path, cpu |-> m.cpu, memory |-> m.memory, disk |-> m.disk,
         trust |-> Trust(m.accessible, match),
         findings |-> AboutSnapshot(m.accessible, recs, match)
                        \cup (IF m.accessible THEN m.parent ELSE {})]

\* refresh with the processes ms.
Refresh(ms, restarting) ==
    rows' \in WithLiveFindings([i \in DOMAIN ms |-> RowOf(ms[i], records', allowed')],
                               restarting, InIndex)

\* The scans that may come now.
Found == IF scans = 0 THEN FirstScans ELSE IF scans = 1 THEN LaterScans ELSE {}

Scans == scans' = scans + 1 /\ \E f \in Found : Refresh(f.processes, f.restarting)

Scan ==
    /\ Built
    /\ UNCHANGED <<records, allowed>>
    /\ Scans
    /\ UNCHANGED <<walk, kept>>

-----------------------------------------------------------------------------
(* The snapshot *)

NamedOnly(rs) == {r \in Range(rs) : r.path # NoPath}

\* The names with the paths of one of their rows.
RecordsOfOne(rs) ==
    [n \in {r.name : r \in NamedOnly(rs)} |->
        {Normal[(CHOOSE r \in NamedOnly(rs) : r.name = n).path]}]

\* replacement_from_rows
RecordsOf(rs) ==
    [n \in {r.name : r \in NamedOnly(rs)} |->
        {Normal[r.path] : r \in {q \in NamedOnly(rs) : q.name = n}}]

\* record_baseline, once confirmed and saved.
RecordBaseline ==
    /\ Built /\ rows # <<>>
    /\ records' = RecordsOf(rows)
    /\ UNCHANGED allowed
    /\ kept' = {<<r.name, Normal[r.path]>> : r \in NamedOnly(rows)}
    /\ Scans
    /\ UNCHANGED walk

\* add_selected_to_baseline, once saved.
Allow ==
    /\ Built
    /\ \E r \in NamedOnly(rows) :
         Normal[r.path] \notin allowed /\ allowed' = allowed \cup {Normal[r.path]}
    /\ UNCHANGED records
    /\ Scans
    /\ UNCHANGED <<walk, kept>>

\* remove_selected_from_baseline, once saved.
Unallow ==
    /\ Built
    /\ \E r \in NamedOnly(rows) :
         Normal[r.path] \in allowed /\ allowed' = allowed \ {Normal[r.path]}
    /\ UNCHANGED records
    /\ Scans
    /\ UNCHANGED <<walk, kept>>

Next == Build \/ Return \/ Scan \/ RecordBaseline \/ Allow \/ Unallow

Spec == Init /\ [][Next]_vars

-----------------------------------------------------------------------------
(* Properties *)

\* Every variable keeps its type.
TypeOK ==
    /\ registry \in [Places -> Seq(Entries)]
    /\ visit \in 1 .. Len(Visits) + 1 /\ position \in Nat
    /\ index \subseteq Exes /\ allowed \subseteq Exes
    /\ \A n \in DOMAIN records : records[n] \subseteq Exes
    /\ \A i \in DOMAIN rows :
         /\ rows[i].path \in RawPaths
         /\ rows[i].trust \in Trusts /\ rows[i].findings \subseteq Flags
         /\ rows[i].trust = "Protected" => ~Has(rows[i], {"New", "DifferentPath", "ParentEnded"})

\* The finding Starts automatically rests on an index that is no more and no
\* less than the registry was, as far as it could be read while it changed.
IndexFaithful == ~Built => WalkFaithful

\* README.md: "The combination worth acting on is New + Starts automatically
\* ... ProcDrift sorts that to the top."  The three definitions of what calls
\* for attention agree: the filter Review, the first four ranks, and the rows
\* that the status line counts as anomalous, which names no startup entry.
ReviewIsRisk ==
    \A i \in DOMAIN rows :
        LET r == rows[i] IN
        /\ InReview(r) <=> RiskRank(r) <= 3
        /\ InReview(r) <=> Anomalous(r)
        /\ PersistentAndNew(r) => RiskRank(r) = 0

\* The paths that were last recorded for a name.
Recorded(name) == {q \in Exes : <<name, q>> \in kept}

\* What a row says of the snapshot that the user made of the rows is just what
\* these were, in whatever spelling Windows shows a path and however many of them
\* one name had.  README.md: New is "Not present in the reference snapshot",
\* Different path is "This name was seen at a different path", and Unclassified is
\* the rest of what is not in it.  Whether a recorded row is called Known or
\* Allowed is left to RecordedIsAllowed.
SnapshotTold ==
    kept # {} => \A i \in DOMAIN rows :
        LET r == rows[i]
            q == Normal[r.path]
        IN  r.trust \notin {"Protected", "Allowed"} =>
                /\ "New" \in r.findings <=> Recorded(r.name) = {}
                /\ "DifferentPath" \in r.findings
                       <=> Recorded(r.name) # {} /\ q # NoPath /\ q \notin Recorded(r.name)
                /\ r.trust = "Unclassified" <=> q \notin Recorded(r.name)

\* README.md says of Allowed "Its exact path is in your reference snapshot", and of
\* Known "not in your snapshot".  The code calls what is recorded Known, and
\* Allowed only what was added by itself.
RecordedIsAllowed ==
    \A i \in DOMAIN rows :
        rows[i].trust # "Protected" /\ <<rows[i].name, Normal[rows[i].path]>> \in kept =>
            rows[i].trust = "Allowed"

Marked(flag) == {i \in DOMAIN rows : flag \in rows[i].findings}

\* The marked rows are the Top largest of those that reach the minimum.
LargestMarked(flag, field, minimum) ==
    /\ Cardinality(Marked(flag)) <= Top
    /\ \A i \in Marked(flag) : rows[i][field] >= minimum
    /\ \A i \in DOMAIN rows \ Marked(flag) : rows[i][field] >= minimum =>
         /\ Cardinality(Marked(flag)) = Top
         /\ \A j \in Marked(flag) : rows[j][field] >= rows[i][field]

\* i stands out from its peers in a measure: it exceeds more than half of them
\* by the least distance, or by as much as the integer can hold.
StandsOut(i, field, delta) ==
    LET peers == Peers(rows, rows[i].path)
    IN  2 * Cardinality({j \in peers : rows[i][field] > Saturated(rows[j][field] + delta)})
          > Cardinality(peers)

\* All the others agree, and i is further off than the least distance.
OffAlone(i, field, delta) ==
    LET peers == Peers(rows, rows[i].path)
    IN  /\ Cardinality(peers) >= 3
        /\ \E v \in {rows[j][field] : j \in peers} :
             /\ \A j \in peers \ {i} : rows[j][field] = v
             /\ rows[i][field] > Saturated(v + delta)

\* Currently among the top five, and Using more resources than matching
\* instances (README.md): the marked rows are the largest, whatever ties; an
\* outlier exceeds most of at least two others of its program, and one that
\* alone leaves the rest behind is found.
ResourcesExact ==
    /\ LargestMarked("HeavyCpu", "cpu", CpuHeavy)
    /\ LargestMarked("HeavyMemory", "memory", MemoryHeavy)
    /\ LargestMarked("HeavyDisk", "disk", DiskHeavy)
    /\ \A i \in Marked("PeerOutlier") :
         /\ Cardinality(Peers(rows, rows[i].path)) >= 3
         /\ StandsOut(i, "cpu", CpuDelta) \/ StandsOut(i, "memory", MemoryHeavy)
    /\ \A i \in DOMAIN rows :
         OffAlone(i, "cpu", CpuDelta) \/ OffAlone(i, "memory", MemoryHeavy) =>
            i \in Marked("PeerOutlier")
=============================================================================
