------------------------------ MODULE Evidence ------------------------------
(***************************************************************************)
(* What the rows of one scan say beside each other: src/model.rs, with     *)
(* apply_live_findings and risk_rank of src/process.rs and the count of    *)
(* the status line (src/app.rs, refresh).                                  *)
(*                                                                         *)
(* rows is a sequence of records that have at least the fields path,       *)
(* trust, findings, cpu, memory and disk; integers saturate at MaxValue,   *)
(* as u64 does in robust_limit.                                            *)
(***************************************************************************)
EXTENDS Naturals, Sequences, FiniteSets, SequencesExt, Classification

CONSTANTS
    Top,           \* rows marked for each measure: five
    CpuHeavy, MemoryHeavy, DiskHeavy,   \* the least that is marked
    CpuDelta,      \* the least distance of an outlier from the median
    MaxValue       \* u64::MAX

ASSUME EvidenceAssumption ==
    /\ {Top, CpuHeavy, MemoryHeavy, DiskHeavy, CpuDelta, MaxValue} \subseteq Nat
    /\ Top > 0

HeavyFlags == {"HeavyCpu", "HeavyMemory", "HeavyDisk"}
Flags == HeavyFlags \cup
    {"New", "DifferentPath", "ParentEnded", "PeerOutlier", "Restarting",
     "ManyInstances", "LaunchedByKnown", "StartsAutomatically"}

-----------------------------------------------------------------------------
(* Filters and ranks *)

HasAll(row, flags) == flags \subseteq row.findings

\* Findings::contains with several flags: any of them.
Has(row, flags) == row.findings \cap flags # {}

PersistentAndNew(row) == {"New", "StartsAutomatically"} \subseteq row.findings

\* EvidenceRow::matches_filter
InReview(row) ==
    \/ row.trust = "Unclassified"
    \/ PersistentAndNew(row)
    \/ Has(row, {"DifferentPath", "ParentEnded", "Restarting", "PeerOutlier"})
    \/ Has(row, HeavyFlags)

\* risk_rank, the order of the first column.
RiskRank(row) ==
    IF "Restarting" \in row.findings \/ PersistentAndNew(row) THEN 0
    ELSE IF Has(row, {"DifferentPath", "ParentEnded", "PeerOutlier"}) THEN 1
    ELSE IF Has(row, HeavyFlags) THEN 2
    ELSE IF row.trust = "Unclassified" THEN 3
    ELSE IF row.trust = "Allowed" THEN 4
    ELSE 5

\* The "anomalous" of the status line.
Anomalous(row) ==
    \/ row.trust = "Unclassified"
    \/ Has(row, {"DifferentPath", "ParentEnded", "Restarting", "PeerOutlier"} \cup HeavyFlags)

-----------------------------------------------------------------------------
(* The top five *)

\* sort_unstable_by_key: equal values come in any order.
Rankings(eligible, value) ==
    {s \in SetToSeqs(eligible) : \A m, n \in DOMAIN s : m < n => value[s[m]] >= value[s[n]]}

\* mark_top_five: the sets of rows it may mark.
TopFive(value, minimum) ==
    LET ranked == Rankings({i \in DOMAIN value : value[i] >= minimum}, value)
    IN  {{s[n] : n \in {m \in DOMAIN s : m <= Top}} : s \in ranked}

Measured(rows, field) == [i \in DOMAIN rows |-> rows[i][field]]

\* apply_resource_findings
ResourceFindings(rows) ==
    {[HeavyCpu |-> c, HeavyMemory |-> m, HeavyDisk |-> d] :
        c \in TopFive(Measured(rows, "cpu"), CpuHeavy),
        m \in TopFive(Measured(rows, "memory"), MemoryHeavy),
        d \in TopFive(Measured(rows, "disk"), DiskHeavy)}

-----------------------------------------------------------------------------
(* Outliers *)

Saturated(x)   == IF x > MaxValue THEN MaxValue ELSE x
Distance(x, y) == IF x > y THEN x - y ELSE y - x
Greater(x, y)  == IF x > y THEN x ELSE y

MedianUnsorted(values) == values[Len(values) \div 2 + 1]

AtMost(values, v) == {n \in DOMAIN values : values[n] <= v}

\* The value in the middle once they are sorted: the least that more than half
\* of them do not exceed.
Median(values) ==
    Min({v \in Range(values) : Cardinality(AtMost(values, v)) > Len(values) \div 2})

RobustLimit(values, delta) ==
    LET midpoint   == Median(values)
        deviations == [n \in DOMAIN values |-> Distance(values[n], midpoint)]
    IN  Saturated(midpoint + Greater(Saturated(4 * Median(deviations)), delta))

\* The rows of one program: those whose path is, letter for letter, the same.
Peers(rows, path) == {i \in DOMAIN rows : path # NoPath /\ rows[i].path = path}

ValuesOf(rows, peers, field) ==
    LET s == SetToSeq(peers) IN [n \in DOMAIN s |-> rows[s[n]][field]]

\* peer_outliers
PeerOutliers(rows) ==
    UNION {LET peers == Peers(rows, path)
               cpu   == RobustLimit(ValuesOf(rows, peers, "cpu"), CpuDelta)
               mem   == RobustLimit(ValuesOf(rows, peers, "memory"), MemoryHeavy)
           IN  {i \in peers : rows[i].cpu > cpu \/ rows[i].memory > mem} :
             path \in {q \in {rows[i].path : i \in DOMAIN rows} : Cardinality(Peers(rows, q)) >= 3}}

-----------------------------------------------------------------------------
(* apply_live_findings *)

LiveFindings(rows, i, heavy, outliers, restarting, startup) ==
    {f \in HeavyFlags : i \in heavy[f]}
      \cup (IF Cardinality(Peers(rows, rows[i].path)) >= 2 THEN {"ManyInstances"} ELSE {})
      \cup (IF i \in outliers THEN {"PeerOutlier"} ELSE {})
      \cup (IF rows[i].path \in restarting THEN {"Restarting"} ELSE {})
      \cup (IF rows[i].path \in startup THEN {"StartsAutomatically"} ELSE {})

\* The rows that may come of it: restarting are the paths of the activity
\* tracker, startup those of the index.
WithLiveFindings(rows, restarting, startup) ==
    LET outliers == PeerOutliers(rows)
    IN  {[i \in DOMAIN rows |->
            [rows[i] EXCEPT !.findings =
               @ \cup LiveFindings(rows, i, heavy, outliers, restarting, startup)]] :
           heavy \in ResourceFindings(rows)}
=============================================================================
