--------------------------- MODULE ScannerProofs ---------------------------
(***************************************************************************)
(* Theorems about Scanner, for any number of processes, programs and       *)
(* scans: no row of a running process has the path of another or the CPU   *)
(* time of another.                                                        *)
(*                                                                         *)
(* Identities are asked for by PID while PIDs are used again, so a cached  *)
(* path may well be wrong. The invariant says of whom: of keys that do not *)
(* run any more (OwnIdentities), and they never will, because every key    *)
(* that ProcDrift has was created by now (Past) and what starts later is   *)
(* created later.                                                          *)
(*                                                                         *)
(* TypeOK is inductive by itself: whatever was cached or counted before, a *)
(* scan gives a row a trust, findings and a CPU time of the kinds it may   *)
(* have, and ends only when each key of the list has an identity, so that  *)
(* the cache it leaves is that of its rows.                                *)
(***************************************************************************)
EXTENDS Scanner, TLAPS

\* What the system says of a PID.
Processes == [alive : BOOLEAN, created : Nat, ppid : Pids, born : Nat,
              program : Programs, mother : Programs, open : BOOLEAN, used : Nat]

Types ==
    /\ os \in [Pids -> Processes]
    /\ clock \in Nat

Past ==
    /\ \A p \in Pids : os[p].created <= clock
    /\ \A k \in DOMAIN identities \cup KeysOf(raw) \cup KeysOf(rows) :
         k.pid \in Pids /\ k.created \in Nat /\ k.created <= clock

Fits(k, path) == Runs(k) => path \in {NoPath, os[k.pid].program.path}

OwnIdentities == \A k \in DOMAIN identities : Fits(k, identities[k].path)

OwnRows == \A r \in rows : Fits(r.key, r.path)

\* The CPU times that the next scan subtracts are those of the last scan.
OwnTimes == timed => previous = counted

IInv == Types /\ Past /\ OwnIdentities /\ OwnRows /\ OwnTimes /\ CpuIsOwn

LEMMA InitHolds ==
  ASSUME Init
  PROVE  IInv
<1>1. PICK g \in Programs, n \in 0 .. MaxUsed :
        os = [p \in Pids |-> [alive |-> p = System, created |-> 0, ppid |-> System,
                              born |-> 0, program |-> g, mother |-> g,
                              open |-> FALSE, used |-> n]]
  BY DEF Init
<1>2. clock = 0 /\ raw = {} /\ rows = {} /\ identities = None /\ timed = FALSE
  BY DEF Init
<1>3. DOMAIN identities = {}
  BY <1>2 DEF None
<1>4. Types
  BY <1>1, <1>2, ScannerAssumption DEF Types, Processes
<1>5. Past
  BY <1>1, <1>2, <1>3 DEF Past, KeysOf
<1>6. OwnIdentities /\ OwnRows /\ OwnTimes /\ CpuIsOwn
  BY <1>2, <1>3 DEF OwnIdentities, OwnRows, OwnTimes, CpuIsOwn
<1> QED  BY <1>4, <1>5, <1>6 DEF IInv

-----------------------------------------------------------------------------
(* The operating system *)

\* What runs afterwards ran before with the same program, or was created later.
LEMMA WorldKeeps ==
  ASSUME IInv, Types', clock' >= clock,
         UNCHANGED <<raw, identities, previous, timed, rows, counted>>,
         \A p \in Pids : os'[p].created <= clock',
         \A p \in Pids : os'[p].alive =>
           \/ os[p].alive /\ os'[p].created = os[p].created /\ os'[p].program = os[p].program
           \/ os'[p].created > clock
  PROVE  IInv'
<1>1. Past'
  BY DEF IInv, Types, Past, KeysOf
<1>2. ASSUME NEW k, k \in DOMAIN identities \cup KeysOf(rows), NEW path, Fits(k, path)
      PROVE  Fits(k, path)'
  <2> SUFFICES ASSUME Runs(k)'
               PROVE  path \in {NoPath, os'[k.pid].program.path}
    BY DEF Fits
  <2>1. k.pid \in Pids /\ k.created <= clock /\ k.created \in Nat
    BY <1>2 DEF IInv, Past
  <2>2. os'[k.pid].alive /\ k = [pid |-> k.pid, created |-> os'[k.pid].created]
    BY DEF Runs, KeyOf
  <2>3. k.created = os'[k.pid].created
    BY <2>2
  <2>4. ~(os'[k.pid].created > clock)
    BY <2>1, <2>3 DEF IInv, Types
  <2>5. /\ os[k.pid].alive /\ os'[k.pid].created = os[k.pid].created
        /\ os'[k.pid].program = os[k.pid].program
    BY <2>1, <2>2, <2>4
  <2>6. Runs(k)
    BY <2>2, <2>5 DEF Runs, KeyOf
  <2> QED  BY <1>2, <2>5, <2>6 DEF Fits
<1>3. OwnIdentities'
  BY <1>2 DEF IInv, OwnIdentities
<1>4. OwnRows'
  <2>1. \A r \in rows : r.key \in KeysOf(rows)
    BY DEF KeysOf
  <2> QED  BY <1>2, <2>1 DEF IInv, OwnRows
<1>5. OwnTimes' /\ CpuIsOwn'
  BY DEF IInv, OwnTimes, CpuIsOwn
<1> QED  BY <1>1, <1>3, <1>4, <1>5 DEF IInv

LEMMA Spawning ==
  ASSUME IInv, NEW p \in Pids, NEW parent \in Pids, NEW g \in Programs, NEW opens \in BOOLEAN,
         Spawn(p, parent, g, opens)
  PROVE  IInv'
<1> DEFINE new == [alive |-> TRUE, created |-> clock', ppid |-> parent,
                   born |-> os[parent].created, program |-> g,
                   mother |-> os[parent].program, open |-> opens, used |-> 0]
<1>1. /\ clock' = clock + 1 /\ os' = [os EXCEPT ![p] = new]
      /\ UNCHANGED <<raw, identities, previous, timed, rows, counted>>
  BY DEF Spawn
<1>2. os \in [Pids -> Processes] /\ clock \in Nat /\ os[parent] \in Processes
  BY DEF IInv, Types
<1>3. new \in Processes /\ new.created = clock + 1
  BY <1>1, <1>2 DEF Processes
<1> HIDE DEF new
<1>4. Types'
  BY <1>1, <1>2, <1>3 DEF Types
<1>5. /\ os'[p] = new /\ \A q \in Pids : q # p => os'[q] = os[q]
      /\ clock' >= clock
  BY <1>1, <1>2
<1>6. \A q \in Pids : os[q].created \in Nat /\ os[q].created <= clock
  BY DEF IInv, Types, Past, Processes
<1>7. \A q \in Pids : os'[q].created <= clock'
  BY <1>1, <1>2, <1>3, <1>5, <1>6
<1>8. \A q \in Pids : os'[q].alive =>
        \/ os[q].alive /\ os'[q].created = os[q].created /\ os'[q].program = os[q].program
        \/ os'[q].created > clock
  BY <1>2, <1>3, <1>5
<1> QED  BY <1>1, <1>4, <1>5, <1>7, <1>8, WorldKeeps

\* A process that exits or works keeps its time of creation and its program.
LEMMA Going ==
  ASSUME IInv, NEW p \in Pids, NEW new \in Processes, os' = [os EXCEPT ![p] = new],
         new.alive => os[p].alive, new.created = os[p].created, new.program = os[p].program,
         UNCHANGED <<clock, raw, identities, previous, timed, rows, counted>>
  PROVE  IInv'
<1>1. os \in [Pids -> Processes] /\ clock \in Nat
  BY DEF IInv, Types
<1>2. Types'
  BY <1>1 DEF Types
<1>3. os'[p] = new /\ \A q \in Pids : q # p => os'[q] = os[q]
  BY <1>1
<1>4. \A q \in Pids : os[q].created <= clock
  BY DEF IInv, Past
<1>5. \A q \in Pids : os'[q].created <= clock'
  BY <1>3, <1>4
<1>6. \A q \in Pids : os'[q].alive =>
        os[q].alive /\ os'[q].created = os[q].created /\ os'[q].program = os[q].program
  BY <1>3
<1> QED  BY <1>1, <1>2, <1>5, <1>6, WorldKeeps

-----------------------------------------------------------------------------
(* ProcDrift *)

\* A scan reads the list: the keys in it are of processes that were created.
LEMMA Enumerating ==
  ASSUME IInv, Enumerate
  PROVE  IInv'
<1>1. /\ raw' = Snapshot /\ UNCHANGED <<os, clock, identities, previous, timed, rows, counted>>
  BY DEF Enumerate, world
<1>2. \A k \in KeysOf(Snapshot) : \E p \in Pids : k = [pid |-> p, created |-> os[p].created]
  BY DEF KeysOf, Snapshot, KeyOf
<1>3. \A p \in Pids : os[p].created \in Nat /\ os[p].created <= clock
  BY DEF IInv, Types, Past, Processes
<1>4. \A k \in KeysOf(Snapshot) : k.pid \in Pids /\ k.created \in Nat /\ k.created <= clock
  BY <1>2, <1>3
<1>5. Past'
  <2>1. KeysOf(raw)' = KeysOf(Snapshot) /\ KeysOf(rows)' = KeysOf(rows)
    BY <1>1 DEF KeysOf
  <2> QED  BY <1>1, <1>4, <2>1 DEF IInv, Past
<1>6. Types' /\ OwnIdentities' /\ OwnRows' /\ OwnTimes' /\ CpuIsOwn'
  BY <1>1 DEF IInv, Types, OwnIdentities, OwnRows, OwnTimes, CpuIsOwn, Fits, Runs, KeyOf
<1> QED  BY <1>5, <1>6 DEF IInv

\* The answer about a PID is about what runs there now, which is the process of
\* the key if that still runs.
LEMMA Querying ==
  ASSUME IInv, NEW r \in raw, Query(r.key)
  PROVE  IInv'
<1> DEFINE k == r.key
<1>1. PICK a \in Answers(k.pid) : identities' = With(identities, k, a)
  BY DEF Query
<1>2. UNCHANGED <<os, clock, raw, previous, timed, rows, counted>>
  BY DEF Query, world
<1>3. a.path \in {os[k.pid].program.path, NoPath}
  BY <1>1 DEF Answers
<1>4. k \in KeysOf(raw)
  BY DEF KeysOf
<1> HIDE DEF k
<1>5. /\ DOMAIN identities' = DOMAIN identities \cup {k}
      /\ \A j \in DOMAIN identities' : identities'[j] = IF j = k THEN a ELSE identities[j]
  BY <1>1 DEF With
<1>6. Past'
  <2>1. KeysOf(raw)' = KeysOf(raw) /\ KeysOf(rows)' = KeysOf(rows)
    BY <1>2 DEF KeysOf
  <2> QED  BY <1>2, <1>4, <1>5, <2>1 DEF IInv, Past
<1>7. OwnIdentities'
  <2>1. \A j \in DOMAIN identities' : Fits(j, identities'[j].path)
    BY <1>3, <1>5 DEF IInv, OwnIdentities, Fits
  <2> QED  BY <1>2, <2>1 DEF OwnIdentities, Fits, Runs, KeyOf
<1>8. Types' /\ OwnRows' /\ OwnTimes' /\ CpuIsOwn'
  BY <1>2 DEF IInv, Types, OwnRows, OwnTimes, CpuIsOwn, Fits, Runs, KeyOf
<1> QED  BY <1>6, <1>7, <1>8 DEF IInv

\* The rows take their paths from the cache, by key, and their CPU time from
\* what the last scan counted.
LEMMA Classifying ==
  ASSUME IInv, Classify
  PROVE  IInv'
<1>1. /\ \A r \in raw : Cached(r.key) # {}
      /\ rows' = {RowOf(r) : r \in raw}
      /\ identities' = Only(identities, KeysOf(raw)) /\ raw' = {}
      /\ previous' = Counters /\ counted' = Counters /\ UNCHANGED <<os, clock>>
  BY DEF Classify, CacheKept, world
<1>2. ASSUME NEW r \in raw
      PROVE  r.key \in DOMAIN identities /\ IdentityOf(r.key) = identities[r.key]
  <2>1. Cached(r.key) = {r.key} /\ r.key \in DOMAIN identities
    BY <1>1 DEF Cached
  <2> QED  BY <2>1 DEF IdentityOf
<1>3. \A r \in raw : RowOf(r).key = r.key /\ RowOf(r).path = IdentityOf(r.key).path
  BY DEF RowOf
<1>4. \A r \in raw : RowOf(r).cpu \in {0, RowOf(r).spent}
  <2>1. \A r \in raw :
          /\ RowOf(r).cpu = IF timed THEN Since(r.used, Of(previous, r.key)) ELSE 0
          /\ RowOf(r).spent = Since(r.used, Of(counted, r.key))
    BY DEF RowOf
  <2> QED  BY <2>1 DEF IInv, OwnTimes
<1>5. /\ DOMAIN identities' = DOMAIN identities \cap KeysOf(raw)
      /\ \A j \in DOMAIN identities' : identities'[j] = identities[j]
  BY <1>1 DEF Only
<1>6. Past'
  <2>1. KeysOf(raw)' = {}
    BY <1>1 DEF KeysOf
  <2>2. KeysOf(rows)' \subseteq KeysOf(raw)
    BY <1>1, <1>3 DEF KeysOf
  <2> QED  BY <1>1, <1>5, <2>1, <2>2 DEF IInv, Past
<1>7. \A j \in DOMAIN identities : Fits(j, identities[j].path)
  BY DEF IInv, OwnIdentities
<1>8. OwnIdentities'
  BY <1>1, <1>5, <1>7 DEF OwnIdentities, Fits, Runs, KeyOf
<1>9. OwnRows'
  <2>1. \A r \in raw : Fits(RowOf(r).key, RowOf(r).path)
    BY <1>2, <1>3, <1>7
  <2>2. \A x \in rows' : Fits(x.key, x.path)
    BY <1>1, <2>1
  <2> QED  BY <1>1, <2>2 DEF OwnRows, Fits, Runs, KeyOf
<1>10. CpuIsOwn'
  BY <1>1, <1>4 DEF CpuIsOwn
<1>11. Types' /\ OwnTimes'
  BY <1>1 DEF IInv, Types, OwnTimes
<1> QED  BY <1>6, <1>8, <1>9, <1>10, <1>11 DEF IInv

LEMMA StepKeeps ==
  ASSUME IInv, [Next]_vars
  PROVE  IInv'
<1>1. ASSUME UNCHANGED <<os, clock, raw, identities, rows>>,
             timed' = FALSE \/ UNCHANGED <<previous, timed, counted>>
      PROVE  IInv'
  <2>1. KeysOf(raw)' = KeysOf(raw) /\ KeysOf(rows)' = KeysOf(rows)
    BY <1>1 DEF KeysOf
  <2>2. Past'
    BY <1>1, <2>1 DEF IInv, Past
  <2>3. OwnTimes'
    BY <1>1 DEF IInv, OwnTimes
  <2>4. Types' /\ OwnIdentities' /\ OwnRows' /\ CpuIsOwn'
    BY <1>1 DEF IInv, Types, OwnIdentities, OwnRows, CpuIsOwn, Fits, Runs, KeyOf
  <2> QED  BY <2>2, <2>3, <2>4 DEF IInv
<1>2. CASE UNCHANGED vars
  BY <1>1, <1>2 DEF vars
<1>3. ASSUME NEW p \in Pids, NEW parent \in Pids, NEW g \in Programs, NEW opens \in BOOLEAN,
             Spawn(p, parent, g, opens)
      PROVE  IInv'
  BY <1>3, Spawning
<1>4. ASSUME NEW p \in Pids, Exit(p)
      PROVE  IInv'
  <2> DEFINE new == [os[p] EXCEPT !.alive = FALSE]
  <2>1. os[p] \in Processes
    BY DEF IInv, Types
  <2>2. /\ new \in Processes /\ new.alive = FALSE /\ new.created = os[p].created
        /\ new.program = os[p].program
    BY <2>1 DEF Processes
  <2>3. os' = [os EXCEPT ![p] = new]
    BY <1>4 DEF Exit
  <2>4. UNCHANGED <<clock, raw, identities, previous, timed, rows, counted>>
    BY <1>4 DEF Exit
  <2> HIDE DEF new
  <2> QED  BY <2>2, <2>3, <2>4, Going
<1>5. ASSUME NEW p \in Pids, Work(p)
      PROVE  IInv'
  <2> DEFINE new == [os[p] EXCEPT !.used = @ + 1]
  <2>1. os[p] \in Processes /\ os[p].alive
    BY <1>5 DEF Work, IInv, Types
  <2>2. /\ new \in Processes /\ new.created = os[p].created
        /\ new.program = os[p].program
    BY <2>1 DEF Processes
  <2>3. os' = [os EXCEPT ![p] = new]
    BY <1>5 DEF Work
  <2>4. UNCHANGED <<clock, raw, identities, previous, timed, rows, counted>>
    BY <1>5 DEF Work
  <2> HIDE DEF new
  <2> QED  BY <2>1, <2>2, <2>3, <2>4, Going
<1>6. CASE Enumerate  BY <1>6, Enumerating
<1>7. CASE Classify  BY <1>7, Classifying
<1>8. CASE Minimize \/ Restore
  BY <1>1, <1>8 DEF Minimize, Restore, world
<1>9. ASSUME NEW r \in raw, Query(r.key)
      PROVE  IInv'
  BY <1>9, Querying
<1> QED  BY <1>2, <1>3, <1>4, <1>5, <1>6, <1>7, <1>8, <1>9 DEF Next, World

-----------------------------------------------------------------------------
(* Types *)

ProcessTypes == [alive : BOOLEAN, created : 0 .. MaxClock, ppid : Pids,
                 born : 0 .. MaxClock, program : Programs, mother : Programs,
                 open : BOOLEAN, used : 0 .. MaxUsed]

RawTypes == [key : Keys, ppid : Pids, program : Programs, used : 0 .. MaxUsed,
             mother : Programs]

Timed(f) == f \in [DOMAIN f -> 0 .. MaxUsed] /\ DOMAIN f \subseteq Keys

LEMMA TypesInit ==
  ASSUME Init
  PROVE  TypeOK
<1>1. MaxClock \in Nat /\ MaxUsed \in Nat /\ System \in Pids
  BY ScannerAssumption
<1>2. PICK g \in Programs, n \in 0 .. MaxUsed :
        os = [p \in Pids |-> [alive |-> p = System, created |-> 0, ppid |-> System,
                              born |-> 0, program |-> g, mother |-> g,
                              open |-> FALSE, used |-> n]]
  BY DEF Init
<1>3. os \in [Pids -> ProcessTypes]
  BY <1>1, <1>2 DEF ProcessTypes
<1>4. Timed(None) /\ DOMAIN None = {}
  BY DEF Timed, None
<1>5. /\ clock = 0 /\ minimized = FALSE /\ timed = FALSE /\ pc = "idle" /\ raw = {} /\ rows = {}
      /\ identities = None /\ previous = None /\ counted = None
  BY DEF Init
<1>6. \A f \in {previous, counted} : f \in [DOMAIN f -> 0 .. MaxUsed] /\ DOMAIN f \subseteq Keys
  BY <1>4, <1>5, Zenon DEF Timed
<1>7. DOMAIN identities = {} /\ KeysOf(rows) = {} /\ clock \in 0 .. MaxClock
  BY <1>1, <1>4, <1>5 DEF KeysOf
<1> HIDE DEF None
<1> QED  BY <1>3, <1>5, <1>6, <1>7 DEF TypeOK, ProcessTypes

LEMMA OfTimed ==
  ASSUME NEW f, Timed(f), NEW k
  PROVE  Of(f, k) \in Nat
BY ScannerAssumption DEF Timed, Of

LEMMA SinceTyped ==
  ASSUME NEW used \in 0 .. MaxUsed, NEW before \in Nat
  PROVE  Since(used, before) \in 0 .. MaxUsed
BY ScannerAssumption DEF Since

\* The row of a process whose identity is there.
LEMMA RowTyped ==
  ASSUME TypeOK, NEW r \in raw, Cached(r.key) # {}
  PROVE  RowOf(r) \in Rows
<1>1. r \in RawTypes
  BY DEF TypeOK, RawTypes
<1>2. /\ r.key \in Keys /\ r.ppid \in Pids /\ r.mother \in Programs /\ r.used \in 0 .. MaxUsed
  BY <1>1 DEF RawTypes
<1>3. IdentityOf(r.key) \in Identities
  <2>1. (CHOOSE j \in Cached(r.key) : TRUE) \in DOMAIN identities
    BY DEF Cached
  <2> QED  BY <2>1 DEF IdentityOf, TypeOK
<1>4. IdentityOf(r.key).path \in PathsOf \cup {NoPath}
  BY <1>3 DEF Identities
<1>5. TrustOf(r) \in Trusts
  BY DEF TrustOf, Trust, Trusts
<1>6. Classified(r) \cup Live(r) \subseteq Findings
  BY DEF Classified, Live, AboutSnapshot, Findings
<1>7. Timed(previous) /\ Timed(counted)
  BY DEF TypeOK, Timed
<1>8. Since(r.used, Of(previous, r.key)) \in 0 .. MaxUsed
  BY <1>2, <1>7, OfTimed, SinceTyped
<1>9. Since(r.used, Of(counted, r.key)) \in 0 .. MaxUsed
  BY <1>2, <1>7, OfTimed, SinceTyped
<1>10. 0 \in 0 .. MaxUsed
  BY ScannerAssumption
<1> HIDE DEF TypeOK
<1> QED  BY <1>2, <1>4, <1>5, <1>6, <1>8, <1>9, <1>10 DEF RowOf, Rows

LEMMA CountersTyped ==
  ASSUME TypeOK
  PROVE  Timed(Counters)
<1>1. \A r \in raw : r.key \in Keys /\ r.used \in 0 .. MaxUsed
  BY DEF TypeOK
<1>2. \A k \in KeysOf(raw) : k \in Keys /\ (CHOOSE r \in raw : r.key = k) \in raw
  BY <1>1 DEF KeysOf
<1> QED  BY <1>1, <1>2 DEF Counters, Timed

\* A scan that ends has an identity for each key of its list, and keeps these.
LEMMA CacheIsOfRows ==
  ASSUME \A r \in raw : Cached(r.key) # {},
         rows' = {RowOf(r) : r \in raw}, identities' = Only(identities, KeysOf(raw))
  PROVE  DOMAIN identities' = KeysOf(rows')
<1>1. DOMAIN identities' = DOMAIN identities \cap KeysOf(raw)
  BY DEF Only
<1>2. KeysOf(raw) \subseteq DOMAIN identities
  BY DEF KeysOf, Cached
<1>3. \A r \in raw : RowOf(r).key = r.key
  BY DEF RowOf
<1>4. KeysOf(rows') = KeysOf(raw)
  BY <1>3 DEF KeysOf
<1> QED  BY <1>1, <1>2, <1>4

LEMMA TypesKept ==
  ASSUME TypeOK, [Next]_vars
  PROVE  TypeOK'
<1>1. /\ os \in [Pids -> ProcessTypes] /\ clock \in 0 .. MaxClock
      /\ MaxClock \in Nat /\ MaxUsed \in Nat
  BY ScannerAssumption DEF TypeOK, ProcessTypes
<1>2. ASSUME os' \in [Pids -> ProcessTypes], clock' \in 0 .. MaxClock,
             UNCHANGED <<minimized, pc, raw, identities, previous, timed, rows, counted>>
      PROVE  TypeOK'
  BY <1>2 DEF TypeOK, ProcessTypes, KeysOf
<1>3. ASSUME NEW p \in Pids, NEW parent \in Pids, NEW g \in Programs, NEW opens \in BOOLEAN,
             Spawn(p, parent, g, opens)
      PROVE  TypeOK'
  <2> DEFINE new == [alive |-> TRUE, created |-> clock', ppid |-> parent,
                     born |-> os[parent].created, program |-> g,
                     mother |-> os[parent].program, open |-> opens, used |-> 0]
  <2>1. os' = [os EXCEPT ![p] = new] /\ clock' = clock + 1 /\ clock < MaxClock
    BY <1>3 DEF Spawn
  <2>2. clock' \in 0 .. MaxClock
    BY <1>1, <2>1
  <2>3. os[parent].created \in 0 .. MaxClock /\ os[parent].program \in Programs
    BY <1>1 DEF ProcessTypes
  <2>4. new \in ProcessTypes
    BY <1>1, <2>2, <2>3 DEF ProcessTypes
  <2> HIDE DEF new
  <2>5. os' \in [Pids -> ProcessTypes]
    BY <1>1, <2>1, <2>4
  <2>6. UNCHANGED <<minimized, pc, raw, identities, previous, timed, rows, counted>>
    BY <1>3 DEF Spawn
  <2> QED  BY <1>2, <2>2, <2>5, <2>6
<1>4. ASSUME NEW p \in Pids, Exit(p) \/ Work(p)
      PROVE  TypeOK'
  <2>1. os[p] \in ProcessTypes
    BY <1>1
  <2>2. ASSUME Exit(p)
        PROVE  os' \in [Pids -> ProcessTypes]
    <3> DEFINE new == [os[p] EXCEPT !.alive = FALSE]
    <3>1. new \in ProcessTypes
      BY <2>1 DEF ProcessTypes
    <3>2. os' = [os EXCEPT ![p] = new]
      BY <2>2 DEF Exit
    <3> HIDE DEF new
    <3> QED  BY <1>1, <3>1, <3>2
  <2>3. ASSUME Work(p)
        PROVE  os' \in [Pids -> ProcessTypes]
    <3> DEFINE new == [os[p] EXCEPT !.used = @ + 1]
    <3>1. os[p].used \in 0 .. MaxUsed /\ os[p].used < MaxUsed
      BY <2>1, <2>3 DEF Work, ProcessTypes
    <3>2. new \in ProcessTypes
      BY <1>1, <2>1, <3>1 DEF ProcessTypes
    <3>3. os' = [os EXCEPT ![p] = new]
      BY <2>3 DEF Work
    <3> HIDE DEF new
    <3> QED  BY <1>1, <3>2, <3>3
  <2>5. os' \in [Pids -> ProcessTypes]
    BY <1>4, <2>2, <2>3
  <2>6. UNCHANGED <<clock, minimized, pc, raw, identities, previous, timed, rows, counted>>
    BY <1>4 DEF Exit, Work
  <2> QED  BY <1>1, <1>2, <2>5, <2>6
<1>5. CASE Enumerate
  <2>1. \A p \in Pids : os[p] \in ProcessTypes
    BY <1>1
  <2>2. Snapshot \subseteq RawTypes
    BY <2>1 DEF Snapshot, KeyOf, Keys, RawTypes, ProcessTypes
  <2>3. /\ raw' = Snapshot /\ pc' = "query"
        /\ UNCHANGED <<os, clock, minimized, identities, previous, timed, rows, counted>>
    BY <1>5 DEF Enumerate, world
  <2> QED  BY <2>2, <2>3 DEF TypeOK, RawTypes
<1>6. ASSUME NEW r \in raw, Query(r.key)
      PROVE  TypeOK'
  <2>1. r.key \in Keys /\ r.key.pid \in Pids
    BY DEF TypeOK, Keys
  <2>2. PICK a \in Answers(r.key.pid) : identities' = With(identities, r.key, a)
    BY <1>6 DEF Query
  <2>3. a \in Identities
    <3>1. os[r.key.pid] \in ProcessTypes
      BY <1>1, <2>1
    <3>2. os[r.key.pid].program.path \in PathsOf
      BY <3>1 DEF ProcessTypes, PathsOf
    <3> QED  BY <2>2, <3>2 DEF Answers, Identities
  <2>4. /\ DOMAIN identities' \subseteq Keys
        /\ \A k \in DOMAIN identities' : identities'[k] \in Identities
    BY <2>1, <2>2, <2>3 DEF With, TypeOK
  <2>5. pc = "query" /\ UNCHANGED <<os, clock, minimized, pc, raw, previous, timed, rows, counted>>
    BY <1>6 DEF Query, world
  <2> QED  BY <2>4, <2>5 DEF TypeOK
<1>7. CASE Classify
  <2>1. /\ rows' = {RowOf(r) : r \in raw} /\ \A r \in raw : Cached(r.key) # {}
        /\ identities' = Only(identities, KeysOf(raw)) /\ previous' = Counters
        /\ counted' = Counters /\ timed' = TRUE /\ raw' = {} /\ pc' = "idle"
        /\ UNCHANGED <<minimized, os, clock>>
    BY <1>7 DEF Classify, CacheKept, world
  <2>2. rows' \subseteq Rows
    BY <2>1, RowTyped
  <2>3. /\ DOMAIN identities' \subseteq Keys
        /\ \A k \in DOMAIN identities' : identities'[k] \in Identities
    BY <2>1 DEF Only, TypeOK
  <2>4. Timed(previous') /\ Timed(counted')
    BY <2>1, CountersTyped
  <2>5. DOMAIN identities' = KeysOf(rows')
    BY <2>1, CacheIsOfRows
  <2> QED  BY <2>1, <2>2, <2>3, <2>4, <2>5 DEF TypeOK, Timed
<1>8. CASE Minimize \/ Restore
  <2>1. Timed(None)
    BY DEF Timed, None
  <2>2. /\ minimized' \in BOOLEAN /\ timed' \in {timed, FALSE} /\ previous' \in {previous, None}
        /\ UNCHANGED <<os, clock, pc, raw, identities, rows, counted>>
    BY <1>8 DEF Minimize, Restore, world
  <2> QED  BY <2>1, <2>2 DEF TypeOK, Timed, KeysOf
<1>9. CASE UNCHANGED vars
  BY <1>9 DEF vars, TypeOK, KeysOf
<1> QED  BY <1>3, <1>4, <1>5, <1>6, <1>7, <1>8, <1>9 DEF Next, World

-----------------------------------------------------------------------------
(* Theorems *)

\* PathIsOwn: no row of a running process has the path of another.
THEOREM OwnPath == Spec => []PathIsOwn
<1>1. Init => IInv
  BY InitHolds
<1>2. IInv /\ [Next]_vars => IInv'
  BY StepKeeps
<1>3. IInv => PathIsOwn
  BY DEF IInv, OwnRows, Fits, PathIsOwn
<1> QED  BY <1>1, <1>2, <1>3, PTL DEF Spec

\* CpuIsOwn: the CPU time shown is what the process used since the last scan.
THEOREM OwnCpu == Spec => []CpuIsOwn
<1>1. Init => IInv
  BY InitHolds
<1>2. IInv /\ [Next]_vars => IInv'
  BY StepKeeps
<1>3. IInv => CpuIsOwn
  BY DEF IInv
<1> QED  BY <1>1, <1>2, <1>3, PTL DEF Spec

\* TypeOK: a row has a key, a path, a trust, findings and a CPU time of the
\* kinds that scan may give it, whatever processes came and went between the
\* list and the queries (Scanner::scan, classify_evidence).
THEOREM TypeCorrect == Spec => []TypeOK
<1>1. Init => TypeOK
  BY TypesInit
<1>2. TypeOK /\ [Next]_vars => TypeOK'
  BY TypesKept
<1> QED  BY <1>1, <1>2, PTL DEF Spec
=============================================================================
