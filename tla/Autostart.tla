----------------------------- MODULE Autostart -----------------------------
(***************************************************************************)
(* The index of startup entries, built once: src/autostart.rs, build,      *)
(* collect_run_values and collect_services, entry by entry, while other    *)
(* programs add and remove entries and so shift the positions that the     *)
(* enumeration counts.                                                     *)
(*                                                                         *)
(* Run and RunOnce are read alike and are one key here.  An entry is the   *)
(* executable it starts and whether the code can make it out: the parsing  *)
(* of commands and of service images, and what a service must be to count, *)
(* is abstracted to that.  A service is looked at in one step.             *)
(***************************************************************************)
EXTENDS Naturals, Sequences, FiniteSets, SequencesExt

CONSTANTS
    Exes,               \* the executables that startup entries name
    MaxRegistryChanges  \* bound: entries added or removed during the build

ASSUME AutostartAssumption == MaxRegistryChanges \in Nat

\* The keys.  The two views of the user's key are the same key.
Places == {"machine64", "machine32", "user", "services"}
Visits == <<"machine64", "machine32", "user", "user", "services">>

\* large: ERROR_MORE_DATA.  passed: no command, an open quote, a service that
\* is not automatic or cannot be opened.
Shapes  == {"plain", "large", "passed"}
Entries == [exe : Exes, shape : Shapes]

VARIABLES
    registry,   \* the entries of each key, in the order of enumeration
    visit,      \* which of Visits is read
    position,   \* RegEnumValueW's index, from 1; 0 before the key is open
    index,      \* the executables found
    changes,    \* bounded by MaxRegistryChanges
    original,   \* history: <<place, entry>> that were there at first
    present,    \* history: those that were there at any time
    removed,    \* history: how many were removed
    refused     \* history: keys that could not be opened or read on

walk == <<registry, visit, position, index, changes, original, present, removed, refused>>

NoEntries == [p \in Places |-> <<>>]
Place == Visits[visit]
Walking == visit <= Len(Visits)

InRegistry(reg) == {pe \in Places \X Entries : pe[2] \in Range(reg[pe[1]])}

WalkInit(reg) ==
    /\ registry = reg
    /\ visit = 1 /\ position = 0
    /\ index = {}
    /\ changes = 0
    /\ original = InRegistry(reg) /\ present = original
    /\ removed = 0 /\ refused = {}

\* The key is closed and the next one is read.
NextVisit == visit' = visit + 1 /\ position' = 0

OpenKey ==
    /\ Walking /\ position = 0
    /\ \/ position' = 1 /\ UNCHANGED <<visit, refused>>
       \/ NextVisit /\ refused' = refused \cup {Place}
    /\ UNCHANGED <<registry, index, changes, original, present, removed>>

\* What an entry adds to the index.
Taken(e) == IF e.shape = "plain" THEN {e.exe} ELSE {}

EnumerateStopsAtLarge ==
    /\ Walking /\ position > 0
    /\ IF position > Len(registry[Place]) \/ registry[Place][position].shape = "large"
         THEN NextVisit /\ UNCHANGED index
         ELSE /\ index' = index \cup Taken(registry[Place][position])
              /\ position' = position + 1
              /\ UNCHANGED visit
    /\ UNCHANGED <<registry, changes, original, present, removed, refused>>

\* RegEnumValueW or RegEnumKeyExW.  A value that is too large is passed over;
\* the end of the key ends the loop.
Enumerate ==
    /\ Walking /\ position > 0
    /\ IF position > Len(registry[Place])
         THEN NextVisit /\ UNCHANGED index
         ELSE /\ index' = index \cup Taken(registry[Place][position])
              /\ position' = position + 1
              /\ UNCHANGED visit
    /\ UNCHANGED <<registry, changes, original, present, removed, refused>>

\* Any other error ends the loop too.
EnumerateFails ==
    /\ Walking /\ position > 0
    /\ NextVisit
    /\ refused' = refused \cup {Place}
    /\ UNCHANGED <<registry, index, changes, original, present, removed>>

\* Other programs.
Changes == Walking /\ changes < MaxRegistryChanges /\ changes' = changes + 1

AddEntry(p, n, e) ==
    /\ Changes
    /\ registry' = [registry EXCEPT ![p] = InsertAt(@, n, e)]
    /\ present' = present \cup {<<p, e>>}
    /\ UNCHANGED <<visit, position, index, original, removed, refused>>

RemoveEntry(p, n) ==
    /\ Changes
    /\ n \in DOMAIN registry[p]
    /\ registry' = [registry EXCEPT ![p] = RemoveAt(@, n)]
    /\ removed' = removed + 1
    /\ UNCHANGED <<visit, position, index, original, present, refused>>

Walk ==
    \/ OpenKey \/ Enumerate \/ EnumerateFails
    \/ \E p \in Places : \E n \in 1 .. Len(registry[p]) + 1 :
         \/ \E e \in Entries : AddEntry(p, n, e)
         \/ RemoveEntry(p, n)

-----------------------------------------------------------------------------
(* The promise of the walk *)

Missed == {pe \in original : pe[1] \notin refused /\ ~(Taken(pe[2]) \subseteq index)}

\* What is in the index was a startup entry while it was built.  Where the keys
\* could be read to the end, an entry that was there at first is missed only
\* because one was removed, itself or one before it, and no removal costs two.
WalkFaithful ==
    /\ \A x \in index : \E pe \in present : x \in Taken(pe[2])
    /\ ~Walking => Cardinality(Missed) <= removed
=============================================================================
