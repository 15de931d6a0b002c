--------------------------- MODULE Classification ---------------------------
(***************************************************************************)
(* What one look at a process makes of it: classify_normalized and         *)
(* replacement_from_rows of src/baseline.rs, classify_evidence of          *)
(* src/process.rs.  Names and paths are as normalized.                     *)
(***************************************************************************)
CONSTANT NoPath   \* the path of a process that could not be asked

Trusts == {"Protected", "Allowed", "Known", "Unclassified"}

\* Baseline::classify_normalized, for the paths recorded by name and those
\* allowed.
Match(records, allowed, name, path) ==
    CASE path \in allowed -> "Allowed"
      [] path \notin allowed /\ name \notin DOMAIN records -> "None"
      [] OTHER -> IF records[name] = {} THEN "LegacyName"
                  ELSE IF path = NoPath THEN "PathUnknown"
                  ELSE IF path \in records[name] THEN "Path" ELSE "PathMismatch"

\* classify_evidence: the trust, and what is found about the snapshot.
Trust(accessible, match) ==
    CASE ~accessible -> "Protected"
      [] accessible /\ match = "Allowed" -> "Allowed"
      [] accessible /\ match = "Path" -> "Known"
      [] OTHER -> "Unclassified"

AboutAnyProcess(accessible, records, match) ==
    (IF match = "None" /\ DOMAIN records # {} THEN {"New"} ELSE {})
      \cup (IF match = "PathMismatch" THEN {"DifferentPath"} ELSE {})

AboutSnapshot(accessible, records, match) ==
    IF ~accessible THEN {}
    ELSE (IF match = "None" /\ DOMAIN records # {} THEN {"New"} ELSE {})
           \cup (IF match = "PathMismatch" THEN {"DifferentPath"} ELSE {})
=============================================================================
