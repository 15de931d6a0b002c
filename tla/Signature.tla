----------------------------- MODULE Signature -----------------------------
(***************************************************************************)
(* One Authenticode verification: src/signature.rs, verify and what it     *)
(* calls, step by step, each call to Windows being a step that may be      *)
(* refused, while other programs replace, delete or rewrite the file.      *)
(*                                                                         *)
(* A file is what the two kinds of signature say of its contents.  Hashes, *)
(* member tags and certificates are abstracted: the hash of a file finds   *)
(* its catalog, and WinVerifyTrust answers what is true of the contents it *)
(* was given, or that it could not tell.                                   *)
(***************************************************************************)
EXTENDS Naturals, FiniteSets

CONSTANTS
    Missing,    \* no file at the path, or one that cannot be opened
    MaxChanges  \* bound: changes of the file while it is verified

Kinds == {"none", "good", "bad"}
Files == [catalog : Kinds, embedded : Kinds]

ASSUME SignatureAssumption == Missing \notin Files /\ MaxChanges \in Nat

\* What WinVerifyTrust returns, as far as classify tells it apart.
Statuses == {"ok", "nosignature", "broken", "error"}
States   == {"Trusted", "Unsigned", "Invalid", "Unavailable"}

\* The steps, named for the call that comes next.
Steps == {"start", "acquire", "hash", "lookup", "describe", "verify", "signer",
          "close", "release", "done"}

VARIABLES
    path,      \* the request names a path
    disk,      \* the file at that path now
    held,      \* the file of the open handle
    pc,
    via,       \* which signature WinVerifyTrust is asked for
    handle, admin, catalog, state,   \* what is open
    hashed,    \* the contents that were hashed
    status,    \* what WinVerifyTrust returned
    signer,    \* a name was read
    verdict,
    refused,   \* history: the calls of verify_via_catalog that were refused
    seen       \* history: the files that were at the path meanwhile

resources == <<handle, admin, catalog, state>>
answers   == <<via, hashed, status, signer, verdict>>
verification == <<path, disk, held, pc, resources, answers, refused, seen>>

NotYet == "NotYet"

VerificationInit ==
    /\ path \in BOOLEAN
    /\ disk \in Files \cup {Missing}
    /\ held = Missing
    /\ pc = "start"
    /\ via = "catalog"
    /\ handle = FALSE /\ admin = FALSE /\ catalog = FALSE /\ state = FALSE
    /\ hashed = Missing
    /\ status = "error" /\ signer = FALSE /\ verdict = NotYet
    /\ refused = {}
    /\ seen = {disk}

-----------------------------------------------------------------------------
(* Other programs *)

Changes == pc # "done" /\ Cardinality(seen) <= MaxChanges

\* The file is deleted, or another is moved to its path; every share mode is
\* granted, so the open handle stays on the old one.
Replace(f) ==
    /\ Changes /\ f # disk
    /\ disk' = f
    /\ seen' = seen \cup {f}
    /\ UNCHANGED <<path, held, pc, refused>> /\ UNCHANGED resources /\ UNCHANGED answers

\* It is rewritten in place, under the handle too.
Rewrite(f) ==
    /\ Changes /\ disk # Missing /\ f \notin {disk, Missing}
    /\ disk' = f
    /\ held' = IF handle /\ held = disk THEN f ELSE held
    /\ seen' = seen \cup {f}
    /\ UNCHANGED <<path, pc, refused>> /\ UNCHANGED resources /\ UNCHANGED answers

-----------------------------------------------------------------------------
(* verify *)

\* An empty path, and CreateFileW without a file.
CannotOpen ==
    /\ pc = "start"
    /\ verdict' = "Unavailable"
    /\ pc' = "done"
    /\ UNCHANGED <<path, disk, held, via, hashed, status, signer, refused, seen>>
    /\ UNCHANGED resources

Open ==
    /\ pc = "start"
    /\ path /\ disk # Missing
    /\ handle' = TRUE
    /\ held' = disk
    /\ pc' = "acquire"
    /\ UNCHANGED <<path, disk, admin, catalog, state, refused, seen>> /\ UNCHANGED answers

\* verify_via_catalog returns None: the administrator context is released, and
\* what remains is the embedded signature.
Embedded ==
    /\ admin' = FALSE
    /\ via' = "embedded"
    /\ pc' = "verify"

-----------------------------------------------------------------------------
(* verify_via_catalog *)

Acquire ==
    /\ pc = "acquire"
    /\ \/ admin' = TRUE /\ pc' = "hash" /\ UNCHANGED <<via, refused>>
       \/ Embedded /\ refused' = refused \cup {"acquire"}
    /\ UNCHANGED <<path, disk, held, handle, catalog, state, seen>>
    /\ UNCHANGED <<hashed, status, signer, verdict>>

Hash ==
    /\ pc = "hash"
    /\ \/ hashed' = held /\ pc' = "lookup" /\ UNCHANGED <<via, admin, refused>>
       \/ Embedded /\ refused' = refused \cup {"hash"} /\ UNCHANGED hashed
    /\ UNCHANGED <<path, disk, held, handle, catalog, state, seen>>
    /\ UNCHANGED <<status, signer, verdict>>

LookupUnchecked ==
    /\ pc = "lookup"
    /\ catalog' = TRUE /\ pc' = "describe"
    /\ UNCHANGED <<via, admin, refused>>
    /\ UNCHANGED <<path, disk, held, handle, state, seen, hashed, status, signer, verdict>>

\* A search that fails and a file without a catalog both answer 0.
Lookup ==
    /\ pc = "lookup"
    /\ \/ /\ hashed.catalog # "none"
          /\ catalog' = TRUE /\ pc' = "describe"
          /\ UNCHANGED <<via, admin, refused>>
       \/ /\ Embedded /\ UNCHANGED catalog
          /\ refused' = IF hashed.catalog = "none" THEN refused ELSE refused \cup {"lookup"}
    /\ UNCHANGED <<path, disk, held, handle, state, seen, hashed, status, signer, verdict>>

DescribeKeepsContext ==
    /\ pc = "describe"
    /\ \/ pc' = "verify" /\ UNCHANGED <<via, admin, catalog, refused>>
       \/ /\ Embedded /\ UNCHANGED catalog
          /\ refused' = refused \cup {"describe"}
    /\ UNCHANGED <<path, disk, held, handle, state, seen, hashed, status, signer, verdict>>

Describe ==
    /\ pc = "describe"
    /\ \/ pc' = "verify" /\ UNCHANGED <<via, admin, catalog, refused>>
       \/ /\ Embedded /\ catalog' = FALSE
          /\ refused' = refused \cup {"describe"}
    /\ UNCHANGED <<path, disk, held, handle, state, seen, hashed, status, signer, verdict>>

-----------------------------------------------------------------------------
(* run_verification *)

\* What is true of a signature, as a status.
Told(kind) ==
    CASE kind = "good" -> "ok" [] kind = "bad" -> "broken" [] kind = "none" -> "nosignature"

\* The contents that are verified: by the catalog those whose hash is handed
\* over, else those of the file that is at the path now.
Subject == IF via = "catalog" THEN hashed ELSE disk

Answers(f) ==
    IF f = Missing THEN {"error"}
    ELSE {Told(IF via = "catalog" THEN f.catalog ELSE f.embedded), "error"}

\* WinVerifyTrust with WTD_STATEACTION_VERIFY keeps its state whatever it says.
Verify ==
    /\ pc = "verify"
    /\ status' \in Answers(Subject)
    /\ state' = TRUE
    /\ pc' = IF status' = "ok" THEN "signer" ELSE "close"
    /\ UNCHANGED <<path, disk, held, via, handle, admin, catalog, hashed, signer, verdict>>
    /\ UNCHANGED <<refused, seen>>

\* signer_name: a name, or none at any of its five early returns.
Signer ==
    /\ pc = "signer"
    /\ signer' \in BOOLEAN
    /\ pc' = "close"
    /\ UNCHANGED <<path, disk, held, via, hashed, status, verdict, refused, seen>>
    /\ UNCHANGED resources

ClassifyAsOne(s) ==
    CASE s = "ok" -> "Trusted" [] s = "broken" -> "Invalid" [] OTHER -> "Unsigned"

Classify(s) ==
    CASE s = "ok"          -> "Trusted"
      [] s = "nosignature" -> "Unsigned"
      [] s = "broken"      -> "Invalid"
      [] s = "error"       -> "Unavailable"

\* WTD_STATEACTION_CLOSE.
CloseState ==
    /\ pc = "close"
    /\ state' = FALSE
    /\ verdict' = Classify(status)
    /\ pc' = "release"
    /\ UNCHANGED <<path, disk, held, via, hashed, status, signer, refused, seen>>
    /\ UNCHANGED <<handle, admin, catalog>>

\* The catalog context if there is one, the administrator context, the file.
Release ==
    /\ pc = "release"
    /\ catalog' = FALSE /\ admin' = FALSE /\ handle' = FALSE
    /\ pc' = "done"
    /\ UNCHANGED <<path, disk, held, state, refused, seen>> /\ UNCHANGED answers

Program ==
    \/ CannotOpen \/ Open
    \/ Acquire \/ Hash \/ Lookup \/ Describe
    \/ Verify \/ Signer \/ CloseState \/ Release

VerificationNext ==
    \/ Program
    \/ \E f \in Files \cup {Missing} : Replace(f) \/ Rewrite(f)

Verification == VerificationInit /\ [][VerificationNext]_verification

-----------------------------------------------------------------------------
(* Properties *)

\* Every variable keeps its type, and a catalog context is only described and
\* verified for contents that a catalog lists: 0 is no context.
VerificationTypeOK ==
    /\ path \in BOOLEAN
    /\ {disk, held, hashed} \subseteq Files \cup {Missing}
    /\ pc \in Steps
    /\ via \in {"catalog", "embedded"}
    /\ {handle, admin, catalog, state, signer} \subseteq BOOLEAN
    /\ status \in Statuses /\ verdict \in States \cup {NotYet}
    /\ refused \subseteq Steps /\ seen \subseteq Files \cup {Missing}
    /\ pc = "describe" \/ (via = "catalog" /\ pc \in {"verify", "signer", "close", "release"}) =>
           hashed # Missing /\ hashed.catalog # "none"

\* Contexts are released in the order that Windows asks for, the innermost
\* first and never twice, and nothing is left open by any of the early returns:
\* "The verify/close pair must always be balanced", says run_verification.
Balanced ==
    /\ catalog => admin
    /\ admin \/ state => handle
    /\ admin => via = "catalog"
    /\ pc \in {"start", "done"} => ~handle /\ ~admin /\ ~catalog /\ ~state

Claimed(v, kind) ==
    verdict = v => \E f \in seen \ {Missing} : kind \in {f.catalog, f.embedded}

\* What a verification that nothing disturbs comes to.
Expected(f) ==
    IF f = Missing THEN "Unavailable"
    ELSE Classify(Told(IF f.catalog # "none" THEN f.catalog ELSE f.embedded))

\* Trusted and Invalid are said of signatures that a file at the path did have,
\* whatever is refused or replaced on the way; and if no call on the way to the
\* catalog was refused and the file stayed the same, the verdict is the one that
\* its catalog, or without one its embedded signature, deserves, or Unavailable.
Honest ==
    /\ Claimed("Trusted", "good")
    /\ Claimed("Invalid", "bad")
    /\ \A f \in seen : verdict # NotYet /\ seen = {f} /\ refused = {} =>
                           verdict \in {Expected(f), "Unavailable"}

\* "No signature is present, embedded or catalogued", signature.rs says of
\* Unsigned, and README.md "no signature at all": there was such a file at the
\* path.  The code does not keep this.  A refused call of verify_via_catalog
\* looks like a file that no catalog lists, and the embedded signature is that of
\* the file at the path by then.
UnsignedIsUnsigned ==
    verdict = "Unsigned" =>
        \E f \in seen \ {Missing} : f.catalog = "none" /\ f.embedded = "none"
=============================================================================
