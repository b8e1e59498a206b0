----------------------------- MODULE VerifyPack -----------------------------
(***************************************************************************)
(* scripts/verify-pack.mjs: the packages are packed as the publish         *)
(* workflow packs them, with the repository's CHANGELOG and LICENSE copied *)
(* into each, and what was packed is installed and examined.  The files    *)
(* that are copied are one here, known by its edition.                     *)
(***************************************************************************)
EXTENDS Integers, FiniteSets, VerifyPackState

CONSTANT MaxEdition   \* bound: editions of the file that is copied

vars == <<at, edition, copy, found, staged, tarball, examined, faults, failures>>

PackTypeOK ==
  /\ at \in {"idle", "building", "staging", "packing", "installing", "examining", "passed", "failed"}
  /\ edition \in 1..MaxEdition /\ {copy, found} \subseteq [Packages -> 0..MaxEdition]
  /\ staged \subseteq Packages /\ DOMAIN tarball \subseteq Packages
  /\ faults \subseteq examined /\ examined \subseteq Examination /\ failures \in BOOLEAN

AtRest == at \in {"idle", "passed", "failed"}
Unpacked == [p \in {} |-> 0]

(* A package may have a file of its own. *)
Init ==
  /\ at = "idle" /\ edition = 1 /\ copy \in [Packages -> {0, 1}] /\ found = copy
  /\ staged = {} /\ tarball = Unpacked
  /\ examined = {} /\ faults = {} /\ failures = FALSE

Begin ==
  /\ AtRest /\ at' = "building"
  /\ found' = copy /\ staged' = {} /\ tarball' = Unpacked
  /\ examined' = {} /\ faults' = {} /\ failures' = FALSE
  /\ UNCHANGED <<edition, copy>>

Build ==
  /\ at = "building" /\ at' = "staging"
  /\ UNCHANGED <<edition, copy, found, staged, tarball, examined, faults, failures>>

(* One file after the other; one that is there is left alone. *)
Stage ==
  /\ at = "staging"
  /\ \E p \in Packages : copy[p] = 0 /\ copy' = [copy EXCEPT ![p] = edition] /\ staged' = staged \cup {p}
  /\ UNCHANGED <<at, edition, found, tarball, examined, faults, failures>>

Staged ==
  /\ at = "staging" /\ 0 \notin {copy[p] : p \in Packages} /\ at' = "packing"
  /\ UNCHANGED <<edition, copy, found, staged, tarball, examined, faults, failures>>

Pack ==
  /\ at = "packing"
  /\ \E p \in Packages \ DOMAIN tarball :
       tarball' = [q \in DOMAIN tarball \cup {p} |-> IF q = p THEN copy[p] ELSE tarball[q]]
  /\ UNCHANGED <<at, edition, copy, found, staged, examined, faults, failures>>

\* Mutant of Unstage: the copies of every package are removed.
UnstageAll == copy' = [p \in Packages |-> 0]

(* The finally around the packing. *)
Unstage == copy' = [p \in Packages |-> IF p \in staged THEN 0 ELSE copy[p]]

Packed ==
  /\ at = "packing" /\ DOMAIN tarball = Packages
  /\ at' = "installing" /\ Unstage
  /\ UNCHANGED <<edition, found, staged, tarball, examined, faults, failures>>

Install ==
  /\ at = "installing" /\ at' = "examining"
  /\ UNCHANGED <<edition, copy, found, staged, tarball, examined, faults, failures>>

(* check() notes what is wrong and goes on. *)
Examine ==
  /\ at = "examining"
  /\ \E e \in Examination \ (examined \cup {"declarations"}), wrong \in BOOLEAN :
       /\ examined' = examined \cup {e}
       /\ faults' = IF wrong THEN faults \cup {e} ELSE faults
       /\ failures' = (failures \/ wrong)
  /\ UNCHANGED <<at, edition, copy, found, staged, tarball>>

(* What the compiler says of the published declarations is of no file, of a  *)
(* package of ours or of somebody else's declarations; the last is ignored,  *)
(* but a check that reaches nobody else's is noted as one that cannot fail.  *)
CheckDeclarations ==
  /\ at = "examining" /\ "declarations" \in Examination \ examined
  /\ examined' = examined \cup {"declarations"}
  /\ \E diagnostics \in SUBSET {"no file", "own", "upstream"}, foreign \in BOOLEAN :
       LET ours == diagnostics \ {"upstream"}
       IN  /\ "upstream" \in diagnostics => foreign
           /\ faults' = IF ours # {} THEN faults \cup {"declarations"} ELSE faults
           /\ failures' = (failures \/ ours # {} \/ ~foreign)
  /\ UNCHANGED <<at, edition, copy, found, staged, tarball>>

(* A command that fails, a file or an entry that is missing ends the run;   *)
(* packing removes its copies on the way out, staging does not.             *)
Throws ==
  /\ ~AtRest /\ at' = "failed" /\ failures' = TRUE
  /\ IF at = "packing" THEN Unstage ELSE UNCHANGED copy
  /\ UNCHANGED <<edition, found, staged, tarball, examined, faults>>

Ends ==
  /\ at = "examining" /\ examined = Examination
  /\ at' = IF failures THEN "failed" ELSE "passed"
  /\ UNCHANGED <<edition, copy, found, staged, tarball, examined, faults, failures>>

Killed ==
  /\ ~AtRest /\ at' = "idle"
  /\ UNCHANGED <<edition, copy, found, staged, tarball, examined, faults, failures>>

(* The developer dates the changelog, or cleans the tree. *)
Edit ==
  /\ AtRest /\ edition < MaxEdition /\ edition' = edition + 1
  /\ UNCHANGED <<at, copy, found, staged, tarball, examined, faults, failures>>

CleanTree ==
  /\ at = "idle" /\ copy # found
  /\ copy' = found
  /\ UNCHANGED <<at, edition, found, staged, tarball, examined, faults, failures>>

Next ==
  \/ Begin \/ Build \/ Stage \/ Staged \/ Pack \/ Packed \/ Install \/ Examine \/ CheckDeclarations
  \/ Throws \/ Ends \/ Killed \/ Edit \/ CleanTree

Spec == Init /\ [][Next]_vars
=============================================================================
