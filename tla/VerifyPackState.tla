-------------------------- MODULE VerifyPackState ---------------------------
(***************************************************************************)
(* What a run of scripts/verify-pack.mjs has packed and examined, and what *)
(* it leaves in the directories of the packages when it passes.            *)
(***************************************************************************)
CONSTANTS
  Packages,     \* what is published
  Examination   \* entries, bins, ranges, imports, publint, attw, declarations

VARIABLES
  at,        \* "idle", what the run does next, "passed" or "failed"
  edition,   \* of the file at the root
  copy,      \* edition of the file in each package's directory, or 0
  found,     \* copy, as the run found it
  staged,    \* the packages whose copy the run made
  tarball,   \* edition in each tarball; packages that are not packed have none
  examined,  \* the examinations that were made
  faults,    \* and those that found something wrong
  failures   \* the run noted something

(* A run that passes packed every package with the file, made every          *)
(* examination and found no fault, and left the directories as it found      *)
(* them, whatever earlier runs left behind.                                  *)
PassIsWhole ==
  at = "passed" =>
    /\ DOMAIN tarball = Packages /\ \A p \in Packages : tarball[p] # 0
    /\ examined = Examination /\ faults = {}
    /\ copy = found
=============================================================================
