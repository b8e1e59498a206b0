-------------------------- MODULE SmokeDeployState --------------------------
(***************************************************************************)
(* What scripts/smoke-deploy.mjs knows of the page it looks at, and what a *)
(* page that passes has been.                                              *)
(***************************************************************************)
VARIABLES
  looking,    \* "navigating", "settling", "looking", "judging", "done" or "dead"
  url,        \* the page
  attempt,    \* navigations of it so far
  loaded,     \* one of them succeeded
  elapsed,    \* since the first
  problems,   \* one was noted
  broken,     \* what was loaded is broken
  failing     \* the pages that failed

(* A page that is about to pass was loaded, and nothing that was seen of it *)
(* was broken, whichever attempt loaded it (the checks of the header).      *)
PassIsEarned ==
  looking = "judging" /\ ~problems => loaded /\ ~broken
=============================================================================
