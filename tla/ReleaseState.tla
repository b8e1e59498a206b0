---------------------------- MODULE ReleaseState ----------------------------
(***************************************************************************)
(* The clone of the developer who runs scripts/release.mjs prepare, origin *)
(* and npm, and what a release that reaches origin has been.               *)
(***************************************************************************)
EXTENDS Naturals

CONSTANT Stamps   \* the packages, in the order they are stamped

ASSUME SomeStamps == 1 \in DOMAIN Stamps

VARIABLES
  doing,         \* of prepare: "idle", or what it does next
  checkout,      \* the branch that is checked out
  work,          \* the working tree
  litter,        \* copies verify-pack left in it
  local,         \* the tree of each local branch
  origin,        \* and of each branch of origin
  pullRequest,   \* version of the open pull request, or 0
  main,          \* version merged into main
  tags,          \* versions released
  latest,        \* npm's latest release of the sibling
  gated          \* the tree the gate passed on, or <<>> without a gate

Package == {Stamps[i] : i \in DOMAIN Stamps}
Stamped(n) == [p \in Package |-> n]

(* What reaches origin is a whole release, whatever stopped earlier runs:   *)
(* every package and the lockfile carry one released version, the changelog *)
(* is dated for it, and the sibling's range and lock agree (prepare).       *)
ReleaseIsWhole ==
  "release" \in DOMAIN origin =>
    LET tree == origin["release"]
    IN  /\ tree.stamp = Stamped(2 * tree.dated) /\ tree.locked = 2 * tree.dated
        /\ tree.lockedRange = tree.range /\ tree.range <= latest

(* The gate passed on the sources that prepare pushes: what was edited at   *)
(* the manual check is not in the release, nor what others pushed meanwhile. *)
GatedIsReleased ==
  doing = "open" /\ gated # <<>> =>
    "release" \in DOMAIN origin /\ origin["release"].source = gated.source
=============================================================================
