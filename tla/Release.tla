------------------------------- MODULE Release -------------------------------
(***************************************************************************)
(* scripts/release.mjs prepare, with the scripts it runs (set-version.mjs, *)
(* rc-dependencies.mjs), on the clone of one developer: what it reads and  *)
(* writes in the working tree, the local branches, origin and npm, and     *)
(* what happens around it.  Any doing may fail, and so may the process.     *)
(* Version n is stamped as 2n - 1 while it is a preview and as 2n once it  *)
(* is released.                                                            *)
(***************************************************************************)
EXTENDS Integers, FiniteSets, Sequences, ReleaseState

CONSTANTS
  MaxSource,   \* bound: changes of the sources
  MaxLatest,   \* bound: releases of the sibling repository
  MaxVersion   \* bound: releases of this one

clone == <<checkout, work, litter, local>>
world == <<origin, pullRequest, main, tags, latest>>
vars == <<doing, clone, world, gated>>

(* What a release touches: each package's version, the lockfile's of them   *)
(* and of the sibling, the range on the sibling, the version the changelog  *)
(* is dated for; and the sources, which it does not.  "release" is the      *)
(* latest release branch: its name has the version.                         *)
Tree == [stamp : [Package -> Nat], locked : Nat, range : Nat, lockedRange : Nat,
         dated : Nat, source : Nat]
Branch == {"development", "release"}
Steps == {"idle", "stopped", "gate", "cut", "stamp", "lock", "move", "recheck", "date", "ask", "commit", "push", "open"}

ReleaseTypeOK ==
  /\ doing \in Steps
  /\ checkout \in Branch /\ work \in Tree /\ litter \in BOOLEAN
  /\ \A f \in {local, origin} : DOMAIN f \subseteq Branch /\ \A b \in DOMAIN f : f[b] \in Tree
  /\ tags \subseteq Nat /\ {pullRequest, main} \subseteq Nat /\ latest \in 1..MaxLatest
  /\ gated = <<>> \/ gated \in Tree

Idle == doing \in {"idle", "stopped"}
Clean == work = local[checkout] /\ ~litter
Of(tree) == tree.stamp[Stamps[1]]
VersionOf(tree) == (Of(tree) + 1) \div 2      \* released, or that a preview is of
Version == VersionOf(local["development"])   \* that prepare releases
Without(f, b) == [x \in DOMAIN f \ {b} |-> f[x]]
With(f, b, tree) == [x \in DOMAIN f \cup {b} |-> IF x = b THEN tree ELSE f[x]]

Seed == [stamp |-> Stamped(1), locked |-> 1, range |-> 1, lockedRange |-> 1, dated |-> 0, source |-> 0]

(* The range on the sibling may be on a preview, ahead of npm. *)
Init ==
  /\ doing = "idle" /\ checkout = "development" /\ litter = FALSE
  /\ \E r \in {1, 2} : work = [Seed EXCEPT !.range = r, !.lockedRange = r]
  /\ local = [b \in {"development"} |-> work] /\ origin = local
  /\ pullRequest = 0 /\ main = 0 /\ tags = {} /\ latest = 1
  /\ gated = <<>>

-----------------------------------------------------------------------------
(* prepare *)

(* requireCleanTree, requireBranch, requireInSyncWithOrigin, a preview, no  *)
(* drift, the tag free, no release branch here or on origin, and no range   *)
(* ahead of npm; any of them stops prepare before it changed a thing.       *)
Preflight ==
  /\ Idle /\ Clean /\ checkout = "development"
  /\ origin["development"] = local["development"]
  /\ Of(work) % 2 = 1 /\ work.stamp = Stamped(Of(work))
  /\ Version \notin tags
  /\ \A f \in {local, origin} : "release" \in DOMAIN f => VersionOf(f["release"]) # Version
  /\ work.range <= latest
  /\ doing' = "gate" /\ gated' = <<>>
  /\ UNCHANGED <<clone, world>>

(* build, typecheck, test and verify:pack, or --no-gate. *)
Gate ==
  /\ doing = "gate" /\ doing' = "cut"
  /\ gated' \in {<<>>, work}
  /\ UNCHANGED <<clone, world>>

Cut ==
  /\ doing = "cut" /\ doing' = "stamp"
  /\ checkout' = "release" /\ local' = With(local, "release", local[checkout])
  /\ UNCHANGED <<work, litter, world, gated>>

(* The packages that are still to be stamped, by their place. *)
Unstamped == {i \in DOMAIN Stamps : work.stamp[Stamps[i]] # 2 * Version}

\* Mutant of Stamp: the last manifest is not written.
StampAllButLast ==
  /\ doing = "stamp"
  /\ \E i \in Unstamped :
       /\ \A j \in Unstamped : i <= j
       /\ work' = [work EXCEPT !.stamp[Stamps[i]] = 2 * Version]
  /\ UNCHANGED <<checkout, litter, local, world, gated>>
  /\ doing' = IF Cardinality(Unstamped') = 1 THEN "lock" ELSE "stamp"

(* set-version.mjs writes one manifest after the other. *)
Stamp ==
  /\ doing = "stamp"
  /\ \E i \in Unstamped :
       /\ \A j \in Unstamped : i <= j
       /\ work' = [work EXCEPT !.stamp[Stamps[i]] = 2 * Version]
  /\ UNCHANGED <<checkout, litter, local, world, gated>>
  /\ doing' = IF Unstamped' = {} THEN "lock" ELSE "stamp"

(* npm install --package-lock-only *)
Lock ==
  /\ doing = "lock" /\ doing' = "move"
  /\ work' = [work EXCEPT !.locked = Of(work)]
  /\ UNCHANGED <<checkout, litter, local, world, gated>>

(* fixRepository: a range or a lockfile that is behind moves to npm's       *)
(* latest release.                                                          *)
Named(tree) == tree.range = latest /\ tree.lockedRange = latest
Move ==
  /\ doing = "move" /\ doing' = IF Named(work) THEN "date" ELSE "recheck"
  /\ work' = [work EXCEPT !.range = latest, !.lockedRange = latest]
  /\ UNCHANGED <<checkout, litter, local, world, gated>>

(* What it moved it checks against npm again: a release of the sibling in   *)
(* between stops prepare, with the branch and its stamps in place.          *)
Recheck ==
  /\ doing = "recheck" /\ doing' = IF Named(work) THEN "date" ELSE "idle"
  /\ UNCHANGED <<clone, world, gated>>

(* stampChangelog *)
Date ==
  /\ doing = "date" /\ doing' = "ask"
  /\ work' = [work EXCEPT !.dated = Version]
  /\ UNCHANGED <<checkout, litter, local, world, gated>>

(* --dry-run and N leave the tree as it is. *)
Confirm ==
  /\ doing = "ask" /\ doing' \in {"commit", "stopped"}
  /\ UNCHANGED <<clone, world, gated>>

\* Mutant of Commit: everything that changed is committed.
CommitAll ==
  /\ doing = "commit" /\ doing' = "push"
  /\ local' = With(local, "release", work)
  /\ UNCHANGED <<checkout, work, litter, world, gated>>

(* git add names the files that prepare wrote. *)
Commit ==
  /\ doing = "commit" /\ doing' = "push"
  /\ local' = With(local, "release", [work EXCEPT !.source = local["release"].source])
  /\ UNCHANGED <<checkout, work, litter, world, gated>>

Push ==
  /\ doing = "push" /\ doing' = "open"
  /\ origin' = With(origin, "release", local["release"])
  /\ UNCHANGED <<clone, pullRequest, main, tags, latest, gated>>

(* gh pr create, by prepare or, after it failed, by hand. *)
Open ==
  /\ doing = "open" \/ Idle
  /\ "release" \in DOMAIN origin /\ pullRequest = 0
  /\ doing' = "idle"
  /\ pullRequest' = VersionOf(origin["release"])
  /\ UNCHANGED <<clone, origin, main, tags, latest, gated>>

(* A command that fails, or a process that is killed: verify-pack may leave *)
(* the copies it packs with.                                                *)
Stops ==
  /\ ~Idle /\ doing' = "idle"
  /\ litter' \in {litter, doing = "gate"}
  /\ UNCHANGED <<checkout, work, local, world, gated>>

-----------------------------------------------------------------------------
(* The developer, between two runs or at the question *)

Edit ==
  /\ Idle \/ doing = "ask"
  /\ work.source < MaxSource
  /\ work' = [work EXCEPT !.source = work.source + 1]
  /\ UNCHANGED <<doing, checkout, litter, local, world, gated>>

(* git checkout . && git clean *)
Discard ==
  /\ Idle /\ ~Clean
  /\ doing' = "idle"
  /\ work' = local[checkout] /\ litter' = FALSE
  /\ UNCHANGED <<checkout, local, world, gated>>

(* What prepare says abandons a release: git checkout development, git      *)
(* checkout . and git branch -D.                                            *)
Abandon ==
  /\ Idle /\ checkout = "release"
  /\ doing' = "idle" /\ checkout' = "development"
  /\ work' = local["development"] /\ local' = Without(local, "release")
  /\ UNCHANGED <<litter, world, gated>>

(* What it says finishes one: git commit -am, of all that changed, and git   *)
(* push.                                                                    *)
FinishByHand ==
  /\ doing = "stopped" /\ checkout = "release" /\ work # local["release"]
  /\ local' = With(local, "release", work) /\ origin' = With(origin, "release", work)
  /\ UNCHANGED <<doing, checkout, work, litter, pullRequest, main, tags, latest, gated>>

Pull ==
  /\ Idle /\ Clean /\ checkout = "development"
  /\ local' = With(local, "development", origin["development"])
  /\ work' = origin["development"]
  /\ UNCHANGED <<doing, checkout, litter, world, gated>>

-----------------------------------------------------------------------------
(* GitHub and npm *)

OthersPush ==
  /\ origin["development"].source < MaxSource
  /\ origin' = [origin EXCEPT !["development"].source = origin["development"].source + 1]
  /\ UNCHANGED <<doing, clone, pullRequest, main, tags, latest, gated>>

(* The pull request is merged and its branch deleted, or it is closed. *)
Merge ==
  /\ pullRequest # 0 /\ pullRequest' = 0
  /\ main' \in {main, pullRequest}
  /\ origin' = IF VersionOf(origin["release"]) = pullRequest THEN Without(origin, "release") ELSE origin
  /\ UNCHANGED <<doing, clone, tags, latest, gated>>

Publish ==
  /\ main # 0 /\ main \notin tags
  /\ tags' = tags \cup {main}
  /\ UNCHANGED <<doing, clone, origin, pullRequest, main, latest, gated>>

(* The publish workflow seeds the next preview on development. *)
Reseed ==
  /\ main \in tags /\ main < MaxVersion /\ Of(origin["development"]) < 2 * main
  /\ origin' = [origin EXCEPT !["development"].stamp = Stamped(2 * main + 1),
                              !["development"].locked = 2 * main + 1,
                              !["development"].dated = main]
  /\ UNCHANGED <<doing, clone, pullRequest, main, tags, latest, gated>>

SiblingReleases ==
  /\ latest < MaxLatest /\ latest' = latest + 1
  /\ UNCHANGED <<doing, clone, origin, pullRequest, main, tags, gated>>

Next ==
  \/ Preflight \/ Gate \/ Cut \/ Stamp \/ Lock \/ Move \/ Recheck \/ Date
  \/ Confirm \/ Commit \/ Push \/ Open \/ Stops
  \/ Edit \/ Discard \/ Abandon \/ FinishByHand \/ Pull
  \/ OthersPush \/ Merge \/ Publish \/ Reseed \/ SiblingReleases

Spec == Init /\ [][Next]_vars
=============================================================================
