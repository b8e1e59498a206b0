---------------------------- MODULE ScriptProofs ----------------------------
(***************************************************************************)
(* The scripts of a release for any packages, pages, patience and clock.   *)
(*                                                                         *)
(* release.mjs prepare: what each step has done to the working tree by     *)
(* then, that what is on origin is of the version prepare releases or      *)
(* older, and where the sources that passed the gate are.                  *)
(*                                                                         *)
(* smoke-deploy.mjs: what is broken has been noted from the moment it was  *)
(* seen, and only giving up reaches the verdict without a page.            *)
(*                                                                         *)
(* verify-pack.mjs: while the copies are in place the run knows which of   *)
(* them it made, so removing those restores what it found; a package is    *)
(* packed only when every copy is in place.                                *)
(***************************************************************************)
EXTENDS Release, SmokeDeployState, VerifyPackState, TLAPS

CONSTANTS Urls, Retries, TlsWait, TlsPause, Lasts, MaxEdition

Smoke == INSTANCE SmokeDeploy
Pack == INSTANCE VerifyPack

-----------------------------------------------------------------------------
(* prepare *)

Branches(f) ==
  /\ "development" \in DOMAIN f /\ DOMAIN f \subseteq Branch
  /\ \A b \in DOMAIN f : f[b] \in Tree

ReleaseTypes ==
  /\ doing \in Steps
  /\ work \in Tree
  /\ Branches(local) /\ Branches(origin)
  /\ checkout \in DOMAIN local
  /\ {pullRequest, main, latest} \subseteq Nat

WholeTree(tree) ==
  /\ tree.stamp = Stamped(2 * tree.dated) /\ tree.locked = 2 * tree.dated
  /\ tree.lockedRange = tree.range /\ tree.range <= latest

(* What prepare has done to the working tree by now. *)
Prepared ==
  /\ doing \in {"gate", "cut"} => checkout = "development" /\ work = local["development"]
  /\ doing \notin {"idle", "gate", "cut"} => checkout = "release"
  /\ doing \in {"lock", "move", "recheck", "date", "ask", "commit", "stopped"} =>
       work.stamp = Stamped(2 * Version)
  /\ doing \in {"move", "recheck", "date", "ask", "commit", "stopped"} =>
       work.locked = 2 * Version
  /\ doing \in {"date", "ask", "commit", "stopped"} =>
       work.lockedRange = work.range /\ work.range <= latest
  /\ doing \in {"ask", "commit", "stopped"} => work.dated = Version
  /\ doing = "push" => WholeTree(local["release"]) /\ local["release"].dated = Version

(* What is on origin is of the version prepare releases, or older. *)
Ordered ==
  /\ Of(local["development"]) <= Of(origin["development"])
  /\ "release" \in DOMAIN origin => origin["release"].dated <= Version
  /\ pullRequest # 0 => "release" \in DOMAIN origin /\ pullRequest <= origin["release"].dated
  /\ ~Idle /\ pullRequest # 0 => pullRequest < Version
  /\ doing = "open" => "release" \in DOMAIN origin /\ origin["release"].dated = Version

(* The sources the gate passed on go where the release goes. *)
Passed ==
  gated # <<>> =>
    /\ doing = "cut" => work.source = gated.source
    /\ doing \in {"stamp", "lock", "move", "recheck", "date", "ask", "commit", "push"} =>
         local["release"].source = gated.source
    /\ doing = "open" => origin["release"].source = gated.source

RelInv == ReleaseTypes /\ Prepared /\ Ordered /\ ReleaseIsWhole /\ Passed

(* The release branch is set. *)
LEMMA SetRelease ==
  ASSUME NEW f, Branches(f), NEW tree \in Tree, NEW g, g = With(f, "release", tree)
  PROVE  /\ Branches(g) /\ "release" \in DOMAIN g
         /\ g["release"] = tree /\ g["development"] = f["development"]
BY DEF With, Branches, Branch

(* Development is pulled. *)
LEMMA SetDevelopment ==
  ASSUME NEW f, Branches(f), NEW tree \in Tree, NEW g, g = With(f, "development", tree)
  PROVE  /\ Branches(g) /\ DOMAIN g = DOMAIN f /\ g["development"] = tree
         /\ "release" \in DOMAIN f => g["release"] = f["release"]
BY DEF With, Branches, Branch

(* A release branch is deleted. *)
LEMMA DropRelease ==
  ASSUME NEW f, Branches(f), NEW g, g = Without(f, "release")
  PROVE  Branches(g) /\ "release" \notin DOMAIN g /\ g["development"] = f["development"]
BY DEF Without, Branches, Branch

(* Halving: stamp 2n is of version n, and later stamps are of no earlier one. *)
LEMMA Halves ==
  /\ \A n \in Nat : (2 * n + 1) \div 2 = n
  /\ \A m, n \in Nat : m <= n => (m + 1) \div 2 <= (n + 1) \div 2
  /\ \A n \in Nat : (n + 1) \div 2 \in Nat
OBVIOUS

(* A stamped tree tells its version. *)
LEMMA Versions ==
  /\ \A tree \in Tree : Of(tree) \in Nat /\ VersionOf(tree) \in Nat
  /\ \A tree \in Tree : WholeTree(tree) => VersionOf(tree) = tree.dated
<1>1. Stamps[1] \in Package
  BY SomeStamps DEF Package
<1>2. \A tree \in Tree : Of(tree) \in Nat /\ VersionOf(tree) \in Nat
  BY <1>1, Halves DEF Tree, Of, VersionOf
<1>3. ASSUME NEW tree \in Tree, WholeTree(tree)
      PROVE  VersionOf(tree) = tree.dated
  <2>1. Of(tree) = 2 * tree.dated /\ tree.dated \in Nat
    BY <1>1, <1>3 DEF Of, WholeTree, Stamped, Tree
  <2>2. QED BY <2>1, Halves DEF VersionOf
<1>4. QED BY <1>2, <1>3

(* Development moves on, on origin. *)
LEMMA DevelopmentMoves ==
  ASSUME Branches(origin), NEW tree \in Tree, origin' = [origin EXCEPT !["development"] = tree]
  PROVE  /\ Branches(origin') /\ DOMAIN origin' = DOMAIN origin
         /\ origin'["development"] = tree
         /\ "release" \in DOMAIN origin => origin'["release"] = origin["release"]
BY DEF Branches

(* What a tree says. *)
LEMMA TreeFields ==
  ASSUME NEW tree \in Tree
  PROVE  /\ tree.stamp \in [Package -> Nat]
         /\ {tree.locked, tree.range, tree.lockedRange, tree.dated, tree.source} \subseteq Nat
BY DEF Tree

(* Types, given what branches there are by now. *)
LEMMA TypesStep ==
  ASSUME ReleaseTypes, Prepared, Next
  PROVE  ReleaseTypes'
<1> USE DEF ReleaseTypes
<1>1. local["development"] \in Tree /\ origin["development"] \in Tree /\ Version \in Nat
  BY Versions DEF Branches, Version
<1>2. \A b \in DOMAIN local : b \in Branch /\ local[b] \in Tree
  BY DEF Branches
<1>3. "development" \in DOMAIN local
  BY DEF Branches
<1>4. CASE Preflight \/ Gate \/ Recheck \/ Confirm \/ Stops \/ Publish
  BY <1>4 DEF Preflight, Gate, Recheck, Confirm, Stops, Publish, Idle, Steps, clone, world
<1>5. CASE Cut
  <2>1. local[checkout] \in Tree /\ local' = With(local, "release", local[checkout])
    BY <1>2, <1>5 DEF Cut
  <2>2. Branches(local') /\ "release" \in DOMAIN local'
    BY <2>1, SetRelease
  <2>3. QED BY <1>5, <2>2 DEF Cut, Steps, world
<1>6. CASE Stamp
  <2>1. PICK i \in DOMAIN Stamps : work' = [work EXCEPT !.stamp[Stamps[i]] = 2 * Version]
    BY <1>6 DEF Stamp, Unstamped
  <2>2. 2 * Version \in Nat
    BY <1>1
  <2>3. work' \in Tree
    BY <2>1, <2>2 DEF Tree
  <2>4. QED BY <1>6, <2>3 DEF Stamp, Steps, world
<1>7. CASE Lock \/ Move \/ Date
  <2>1. Of(work) \in Nat
    BY Versions
  <2>2. work' \in Tree
    BY <1>1, <1>7, <2>1 DEF Lock, Move, Date, Tree
  <2>3. QED BY <1>7, <2>2 DEF Lock, Move, Date, Steps, world
<1>8. CASE Commit
  <2> DEFINE tree == [work EXCEPT !.source = local["release"].source]
  <2>1. local["release"] \in Tree /\ local["release"].source \in Nat
    BY <1>2, <1>8, TreeFields DEF Commit, Prepared
  <2>2. tree \in Tree
    BY <2>1 DEF Tree
  <2>3. local' = With(local, "release", tree)
    BY <1>8 DEF Commit
  <2>4. Branches(local') /\ "release" \in DOMAIN local'
    BY <2>2, <2>3, SetRelease
  <2>5. QED BY <1>8, <2>4 DEF Commit, Prepared, Steps, world
<1>9. CASE Push
  <2>1. local["release"] \in Tree
    BY <1>2, <1>9 DEF Push, Prepared
  <2>2. Branches(origin')
    BY <1>9, <2>1, SetRelease DEF Push
  <2>3. QED BY <1>9, <2>2 DEF Push, Steps, clone
<1>10. CASE Open
  <2>1. origin["release"] \in Tree
    BY <1>10 DEF Open, Branches
  <2>2. pullRequest' \in Nat
    BY <1>10, <2>1, Versions DEF Open
  <2>3. QED BY <1>10, <2>2 DEF Open, Steps, clone
<1>11. CASE Edit
  <2>1. work.source + 1 \in Nat
    BY TreeFields
  <2>2. work' \in Tree
    BY <1>11, <2>1 DEF Edit, Tree
  <2>3. QED BY <1>11, <2>2 DEF Edit, world
<1>12. CASE Discard
  BY <1>2, <1>12 DEF Discard, Steps, world
<1>13. CASE Abandon
  <2>1. Branches(local')
    BY <1>13, DropRelease DEF Abandon
  <2>2. "development" \in DOMAIN local'
    BY <2>1 DEF Branches
  <2>3. QED BY <1>1, <1>13, <2>1, <2>2 DEF Abandon, Steps, world
<1>14. CASE FinishByHand
  <2>1. Branches(local') /\ Branches(origin') /\ "release" \in DOMAIN local'
    BY <1>14, SetRelease DEF FinishByHand
  <2>2. QED BY <1>14, <2>1 DEF FinishByHand
<1>15. CASE Pull
  <2>1. Branches(local') /\ DOMAIN local' = DOMAIN local
    BY <1>1, <1>15, SetDevelopment DEF Pull
  <2>2. QED BY <1>1, <1>15, <2>1 DEF Pull, world
<1>16. CASE OthersPush
  <2> DEFINE tree == [origin["development"] EXCEPT !.source = origin["development"].source + 1]
  <2>1. origin["development"].source + 1 \in Nat
    BY <1>1, TreeFields
  <2>2. tree \in Tree
    BY <1>1, <2>1 DEF Tree
  <2>3. origin' = [origin EXCEPT !["development"] = tree]
    BY <1>16 DEF OthersPush
  <2>4. Branches(origin')
    BY <2>2, <2>3, DevelopmentMoves
  <2>5. QED BY <1>16, <2>4 DEF OthersPush, clone
<1>17. CASE Merge
  <2>1. Branches(origin')
    BY <1>17, DropRelease DEF Merge
  <2>2. QED BY <1>17, <2>1 DEF Merge, clone
<1>18. CASE Reseed
  <2> DEFINE tree == [origin["development"] EXCEPT !.stamp = Stamped(2 * main + 1),
                                                   !.locked = 2 * main + 1, !.dated = main]
  <2>1. tree \in Tree
    <3>1. main \in Nat /\ 2 * main + 1 \in Nat
      OBVIOUS
    <3>2. Stamped(2 * main + 1) \in [Package -> Nat]
      BY <3>1 DEF Stamped
    <3>3. QED BY <1>1, <3>1, <3>2 DEF Tree
  <2>2. origin' = [origin EXCEPT !["development"] = tree]
    BY <1>18 DEF Reseed, Branches
  <2>3. Branches(origin')
    BY <2>1, <2>2, DevelopmentMoves
  <2>4. QED BY <1>18, <2>3 DEF Reseed, clone
<1>19. CASE SiblingReleases
  BY <1>19 DEF SiblingReleases, clone
<1>20. QED BY <1>4, <1>5, <1>6, <1>7, <1>8, <1>9, <1>10, <1>11, <1>12, <1>13, <1>14, <1>15,
              <1>16, <1>17, <1>18, <1>19 DEF Next

(* What the actions of prepare do to the stamps. *)
LEMMA PreparedStep ==
  ASSUME ReleaseTypes, ReleaseTypes', Prepared, Next
  PROVE  Prepared'
<1>1. local["development"] \in Tree /\ Version \in Nat /\ Of(work) \in Nat
  BY Versions DEF ReleaseTypes, Branches, Version
<1>2. CASE Preflight \/ Gate \/ Recheck \/ Confirm \/ Stops \/ Publish
  <2>1. UNCHANGED <<checkout, work, local, latest>>
    BY <1>2 DEF Preflight, Gate, Recheck, Confirm, Stops, Publish, clone, world
  <2>2. CASE Preflight
    BY <2>1, <2>2 DEF Preflight, Clean, Prepared
  <2>3. CASE Gate
    BY <2>1, <2>3 DEF Gate, Prepared
  <2>4. CASE Recheck
    BY <2>1, <2>4 DEF Recheck, Named, Prepared, ReleaseTypes, Version
  <2>5. CASE Confirm
    BY <2>1, <2>5 DEF Confirm, Prepared, Version
  <2>6. CASE Stops
    BY <2>6 DEF Stops, Prepared
  <2>7. CASE Publish
    BY <2>1, <2>7 DEF Publish, Prepared, WholeTree, Version
  <2>8. QED BY <1>2, <2>2, <2>3, <2>4, <2>5, <2>6, <2>7
<1>3. CASE Cut
  BY <1>3 DEF Cut, Prepared
<1>4. CASE Stamp
  <2>1. \A i \in DOMAIN Stamps : i \notin Unstamped' => work'.stamp[Stamps[i]] = 2 * Version'
    BY DEF Unstamped
  <2>2. doing' = "lock" => work'.stamp = Stamped(2 * Version')
    <3>1. work'.stamp \in [Package -> Nat]
      BY TreeFields DEF ReleaseTypes
    <3>2. QED BY <1>4, <2>1, <3>1 DEF Stamp, Stamped, Package
  <2>3. QED BY <1>4, <2>2 DEF Stamp, Prepared
<1>5. CASE Lock
  <2>1. Version' = Version /\ work' = [work EXCEPT !.locked = Of(work)]
    BY <1>5 DEF Lock, Version
  <2>2. work.stamp = Stamped(2 * Version) /\ Of(work) = 2 * Version
    BY <1>5, SomeStamps DEF Lock, Prepared, Of, Stamped, Package
  <2>3. work'.stamp = work.stamp /\ work'.locked = 2 * Version
    BY <2>1, <2>2 DEF ReleaseTypes, Tree
  <2>4. QED BY <1>5, <2>1, <2>2, <2>3 DEF Lock, Prepared
<1>6. CASE Move
  <2>1. Version' = Version /\ latest' = latest
        /\ work' = [work EXCEPT !.range = latest, !.lockedRange = latest]
    BY <1>6 DEF Move, Version, world
  <2>2. /\ work'.stamp = work.stamp /\ work'.locked = work.locked
        /\ work'.range = latest /\ work'.lockedRange = latest
    BY <2>1 DEF ReleaseTypes, Tree
  <2>3. QED BY <1>6, <2>1, <2>2 DEF Move, Prepared, ReleaseTypes
<1>7. CASE Date
  <2>1. Version' = Version /\ latest' = latest /\ work' = [work EXCEPT !.dated = Version]
    BY <1>7 DEF Date, Version, world
  <2>2. /\ work'.stamp = work.stamp /\ work'.locked = work.locked /\ work'.dated = Version
        /\ work'.range = work.range /\ work'.lockedRange = work.lockedRange
    BY <2>1 DEF ReleaseTypes, Tree
  <2>3. QED BY <1>7, <2>1, <2>2 DEF Date, Prepared
<1>8. CASE Commit
  <2>1. local["release"] \in Tree /\ local["release"].source \in Nat
    BY <1>8, TreeFields DEF Commit, Prepared, ReleaseTypes, Branches
  <2>2. PICK tree : tree = [work EXCEPT !.source = local["release"].source]
    OBVIOUS
  <2>3. /\ tree \in Tree /\ tree.stamp = work.stamp /\ tree.locked = work.locked
        /\ tree.dated = work.dated /\ tree.range = work.range
        /\ tree.lockedRange = work.lockedRange
    BY <2>1, <2>2 DEF ReleaseTypes, Tree
  <2>4. local' = With(local, "release", tree) /\ latest' = latest
    BY <1>8, <2>2 DEF Commit, world
  <2>5. local'["release"] = tree /\ local'["development"] = local["development"]
    BY <2>3, <2>4, SetRelease DEF ReleaseTypes
  <2>6. WholeTree(tree) /\ tree.dated = Version
    BY <1>8, <2>3 DEF Commit, Prepared, WholeTree
  <2>7. WholeTree(local["release"])' /\ local'["release"].dated = Version'
    BY <2>4, <2>5, <2>6 DEF WholeTree, Version
  <2>8. QED BY <1>8, <2>7 DEF Commit, Prepared
<1>9. CASE Push
  BY <1>9 DEF Push, Prepared, clone
<1>10. CASE Open
  BY <1>10 DEF Open, Prepared
<1>11. CASE Edit
  <2>1. /\ work'.stamp = work.stamp /\ work'.locked = work.locked /\ work'.dated = work.dated
        /\ work'.range = work.range /\ work'.lockedRange = work.lockedRange
    BY <1>11 DEF Edit, ReleaseTypes, Tree
  <2>2. QED BY <1>11, <2>1 DEF Edit, Prepared, Idle, Version, world
<1>12. CASE Discard \/ Abandon
  BY <1>12 DEF Discard, Abandon, Prepared
<1>13. CASE FinishByHand
  <2>1. local'["development"] = local["development"]
    BY <1>13, SetRelease DEF FinishByHand, ReleaseTypes
  <2>2. QED BY <1>13, <2>1 DEF FinishByHand, Prepared, Version
<1>14. CASE Pull
  BY <1>14 DEF Pull, Prepared, Idle
<1>15. CASE OthersPush \/ Merge \/ Reseed
  BY <1>15 DEF OthersPush, Merge, Reseed, Prepared, WholeTree, Version, clone
<1>16. CASE SiblingReleases
  <2>1. latest \in Nat /\ latest' = latest + 1 /\ UNCHANGED <<doing, checkout, work, local>>
    BY <1>16 DEF SiblingReleases, clone, ReleaseTypes
  <2>2. \A n \in Nat : n <= latest => n <= latest'
    BY <2>1
  <2>3. work.range \in Nat /\ (doing = "push" => local["release"].range \in Nat)
    BY TreeFields DEF ReleaseTypes, Branches, Prepared
  <2>4. QED BY <2>1, <2>2, <2>3 DEF Prepared, WholeTree, Version
<1>17. QED BY <1>2, <1>3, <1>4, <1>5, <1>6, <1>7, <1>8, <1>9, <1>10, <1>11, <1>12, <1>13,
              <1>14, <1>15, <1>16 DEF Next

(* Stamps tell the version; a later development tree has no earlier version. *)
LEMMA VersionsGrow ==
  ASSUME NEW s \in Tree, NEW t \in Tree, Of(s) <= Of(t)
  PROVE  VersionOf(s) <= VersionOf(t)
BY Versions, Halves DEF VersionOf

(* Origin: a push brings the version prepare releases, and nothing of a      *)
(* later one is there.                                                       *)
LEMMA OrderedStep ==
  ASSUME ReleaseTypes, ReleaseTypes', Prepared, Prepared', Ordered, ReleaseIsWhole, Next
  PROVE  Ordered' /\ ReleaseIsWhole'
<1>1. local["development"] \in Tree /\ origin["development"] \in Tree /\ Version \in Nat
  BY Versions DEF ReleaseTypes, Branches, Version
<1>2. "release" \in DOMAIN origin =>
        /\ origin["release"] \in Tree /\ origin["release"].dated \in Nat
        /\ WholeTree(origin["release"]) /\ VersionOf(origin["release"]) = origin["release"].dated
  BY Versions, TreeFields DEF ReleaseTypes, Branches, ReleaseIsWhole, WholeTree
<1>3. pullRequest \in Nat /\ latest \in Nat
  BY DEF ReleaseTypes
<1>4. CASE Preflight
  BY <1>1, <1>2, <1>3, <1>4 DEF Preflight, Ordered, ReleaseIsWhole, Version, clone, world
<1>5. CASE Gate \/ Stamp \/ Lock \/ Move \/ Recheck \/ Date \/ Confirm \/ Stops \/ Edit
           \/ Discard
  <2>1. UNCHANGED <<local, origin, pullRequest, latest>> /\ doing' # "open"
    BY <1>5
    DEF Gate, Stamp, Lock, Move, Recheck, Date, Confirm, Stops, Edit, Discard, Idle, clone,
        world
  <2>2. Idle' \/ ~Idle
    BY <1>5
    DEF Gate, Stamp, Lock, Move, Recheck, Date, Confirm, Stops, Edit, Discard, Idle
  <2>3. QED BY <2>1, <2>2 DEF Ordered, ReleaseIsWhole, Version
<1>6. CASE Cut \/ Commit \/ Abandon
  <2>1. local'["development"] = local["development"]
    <3>1. CASE Cut
      BY <1>1, <3>1, SetRelease DEF Cut, ReleaseTypes, Prepared
    <3>2. CASE Commit
      <4>1. PICK tree : tree = [work EXCEPT !.source = local["release"].source]
        OBVIOUS
      <4>2. local["release"].source \in Nat
        BY <3>2, TreeFields DEF Commit, Prepared, ReleaseTypes, Branches
      <4>3. tree \in Tree
        BY <4>1, <4>2 DEF ReleaseTypes, Tree
      <4>4. QED BY <3>2, <4>1, <4>3, SetRelease DEF Commit, ReleaseTypes
    <3>3. CASE Abandon
      BY <3>3, DropRelease DEF Abandon, ReleaseTypes
    <3>4. QED BY <1>6, <3>1, <3>2, <3>3
  <2>2. UNCHANGED <<origin, pullRequest, latest>> /\ doing' # "open" /\ (Idle' \/ ~Idle)
    BY <1>6 DEF Cut, Commit, Abandon, Idle, world
  <2>3. QED BY <2>1, <2>2 DEF Ordered, ReleaseIsWhole, Version
<1>7. CASE Push
  <2>1. local["release"] \in Tree
    BY <1>7 DEF Push, Prepared, ReleaseTypes, Branches
  <2>2. /\ "release" \in DOMAIN origin' /\ origin'["release"] = local["release"]
        /\ origin'["development"] = origin["development"]
    BY <1>7, <2>1, SetRelease DEF Push, ReleaseTypes
  <2>3. UNCHANGED <<local, pullRequest, latest>> /\ ~Idle
    BY <1>7 DEF Push, Idle, clone
  <2>4. WholeTree(local["release"]) /\ local["release"].dated = Version
    BY <1>7 DEF Push, Prepared
  <2>5. QED BY <1>1, <1>3, <2>2, <2>3, <2>4 DEF Ordered, ReleaseIsWhole, WholeTree, Version
<1>8. CASE Open
  BY <1>2, <1>3, <1>8 DEF Open, Ordered, ReleaseIsWhole, Idle, Version, clone
<1>9. CASE FinishByHand
  <2>1. /\ "release" \in DOMAIN origin' /\ origin'["release"] = work
        /\ origin'["development"] = origin["development"]
        /\ local'["development"] = local["development"]
    BY <1>9, SetRelease DEF FinishByHand, ReleaseTypes
  <2>2. UNCHANGED <<doing, pullRequest, latest>> /\ doing = "stopped"
    BY <1>9 DEF FinishByHand
  <2>3. WholeTree(work) /\ work.dated = Version
    BY <2>2 DEF Prepared, WholeTree
  <2>4. QED BY <1>1, <1>2, <1>3, <2>1, <2>2, <2>3 DEF Ordered, ReleaseIsWhole, WholeTree, Idle, Version
<1>10. CASE Pull
  <2>1. local'["development"] = origin["development"]
    BY <1>1, <1>10, SetDevelopment DEF Pull, ReleaseTypes
  <2>2. Version <= Version' /\ Version' \in Nat
    BY <1>1, <2>1, VersionsGrow, Versions DEF Ordered, Version
  <2>3. UNCHANGED <<doing, origin, pullRequest, latest>> /\ Idle
    BY <1>10 DEF Pull, world
  <2>4. Of(origin["development"]) \in Nat
    BY <1>1, Versions
  <2>5. QED BY <1>1, <1>2, <2>1, <2>2, <2>3, <2>4 DEF Ordered, ReleaseIsWhole, Idle
<1>11. CASE OthersPush \/ Reseed
  <2>1. /\ DOMAIN origin' = DOMAIN origin /\ origin'["development"] \in Tree
        /\ Of(origin["development"]) <= Of(origin'["development"])
        /\ "release" \in DOMAIN origin => origin'["release"] = origin["release"]
    <3>1. CASE OthersPush
      <4>1. PICK tree : tree = [origin["development"] EXCEPT !.source = origin["development"].source + 1]
        OBVIOUS
      <4>2. tree \in Tree /\ tree.stamp = origin["development"].stamp
        BY <1>1, <4>1, TreeFields DEF Tree
      <4>3. origin' = [origin EXCEPT !["development"] = tree]
        BY <3>1, <4>1 DEF OthersPush
      <4>4. Of(origin["development"]) <= Of(tree)
        BY <1>1, <4>2, Versions DEF Of
      <4>5. QED BY <4>2, <4>3, <4>4, DevelopmentMoves DEF ReleaseTypes
    <3>2. CASE Reseed
      <4>1. main \in Nat /\ 2 * main + 1 \in Nat /\ Of(origin["development"]) < 2 * main
        BY <3>2 DEF Reseed, ReleaseTypes
      <4>2. PICK tree : tree = [origin["development"] EXCEPT !.stamp = Stamped(2 * main + 1),
                                                              !.locked = 2 * main + 1, !.dated = main]
        OBVIOUS
      <4>3. Stamped(2 * main + 1) \in [Package -> Nat]
        BY <4>1 DEF Stamped
      <4>4. tree \in Tree /\ tree.stamp = Stamped(2 * main + 1)
        BY <1>1, <4>1, <4>2, <4>3 DEF Tree
      <4>5. Of(tree) = 2 * main + 1
        BY <4>4, SomeStamps DEF Of, Stamped, Package
      <4>6. origin' = [origin EXCEPT !["development"] = tree]
        BY <3>2, <4>2 DEF Reseed, ReleaseTypes, Branches
      <4>7. Of(origin["development"]) <= Of(tree)
        BY <1>1, <4>1, <4>5, Versions
      <4>8. QED BY <4>4, <4>6, <4>7, DevelopmentMoves DEF ReleaseTypes
    <3>3. QED BY <1>11, <3>1, <3>2
  <2>2. UNCHANGED <<doing, local, pullRequest, latest>>
    BY <1>11 DEF OthersPush, Reseed, clone
  <2>3. Of(local["development"]) \in Nat /\ Of(origin["development"]) \in Nat
        /\ Of(origin'["development"]) \in Nat
    BY <1>1, <2>1, Versions
  <2>4. QED BY <2>1, <2>2, <2>3 DEF Ordered, ReleaseIsWhole, Idle, Version
<1>12. CASE Merge
  <2>1. pullRequest # 0 /\ pullRequest' = 0 /\ UNCHANGED <<doing, local, latest>>
    BY <1>12 DEF Merge, clone
  <2>2. CASE VersionOf(origin["release"]) = pullRequest
    <3>1. /\ "release" \notin DOMAIN origin'
          /\ origin'["development"] = origin["development"]
      BY <1>12, <2>2, DropRelease DEF Merge, ReleaseTypes
    <3>2. doing # "open"
      BY <1>1, <1>2, <1>3, <2>1, <2>2 DEF Ordered, Idle
    <3>3. QED BY <2>1, <3>1, <3>2 DEF Ordered, ReleaseIsWhole, Version
  <2>3. CASE VersionOf(origin["release"]) # pullRequest
    <3>1. origin' = origin
      BY <1>12, <2>3 DEF Merge
    <3>2. QED BY <2>1, <3>1 DEF Ordered, ReleaseIsWhole, Version
  <2>4. QED BY <2>2, <2>3
<1>13. CASE SiblingReleases
  BY <1>2, <1>3, <1>13, TreeFields
  DEF SiblingReleases, Ordered, ReleaseIsWhole, Idle, Version, clone
<1>14. CASE Publish
  BY <1>14 DEF Publish, Ordered, ReleaseIsWhole, Idle, Version, clone
<1>15. QED BY <1>4, <1>5, <1>6, <1>7, <1>8, <1>9, <1>10, <1>11, <1>12, <1>13, <1>14
       DEF Next

(* The sources that passed go from the tree to the branch to origin. *)
LEMMA PassedStep ==
  ASSUME ReleaseTypes, Prepared, Ordered, ReleaseIsWhole, Passed, Next
  PROVE  Passed'
<1>1. CASE Preflight \/ Gate
  BY <1>1 DEF Preflight, Gate, Passed, Prepared, clone, world
<1>2. CASE Cut
  <2>1. work = local["development"] /\ checkout = "development" /\ work \in Tree
    BY <1>2 DEF Cut, Prepared, ReleaseTypes
  <2>2. local'["release"] = work /\ gated' = gated
    BY <1>2, <2>1, SetRelease DEF Cut, ReleaseTypes
  <2>3. QED BY <1>2, <2>2 DEF Cut, Passed
<1>3. CASE Stamp \/ Lock \/ Move \/ Recheck \/ Date \/ Confirm \/ Stops \/ Edit
  <2>1. UNCHANGED <<local, gated>> /\ doing' \notin {"cut", "open"}
    BY <1>3 DEF Stamp, Lock, Move, Recheck, Date, Confirm, Stops, Edit, Idle, clone
  <2>2. doing' \in {"stamp", "lock", "move", "recheck", "date", "ask", "commit", "push"} =>
          doing \in {"stamp", "lock", "move", "recheck", "date", "ask", "commit", "push"}
    BY <1>3 DEF Stamp, Lock, Move, Recheck, Date, Confirm, Stops, Edit, Idle
  <2>3. QED BY <2>1, <2>2 DEF Passed
<1>4. CASE Commit
  <2>1. PICK tree : tree = [work EXCEPT !.source = local["release"].source]
    OBVIOUS
  <2>2. local["release"].source \in Nat
    BY <1>4, TreeFields DEF Commit, Prepared, ReleaseTypes, Branches
  <2>3. tree \in Tree /\ tree.source = local["release"].source
    BY <2>1, <2>2 DEF ReleaseTypes, Tree
  <2>4. local'["release"] = tree
    BY <1>4, <2>1, <2>3, SetRelease DEF Commit, ReleaseTypes
  <2>5. QED BY <1>4, <2>3, <2>4 DEF Commit, Passed
<1>5. CASE Push
  <2>1. local["release"] \in Tree
    BY <1>5 DEF Push, Prepared, ReleaseTypes, Branches
  <2>2. origin'["release"] = local["release"]
    BY <1>5, <2>1, SetRelease DEF Push, ReleaseTypes
  <2>3. QED BY <1>5, <2>2 DEF Push, Passed
<1>6. CASE Open \/ Discard \/ Abandon
  BY <1>6 DEF Open, Discard, Abandon, Passed
<1>7. CASE FinishByHand \/ Pull
  BY <1>7 DEF FinishByHand, Pull, Idle, Passed
<1>8. CASE OthersPush \/ Reseed \/ Merge \/ Publish \/ SiblingReleases
  <2>1. UNCHANGED <<doing, work, local, gated>>
    BY <1>8 DEF OthersPush, Reseed, Merge, Publish, SiblingReleases, clone
  <2>2. doing = "open" => origin'["release"] = origin["release"]
    <3>1. CASE Merge
      <4>1. ASSUME doing = "open" PROVE VersionOf(origin["release"]) # pullRequest
        <5>1. /\ origin["release"] \in Tree /\ "release" \in DOMAIN origin
              /\ origin["release"].dated = Version
          BY <4>1 DEF Ordered, ReleaseTypes, Branches
        <5>2. VersionOf(origin["release"]) = Version
          BY <5>1, Versions DEF ReleaseIsWhole, WholeTree
        <5>3. pullRequest # 0 /\ pullRequest < Version /\ pullRequest \in Nat
          BY <3>1, <4>1 DEF Merge, Ordered, Idle, ReleaseTypes
        <5>4. Version \in Nat
          BY Versions DEF ReleaseTypes, Branches, Version
        <5>5. QED BY <5>2, <5>3, <5>4
      <4>2. QED BY <3>1, <4>1 DEF Merge
    <3>2. CASE OthersPush \/ Reseed \/ Publish \/ SiblingReleases
      BY <3>2
      DEF OthersPush, Reseed, Publish, SiblingReleases, Ordered, ReleaseTypes, Branches
    <3>3. QED BY <1>8, <3>1, <3>2
  <2>3. QED BY <2>1, <2>2 DEF Passed
<1>9. QED BY <1>1, <1>2, <1>3, <1>4, <1>5, <1>6, <1>7, <1>8 DEF Next

(* There is no release yet. *)
LEMMA InitReleases == Init => RelInv
<1> SUFFICES ASSUME Init PROVE RelInv
  OBVIOUS
<1>1. PICK r \in {1, 2} : work = [Seed EXCEPT !.range = r, !.lockedRange = r]
  BY DEF Init
<1>2. work \in Tree
  <2>1. Stamped(1) \in [Package -> Nat]
    BY DEF Stamped
  <2>2. Seed \in Tree /\ r \in Nat
    BY <2>1 DEF Seed, Tree
  <2>3. QED BY <1>1, <2>2 DEF Tree
<1>3. DOMAIN local = {"development"} /\ local["development"] = work /\ origin = local
  BY DEF Init
<1>4. ReleaseTypes
  BY <1>2, <1>3 DEF Init, ReleaseTypes, Branches, Branch, Steps
<1>5. Prepared /\ ReleaseIsWhole /\ Passed
  BY <1>3 DEF Init, Prepared, ReleaseIsWhole, Passed
<1>6. Ordered
  <2>1. Of(work) \in Nat
    BY <1>2, Versions
  <2>2. QED BY <1>3, <2>1 DEF Init, Ordered, Idle
<1>7. QED BY <1>4, <1>5, <1>6 DEF RelInv

(* The parts together. *)
LEMMA ReleasesKeep == RelInv /\ [Next]_vars => RelInv'
<1> SUFFICES ASSUME RelInv, [Next]_vars PROVE RelInv'
  OBVIOUS
<1>1. CASE Next
  <2>1. ReleaseTypes' /\ Prepared'
    BY <1>1, TypesStep, PreparedStep DEF RelInv
  <2>2. QED BY <1>1, <2>1, OrderedStep, PassedStep DEF RelInv
<1>2. CASE UNCHANGED vars
  BY <1>2
  DEF vars, clone, world, RelInv, ReleaseTypes, Prepared, Ordered, ReleaseIsWhole, Passed, WholeTree,
      Idle, Version
<1>3. QED BY <1>1, <1>2

(* A release branch on origin is one whole release, wherever earlier runs   *)
(* of prepare were stopped, whatever the developer edited, discarded or    *)
(* finished by hand, and whatever GitHub and npm did in between.           *)
THEOREM ReleasesAreWhole == Spec => []ReleaseIsWhole
<1>1. RelInv => ReleaseIsWhole
  BY DEF RelInv
<1>2. QED BY <1>1, InitReleases, ReleasesKeep, PTL DEF Spec

(* What prepare pushed after a gate has the sources the gate passed on: an  *)
(* edit at the question stays in the working tree, and neither a merge nor *)
(* a push of others replaces the branch before the pull request is opened. *)
THEOREM GatedSourcesAreReleased == Spec => []GatedIsReleased
<1>1. RelInv => GatedIsReleased
  BY DEF RelInv, GatedIsReleased, Passed, Ordered
<1>2. QED BY <1>1, InitReleases, ReleasesKeep, PTL DEF Spec

-----------------------------------------------------------------------------
(* What is broken is noted. *)
BrokenIsNoted == broken => problems

(* A page that is being watched was loaded, or there is a problem. *)
WatchedIsLoaded ==
  /\ looking \in {"settling", "looking"} => loaded
  /\ looking = "judging" => loaded \/ problems

Earned ==
  /\ {loaded, problems, broken} \subseteq BOOLEAN
  /\ BrokenIsNoted /\ WatchedIsLoaded

(* Nothing has been loaded yet. *)
LEMMA InitEarned == Smoke!Init => Earned
  BY DEF Smoke!Init, Earned, BrokenIsNoted, WatchedIsLoaded

(* The attempts: loading notes what is broken, giving up notes itself. *)
LEMMA AttemptsKeep ==
  ASSUME Earned, Smoke!Loads \/ Smoke!HandshakeFails \/ Smoke!AttemptFails \/ Smoke!GivesUp
  PROVE  Earned'
PROOF
  <1>1. CASE Smoke!Loads
    BY <1>1 DEF Smoke!Loads, Earned, BrokenIsNoted, WatchedIsLoaded
  <1>2. CASE Smoke!HandshakeFails \/ Smoke!AttemptFails
    <2>1. looking = "navigating" /\ UNCHANGED <<looking, loaded, broken>> /\ problems' \in {problems, TRUE}
      BY <1>2 DEF Smoke!HandshakeFails, Smoke!AttemptFails, Smoke!Attempted
    <2> QED
      BY <2>1 DEF Earned, BrokenIsNoted, WatchedIsLoaded
  <1>3. CASE Smoke!GivesUp
    BY <1>3 DEF Smoke!GivesUp, Earned, BrokenIsNoted, WatchedIsLoaded
  <1> QED
    BY <1>1, <1>2, <1>3

(* The page is watched, judged, or the browser dies. *)
LEMMA WatchKeeps ==
  ASSUME Earned, Smoke!PageErrs \/ Smoke!Settles \/ Smoke!Look \/ Smoke!Judge \/ Smoke!Dies
  PROVE  Earned'
PROOF
  <1>1. CASE Smoke!PageErrs
    BY <1>1 DEF Smoke!PageErrs, Earned, BrokenIsNoted, WatchedIsLoaded
  <1>2. CASE Smoke!Settles
    BY <1>2 DEF Smoke!Settles, Earned, BrokenIsNoted, WatchedIsLoaded
  <1>3. CASE Smoke!Look
    BY <1>3 DEF Smoke!Look, Earned, BrokenIsNoted, WatchedIsLoaded
  <1>4. CASE Smoke!Judge
    BY <1>4 DEF Smoke!Judge, Earned, BrokenIsNoted, WatchedIsLoaded
  <1>5. CASE Smoke!Dies
    BY <1>5 DEF Smoke!Dies, Earned, BrokenIsNoted, WatchedIsLoaded
  <1> QED
    BY <1>1, <1>2, <1>3, <1>4, <1>5

(* Whichever attempt loaded the page and however often it was retried, it is *)
(* passed only when loaded and not broken (the checks of the header).        *)
THEOREM NoUnearnedPass == Smoke!Spec => []PassIsEarned
PROOF
  <1>1. Earned /\ [Smoke!Next]_(Smoke!vars) => Earned'
    <2> SUFFICES ASSUME Earned, [Smoke!Next]_(Smoke!vars) PROVE Earned'
      OBVIOUS
    <2>1. CASE Smoke!Next
      BY <2>1, AttemptsKeep, WatchKeeps DEF Smoke!Next
    <2>2. CASE UNCHANGED Smoke!vars
      BY <2>2 DEF Smoke!vars, Earned, BrokenIsNoted, WatchedIsLoaded
    <2> QED
      BY <2>1, <2>2
  <1>2. Earned => PassIsEarned
    BY DEF Earned, BrokenIsNoted, WatchedIsLoaded, PassIsEarned
  <1> QED
    BY <1>1, <1>2, InitEarned, PTL DEF Smoke!Spec

-----------------------------------------------------------------------------
(* The packages that had a file of their own, or of an earlier run. *)
CopyTypes == copy \in [Packages -> Nat] /\ found \in [Packages -> Nat] /\ edition \in Nat \ {0}

(* What has been staged is what was missing and no longer is. *)
StagedByRun ==
  /\ at = "building" => staged = {} /\ copy = found
  /\ at \in {"staging", "packing"} =>
       \A p \in Packages : IF p \in staged THEN found[p] = 0 ELSE copy[p] = found[p]
  /\ at \in {"installing", "examining", "passed"} => copy = found

(* Nothing is packed before every copy is in place. *)
PackedWithFile ==
  /\ at \in {"building", "staging"} => tarball = Pack!Unpacked
  /\ at = "packing" => 0 \notin {copy[p] : p \in Packages}
  /\ at \in {"packing", "installing", "examining", "passed"} => \A p \in DOMAIN tarball : tarball[p] # 0
  /\ at \in {"installing", "examining", "passed"} => DOMAIN tarball = Packages

(* What an examination finds is noted. *)
FaultsAreNoted ==
  /\ failures \in BOOLEAN
  /\ faults # {} => failures
  /\ at = "passed" => ~failures /\ examined = Examination

Whole == CopyTypes /\ StagedByRun /\ PackedWithFile /\ FaultsAreNoted

(* Before the first run. *)
LEMMA InitWhole == Pack!Init => Whole
PROOF
  <1> SUFFICES ASSUME Pack!Init PROVE Whole
    OBVIOUS
  <1>1. CopyTypes
    BY DEF Pack!Init, CopyTypes
  <1>2. StagedByRun /\ PackedWithFile /\ FaultsAreNoted
    BY DEF Pack!Init, StagedByRun, PackedWithFile, FaultsAreNoted
  <1> QED
    BY <1>1, <1>2 DEF Whole

(* A run starts from whatever an earlier one left. *)
LEMMA RunBeginsWhole == Whole /\ (Pack!Begin \/ Pack!Build) => Whole'
  BY DEF Pack!Begin, Pack!Build, Whole, CopyTypes, StagedByRun, PackedWithFile, FaultsAreNoted, Pack!Unpacked

(* Removing the copies the run made restores what it found. *)
LEMMA UnstageRestores == ASSUME Whole, at = "packing", Pack!Unstage, found' = found PROVE copy' = found
  BY DEF Whole, CopyTypes, StagedByRun, Pack!Unstage

(* Copies are made where there is none, and packing waits for all of them. *)
LEMMA StageKeeps == ASSUME Whole, Pack!Stage \/ Pack!Staged PROVE Whole'
PROOF
  <1>1. CASE Pack!Stage
    <2>1. PICK p \in Packages :
            copy[p] = 0 /\ copy' = [copy EXCEPT ![p] = edition] /\ staged' = staged \cup {p}
      BY <1>1 DEF Pack!Stage
    <2>2. at = "staging" /\ UNCHANGED <<at, edition, found, tarball, examined, faults, failures>>
      BY <1>1 DEF Pack!Stage
    <2>3. CopyTypes'
      BY <2>1, <2>2 DEF Whole, CopyTypes
    <2>4. StagedByRun'
      BY <2>1, <2>2 DEF Whole, CopyTypes, StagedByRun
    <2> QED
      BY <2>2, <2>3, <2>4 DEF Whole, PackedWithFile, FaultsAreNoted
  <1>2. CASE Pack!Staged
    <2>1. \A p \in DOMAIN tarball' : tarball'[p] # 0
      BY <1>2 DEF Pack!Staged, Whole, PackedWithFile, Pack!Unpacked
    <2> QED
      BY <1>2, <2>1 DEF Pack!Staged, Whole, CopyTypes, StagedByRun, PackedWithFile, FaultsAreNoted
  <1> QED
    BY <1>1, <1>2

(* A tarball holds the copy of its package. *)
LEMMA PackKeeps == ASSUME Whole, Pack!Pack \/ Pack!Packed PROVE Whole'
PROOF
  <1>1. CASE Pack!Pack
    <2>1. PICK p \in Packages \ DOMAIN tarball :
            tarball' = [q \in DOMAIN tarball \cup {p} |-> IF q = p THEN copy[p] ELSE tarball[q]]
      BY <1>1 DEF Pack!Pack
    <2>2. at = "packing" /\ UNCHANGED <<at, edition, copy, found, staged, examined, faults, failures>>
      BY <1>1 DEF Pack!Pack
    <2>3. copy[p] # 0
      BY <2>1, <2>2 DEF Whole, PackedWithFile
    <2>4. \A q \in DOMAIN tarball' : tarball'[q] # 0
      BY <2>1, <2>2, <2>3 DEF Whole, PackedWithFile
    <2> QED
      BY <2>2, <2>4 DEF Whole, CopyTypes, StagedByRun, PackedWithFile, FaultsAreNoted
  <1>2. CASE Pack!Packed
    <2>1. copy' = found
      BY <1>2, UnstageRestores DEF Pack!Packed
    <2> QED
      BY <1>2, <2>1 DEF Pack!Packed, Whole, CopyTypes, StagedByRun, PackedWithFile, FaultsAreNoted
  <1> QED
    BY <1>1, <1>2

(* What was packed is installed and examined. *)
LEMMA ExamineKeeps ==
  ASSUME Whole, Pack!Install \/ Pack!Examine \/ Pack!CheckDeclarations \/ Pack!Ends
  PROVE  Whole'
PROOF
  <1>1. CASE Pack!Install \/ Pack!Ends
    BY <1>1 DEF Pack!Install, Pack!Ends, Whole, CopyTypes, StagedByRun, PackedWithFile, FaultsAreNoted
  <1>2. CASE Pack!Examine \/ Pack!CheckDeclarations
    <2>1. at = "examining" /\ UNCHANGED <<at, edition, copy, found, staged, tarball>>
      BY <1>2 DEF Pack!Examine, Pack!CheckDeclarations
    <2>2. failures' \in BOOLEAN /\ (faults' # {} => failures')
      <3>1. CASE Pack!Examine
        BY <3>1 DEF Pack!Examine, Whole, FaultsAreNoted
      <3>2. CASE Pack!CheckDeclarations
        BY <3>2 DEF Pack!CheckDeclarations, Whole, FaultsAreNoted
      <3> QED
        BY <1>2, <3>1, <3>2
    <2> QED
      BY <2>1, <2>2 DEF Whole, CopyTypes, StagedByRun, PackedWithFile, FaultsAreNoted
  <1> QED
    BY <1>1, <1>2

(* A run that ends early, and what happens between runs *)
LEMMA RestKeeps == ASSUME Whole, Pack!Throws \/ Pack!Killed \/ Pack!Edit \/ Pack!CleanTree PROVE Whole'
PROOF
  <1>1. CASE Pack!Throws
    <2>1. copy' \in [Packages -> Nat]
      BY <1>1 DEF Pack!Throws, Pack!Unstage, Whole, CopyTypes
    <2> QED
      BY <1>1, <2>1 DEF Pack!Throws, Whole, CopyTypes, StagedByRun, PackedWithFile, FaultsAreNoted
  <1>2. CASE Pack!Killed \/ Pack!CleanTree
    BY <1>2 DEF Pack!Killed, Pack!CleanTree, Whole, CopyTypes, StagedByRun, PackedWithFile, FaultsAreNoted
  <1>3. CASE Pack!Edit
    BY <1>3 DEF Pack!Edit, Pack!AtRest, Whole, CopyTypes, StagedByRun, PackedWithFile, FaultsAreNoted
  <1> QED
    BY <1>1, <1>2, <1>3

(* Whatever earlier runs left behind and wherever they were stopped, a run  *)
(* that passes packed, examined and restored everything.                    *)
THEOREM PassingIsWhole == Pack!Spec => []PassIsWhole
PROOF
  <1>1. Whole /\ [Pack!Next]_(Pack!vars) => Whole'
    <2> SUFFICES ASSUME Whole, [Pack!Next]_(Pack!vars) PROVE Whole'
      OBVIOUS
    <2>1. CASE Pack!Next
      BY <2>1, RunBeginsWhole, StageKeeps, PackKeeps, ExamineKeeps, RestKeeps DEF Pack!Next
    <2>2. CASE UNCHANGED Pack!vars
      BY <2>2 DEF Pack!vars, Whole, CopyTypes, StagedByRun, PackedWithFile, FaultsAreNoted
    <2> QED
      BY <2>1, <2>2
  <1>2. Whole => PassIsWhole
    BY DEF Whole, StagedByRun, PackedWithFile, FaultsAreNoted, PassIsWhole
  <1> QED
    BY <1>1, <1>2, InitWhole, PTL DEF Pack!Spec
=============================================================================
