---------------------------- MODULE ImportSurface ----------------------------
(***************************************************************************)
(* scripts/import-surface.mjs: whether the names a package imports are     *)
(* exported by the dependency itself.  The dependency is a graph of files  *)
(* that `export *` from one another, each with a name of its own (its own, *)
(* here); the surfaces of files are cached from one import to the next.    *)
(***************************************************************************)
EXTENDS Naturals, Sequences, Folds, Functions, SequencesExt

CONSTANTS
  Sources,   \* the files of the dependency, in the order a file names them
  Manifest   \* "declared", "undeclared", "unresolvable": what the manifests say of an import

VARIABLES
  stars,         \* the files each file re-exports
  outside,       \* the files that re-export another package
  common,        \* the files without an export: CommonJS
  surfaceCache,  \* the surfaces that are known
  checked,       \* the import that was checked last: manifest, entry, name
  violations     \* what it was found to violate

vars == <<stars, outside, common, surfaceCache, checked, violations>>

File == {Sources[i] : i \in DOMAIN Sources}
Nothing == [names |-> {}, externalStars |-> {}, cjs |-> FALSE]

SurfaceTypeOK ==
  /\ stars \in [File -> SUBSET File] /\ outside \subseteq File /\ common \subseteq File
  /\ DOMAIN surfaceCache \subseteq File
  /\ violations \subseteq {"undeclared", "unresolvable", "star-hop", "missing"}

Init ==
  /\ stars \in {s \in [File -> SUBSET File] : \A f \in File : f \notin s[f]}
  /\ outside \in SUBSET {Sources[Len(Sources)]} /\ common \in SUBSET {Sources[2]}
  /\ surfaceCache = [f \in {} |-> Nothing]
  /\ checked = <<>> /\ violations = {}

(* moduleSurface, with the files it has seen and the cache: the surface of   *)
(* a file that is being computed is empty.                                   *)
RECURSIVE ModuleSurface(_, _, _)
ModuleSurface(file, seen, cache) ==
  LET own == [names |-> {file}, externalStars |-> {file} \cap outside, cjs |-> FALSE]
      Star(sofar, f) ==
        LET nested == ModuleSurface(f, sofar.seen, sofar.cache)
        IN  [nested EXCEPT !.surface.names = @ \cup sofar.surface.names,
                           !.surface.externalStars = @ \cup sofar.surface.externalStars,
                           !.surface.cjs = FALSE]
      Starred == SelectSeq(Sources, LAMBDA f : f \in stars[file])
      all == FoldLeft(Star, [surface |-> own, seen |-> seen \cup {file}, cache |-> cache], Starred)
      Cached(r) == [r EXCEPT !.cache = [f \in DOMAIN r.cache \cup {file} |->
                                          IF f = file THEN r.surface ELSE r.cache[f]]]
  IN  CASE file \in DOMAIN cache -> [surface |-> cache[file], seen |-> seen, cache |-> cache]
        [] file \notin DOMAIN cache /\ file \in seen -> [surface |-> Nothing, seen |-> seen, cache |-> cache]
        [] file \notin DOMAIN cache \cup seen /\ file \in common ->
             Cached([surface |-> [Nothing EXCEPT !.cjs = TRUE], seen |-> seen \cup {file}, cache |-> cache])
        [] OTHER -> Cached(all)

\* Mutant of Reported: a name that another package may have is let through.
ReportedUnlessStarred(manifest, surface, name) ==
  IF surface.externalStars # {} \/ surface.cjs \/ name \in surface.names THEN {}
  ELSE {"missing"}

(* What is said of a name of a surface; of CommonJS nothing is known. *)
Reported(manifest, surface, name) ==
  (IF manifest = "undeclared" THEN {"undeclared"} ELSE {})
    \cup CASE manifest = "unresolvable" -> {"unresolvable"}
           [] manifest # "unresolvable" /\ (surface.cjs \/ name \in surface.names) -> {}
           [] OTHER -> IF surface.externalStars # {} THEN {"star-hop"} ELSE {"missing"}

(* packageImportViolations, of one name of one import. *)
Check ==
  \E manifest \in Manifest, entry \in File, name \in File :
    LET result == ModuleSurface(entry, {}, surfaceCache)
    IN  /\ checked' = <<manifest, entry, name>>
        /\ surfaceCache' = IF manifest = "unresolvable" THEN surfaceCache ELSE result.cache
        /\ violations' = Reported(manifest, result.surface, name)
        /\ UNCHANGED <<stars, outside, common>>

Next == Check

-----------------------------------------------------------------------------
(* The files whose exports a file has: a file that starts from it and goes   *)
(* along its stars.                                                          *)
Follow(fs) == fs \cup UNION {stars[f] : f \in fs \ common}
Reach(f) == LET step[i \in 0..Len(Sources)] == IF i = 0 THEN {f} ELSE Follow(step[i - 1])
            IN  step[Len(Sources)]
Exported(f) == Reach(f) \ common
Acyclic == \A f \in File \ common : \A g \in stars[f] : f \notin Reach(g)

(* No import that would break in a consumer slips through: a name the        *)
(* dependency does not export itself, or an import that is not declared, is  *)
(* reported, in whatever order the files were met.  Where no files re-export *)
(* one another in a cycle, a sound import is not reported, and a name is     *)
(* said to be a star hop if a package beyond may have it (the two rules of   *)
(* the header).                                                              *)
NothingSlipsThrough ==
  checked # <<>> =>
    LET manifest == checked[1]  entry == checked[2]  name == checked[3]
        unsound == manifest # "declared" \/ (entry \notin common /\ name \notin Exported(entry))
    IN  /\ unsound => violations # {}
        /\ Acyclic /\ ~unsound => violations = {}
        /\ Acyclic /\ manifest = "declared" =>
             ("star-hop" \in violations <=> unsound /\ Exported(entry) \cap outside # {})
=============================================================================
