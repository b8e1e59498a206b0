------------------------------ MODULE MCScripts ------------------------------
(***************************************************************************)
(* The scripts of a release, one of them at a time: the state of the       *)
(* others stays at one initial state.                                      *)
(***************************************************************************)
EXTENDS Naturals, ReleaseState, SmokeDeployState, VerifyPackState

VARIABLES
  (* ImportSurface *)
  stars, outside, common, surfaceCache, checked, violations

StampOrder == <<"core", "native">>

prepareVars == <<doing, checkout, work, litter, local, origin, pullRequest, main, tags, latest, gated>>
smokeVars == <<looking, url, attempt, loaded, elapsed, problems, broken, failing>>
packVars == <<at, edition, copy, found, staged, tarball, examined, faults, failures>>
surfaceVars == <<stars, outside, common, surfaceCache, checked, violations>>
scriptVars == <<prepareVars, smokeVars, packVars, surfaceVars>>

Prepare == INSTANCE Release WITH MaxSource <- 1, MaxLatest <- 3, MaxVersion <- 2
Smoke == INSTANCE SmokeDeploy WITH Urls <- 2, Retries <- 3, TlsWait <- 6, TlsPause <- 2, Lasts <- {1, 2}
Pack == INSTANCE VerifyPack WITH MaxEdition <- 2
Surface == INSTANCE ImportSurface WITH
  Sources <- <<"index", "maths", "loader">>, Manifest <- {"declared", "undeclared", "unresolvable"}

ScriptsInit(script) ==
  /\ Prepare!Init /\ (script # "prepare" => work.range = 1)
  /\ Smoke!Init
  /\ Pack!Init /\ (script # "pack" => copy = [p \in DOMAIN copy |-> 0])
  /\ Surface!Init /\ (script # "surface" => outside = {} /\ common = {} /\ \A f \in DOMAIN stars : stars[f] = {})

ScriptsNext(script) ==
  \/ script = "prepare" /\ Prepare!Next /\ UNCHANGED <<smokeVars, packVars, surfaceVars>>
  \/ script = "smoke" /\ Smoke!Next /\ UNCHANGED <<prepareVars, packVars, surfaceVars>>
  \/ script = "pack" /\ Pack!Next /\ UNCHANGED <<prepareVars, smokeVars, surfaceVars>>
  \/ script = "surface" /\ Surface!Next /\ UNCHANGED <<prepareVars, smokeVars, packVars>>

-----------------------------------------------------------------------------
(* No import that would break in a consumer slips through, and no sound one *)
(* is reported unless files re-export one another in a cycle.               *)
NothingSlipsThrough == Surface!NothingSlipsThrough
=============================================================================
