---------------------------- MODULE AdapterState ----------------------------
(***************************************************************************)
(* What the adapters over a browser engine have in common: the state of    *)
(* WebXRRuntimeAdapter, BabylonRuntimeAdapter, IWSDKAdapter and            *)
(* MockRuntimeAdapter, the calls in flight on it, and what all of them     *)
(* should keep to.                                                         *)
(*                                                                         *)
(* A call is an async function: `phase' says what it awaits.  A phase of   *)
(* Jobs is a continuation that is due; microtasks run before the next      *)
(* task, so nothing else happens while there is one (Quiet).  Listeners    *)
(* do not call the adapter back.                                           *)
(***************************************************************************)
EXTENDS Naturals

CONSTANTS
  Request,   \* calls of session.request
  End,       \* calls of session.end
  Mode,      \* session modes
  ModeOf,    \* the mode a call asks for
  None,      \* no session, no mode, no call
  App,       \* the session the page or the host's own button opens
  Override   \* bound: the values setCapabilities forces

VARIABLES
  offers,       \* what the host has: "enter", "exit", "events", "frames"
  calm,         \* one call at a time, none in the middle of a session's start or
                \* end, and a host that does as it is asked
  live,         \* the sessions that exist
  hostSession,  \* the one the engine presents
  visible,      \* whether it is visible
  bound, sessionState, mode,
  waiters,      \* the calls that wait for the end of a session
  phase,        \* what each call awaits
  timers,       \* the calls whose timer is armed
  derived,      \* the session capabilities were derived from
  overrides,    \* the forced value of `immersive', if any
  immersive,    \* as last published
  looping,      \* the frame loop is bound
  focused,      \* a set: empty until it is known
  paused,       \* what the service manager was told
  disposed,
  outcome,      \* of each request's promise
  ended         \* of each end's

Call == Request \cup End
Session == Request \cup {App}

hostVars == <<offers, calm, live, hostSession, visible>>
sessionVars == <<bound, sessionState, mode, waiters>>
capabilityVars == <<derived, overrides, immersive>>
focusVars == <<focused, paused>>
callVars == <<phase, timers, outcome, ended>>
vars == <<hostVars, sessionVars, capabilityVars, looping, focusVars, disposed, callVars>>

Jobs == {"resume", "exited", "over", "started", "missed"}
Awaits == {"idle", "done", "ending", "asking", "opening", "setting", "unsettled"}

TypeOK ==
  /\ offers \subseteq {"enter", "exit", "events", "frames"} /\ calm \in BOOLEAN
  /\ live \subseteq Session /\ hostSession \in Session \cup {None} /\ visible \in BOOLEAN
  /\ bound \in Session \cup {None} /\ derived \in Session \cup {None}
  /\ sessionState \in {"none", "requesting", "active", "ending"}
  /\ mode \in Mode \cup {None}
  /\ waiters \subseteq Call /\ timers \subseteq Call
  /\ phase \in [Call -> Jobs \cup Awaits]
  /\ overrides \in SUBSET BOOLEAN /\ focused \in SUBSET BOOLEAN
  /\ {immersive, looping, paused, disposed} \subseteq BOOLEAN
  /\ outcome \in [Request -> {"idle", "waiting", "ok", "failed"}]
  /\ ended \in [End -> {"idle", "waiting", "done"}]

(* The capabilities as published: what was derived, under what is forced. *)
Effective(session, forced) == IF forced = {} THEN session # None ELSE TRUE \in forced

(* The promise of a request or of an end. *)
Waiting == {c \in Call : phase[c] \notin {"idle", "done"}}
Quiet == \A c \in Call : phase[c] \notin Jobs
MayCall(c) ==
  /\ Quiet /\ ~disposed /\ phase[c] = "idle"
  /\ calm => Waiting = {} /\ sessionState \in {"none", "active"}

(* A calm host keeps the session of a request until it has said so. *)
MayEnd(s) == calm /\ s \in Request => phase[s] = "done"

(* A page with or without a session open; `session' is what it presents. *)
StartsWith(session) ==
  /\ offers \in SUBSET {"enter", "exit", "events", "frames"} /\ calm \in BOOLEAN
  /\ hostSession = session /\ live = {session} \ {None} /\ visible = TRUE
  /\ bound = session /\ derived = session /\ immersive = (session # None)
  /\ sessionState = (IF session = None THEN "none" ELSE "active")
  /\ mode = None
  /\ waiters = {} /\ timers = {} /\ phase = [c \in Call |-> "idle"]
  /\ overrides = {} /\ looping = FALSE /\ focused = {} /\ paused = FALSE /\ disposed = FALSE
  /\ outcome = [r \in Request |-> "idle"] /\ ended = [e \in End |-> "idle"]

-----------------------------------------------------------------------------
(* Published capabilities are those of the session the adapter is bound to, *)
(* under the overrides: whatever starts, ends, is refused or is refreshed,  *)
(* no listener is left with the capabilities of another session             *)
(* (updateDerived and publishCapabilities follow every attach and detach).  *)
CapabilitiesFollowSession ==
  ~disposed => derived = bound /\ immersive = Effective(bound, overrides)

(* A timer belongs to a call in flight: none outlives its call to set the   *)
(* state of a session it knows nothing of (requestSession's clearTimeout).  *)
TimersBelongToCalls == \A c \in timers : phase[c] \notin {"idle", "done"}

(* The session contract, which calm use of every adapter implements. *)
Contract == INSTANCE SessionContract WITH
  state <- sessionState,
  mode <- IF sessionState = "active" THEN {mode} \ {None} ELSE {}
ImplementsContract ==
  /\ calm => Contract!Init
  /\ [][calm => Contract!Next]_(Contract!vars)
=============================================================================
