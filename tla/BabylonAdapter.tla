--------------------------- MODULE BabylonAdapter ---------------------------
(***************************************************************************)
(* The adapter of a Babylon.js app                                         *)
(* (packages/service-framework-babylon/src/babylon-runtime-adapter.ts)     *)
(* over Babylon's experience helper, which opens and closes the session    *)
(* itself and reports its own state, when it has observables at all.       *)
(***************************************************************************)
EXTENDS AdapterState

VARIABLE xrState   \* the helper's: "out", "entering", "in", "exiting"

XRState == {"out", "entering", "in", "exiting"}

Init ==
  \/ StartsWith(None) /\ xrState = "out"
  \/ StartsWith(App) /\ "enter" \in offers /\ xrState = "in"

(* Calm calls wait for the second of the two signals of a session. *)
MayAsk(c) == MayCall(c) /\ (calm => xrState # "entering")

Observed == "events" \in offers /\ ~disposed

-----------------------------------------------------------------------------
(* Pieces of handlers *)

SetSessionState(next) ==
  /\ sessionState' = next
  /\ mode' = IF next = "none" /\ sessionState # "none" THEN None ELSE mode

UpdateDerived(session) ==
  /\ derived' = session
  /\ immersive' = Effective(session, overrides)

AttachSession(session) == bound' = session
SettleEndWaiters == waiters' = {}

SetFocused(now) ==
  IF focused = {now} THEN UNCHANGED focusVars ELSE focused' = {now} /\ paused' = ~now

(* Twice per session: with the session, and with the state IN_XR. *)
HandleSessionStart(session) ==
  /\ AttachSession(session)
  /\ SetSessionState("active")
  /\ UpdateDerived(session)
  /\ UNCHANGED <<waiters, focusVars>>

(* Up to three times per session. *)
HandleSessionEnd ==
  IF bound = None /\ sessionState = "none"
  THEN UNCHANGED <<sessionVars, derived, immersive, focusVars>>
  ELSE /\ bound' = None
       /\ SetSessionState("none")
       /\ UpdateDerived(None)
       /\ SettleEndWaiters
       /\ focused' = {}
       /\ paused' = (paused /\ focused # {FALSE})

(* What the observer of the helper's state does with it. *)
HandleStateChange(state) ==
  IF ~Observed
  THEN UNCHANGED <<sessionVars, derived, immersive, focusVars>>
  ELSE CASE state = "entering" -> /\ SetSessionState("requesting")
                                  /\ UNCHANGED <<bound, waiters, derived, immersive, focusVars>>
         [] state = "in" -> HandleSessionStart(hostSession)
         [] state = "exiting" -> /\ SetSessionState("ending")
                                 /\ UNCHANGED <<bound, waiters, derived, immersive, focusVars>>
         [] state = "out" -> HandleSessionEnd

-----------------------------------------------------------------------------
(* session.request *)

Begin(r) ==
  IF "enter" \notin offers
  THEN /\ outcome' = [outcome EXCEPT ![r] = "failed"]
       /\ phase' = [phase EXCEPT ![r] = "done"]
       /\ UNCHANGED <<sessionState, mode, timers>>
  ELSE /\ SetSessionState("requesting")
       /\ timers' = timers \cup {r}
       /\ phase' = [phase EXCEPT ![r] = "asking"]
       /\ outcome' = [outcome EXCEPT ![r] = "waiting"]

RequestSameMode(r) ==
  /\ MayAsk(r)
  /\ sessionState = "active" /\ mode = ModeOf[r]
  /\ outcome' = [outcome EXCEPT ![r] = "ok"]
  /\ phase' = [phase EXCEPT ![r] = "done"]
  /\ UNCHANGED <<hostVars, xrState, sessionVars, capabilityVars, looping, focusVars, disposed, timers, ended>>

RequestFresh(r) ==
  /\ MayAsk(r)
  /\ sessionState # "active"
  /\ Begin(r)
  /\ UNCHANGED <<hostVars, xrState, bound, waiters, capabilityVars, looping, focusVars, disposed, ended>>

(* endSession: the helper exits when it is in XR, and otherwise resolves   *)
(* at once.                                                                *)
Exit(c) ==
  /\ SetSessionState("ending")
  /\ waiters' = waiters \cup {c}
  /\ phase' = [phase EXCEPT ![c] = IF xrState = "in" THEN "ending" ELSE "exited"]
  /\ xrState' = IF xrState = "in" THEN "exiting" ELSE xrState
  /\ UNCHANGED bound

RequestWithSwitch(r) ==
  /\ MayAsk(r)
  /\ sessionState = "active" /\ mode # ModeOf[r]
  /\ outcome' = [outcome EXCEPT ![r] = "waiting"]
  /\ Exit(r)
  /\ UNCHANGED <<hostVars, capabilityVars, looping, focusVars, disposed, timers, ended>>

SwitchContinues(r) ==
  /\ phase[r] = "resume"
  /\ Begin(r)
  /\ UNCHANGED <<hostVars, xrState, bound, waiters, capabilityVars, looping, focusVars, disposed, ended>>

RequestTimeout(r) ==
  /\ Quiet /\ ~calm
  /\ r \in timers
  /\ timers' = timers \ {r}
  /\ SetSessionState("none")
  /\ outcome' = [outcome EXCEPT ![r] = "failed"]
  /\ UNCHANGED <<hostVars, xrState, bound, waiters, capabilityVars, looping, focusVars, disposed, phase, ended>>

-----------------------------------------------------------------------------
(* openSession *)

(* isSupported answers yes, or cannot answer, and enterXRAsync is called.  *)
IsSupported(r) ==
  /\ Quiet /\ phase[r] = "asking"
  /\ phase' = [phase EXCEPT ![r] = "opening"]
  /\ IF xrState = "out"
     THEN xrState' = "entering" /\ HandleStateChange("entering")
     ELSE UNCHANGED <<xrState, sessionVars, derived, immersive, focusVars>>
  /\ UNCHANGED <<hostVars, overrides, looping, disposed, timers, outcome, ended>>

NotSupported(r) ==
  /\ Quiet /\ phase[r] = "asking"
  /\ phase' = [phase EXCEPT ![r] = "done"]
  /\ IF outcome[r] = "waiting"
     THEN /\ SetSessionState("none")
          /\ timers' = timers \ {r}
          /\ outcome' = [outcome EXCEPT ![r] = "failed"]
     ELSE UNCHANGED <<sessionState, mode, timers, outcome>>
  /\ UNCHANGED <<hostVars, xrState, bound, waiters, capabilityVars, looping, focusVars, disposed, ended>>

(* enterXRAsync rejects, once the helper has reported NOT_IN_XR: after a   *)
(* failure of its own, or because another session is open.                 *)
EnterFails(r) ==
  /\ Quiet /\ phase[r] \in {"opening", "setting"} /\ r \notin live
  /\ phase' = [phase EXCEPT ![r] = "done"]
  /\ xrState' = "out"
  /\ IF Observed THEN HandleSessionEnd
     ELSE /\ IF outcome[r] = "waiting" THEN SetSessionState("none") ELSE UNCHANGED <<sessionState, mode>>
          /\ UNCHANGED <<bound, waiters, derived, immersive, focusVars>>
  /\ IF outcome[r] = "waiting"
     THEN timers' = timers \ {r} /\ outcome' = [outcome EXCEPT ![r] = "failed"]
     ELSE UNCHANGED <<timers, outcome>>
  /\ UNCHANGED <<hostVars, overrides, looping, disposed, ended>>

(* enterXRAsync resolves; the session the manager has now is adopted. *)
EnterSucceeds(r) ==
  /\ Quiet /\ phase[r] = "setting"
  /\ phase' = [phase EXCEPT ![r] = "done"]
  /\ IF hostSession = None
     THEN UNCHANGED <<bound, derived, immersive>>
     ELSE AttachSession(hostSession) /\ UpdateDerived(hostSession)
  /\ IF outcome[r] = "waiting"
     THEN /\ sessionState' = "active" /\ mode' = ModeOf[r]
          /\ timers' = timers \ {r}
          /\ outcome' = [outcome EXCEPT ![r] = "ok"]
     ELSE UNCHANGED <<sessionState, mode, timers, outcome>>
  /\ UNCHANGED <<hostVars, xrState, waiters, overrides, looping, focusVars, disposed, ended>>

-----------------------------------------------------------------------------
(* session.end *)

EndSession(e) ==
  /\ MayAsk(e)
  /\ IF "enter" \notin offers \/ sessionState = "none"
     THEN /\ ended' = [ended EXCEPT ![e] = "done"]
          /\ phase' = [phase EXCEPT ![e] = "done"]
          /\ UNCHANGED <<sessionVars, xrState>>
     ELSE Exit(e) /\ ended' = [ended EXCEPT ![e] = "waiting"]
  /\ UNCHANGED <<hostVars, capabilityVars, looping, focusVars, disposed, timers, outcome>>

(* exitXRAsync resolves or rejects. *)
EndSettles(c) ==
  /\ \/ phase[c] = "exited"
     \/ Quiet /\ phase[c] = "ending" /\ (calm => live = {})
  /\ HandleSessionEnd
  /\ phase' = [phase EXCEPT ![c] = IF c \in waiters' THEN "unsettled"
                                   ELSE IF c \in Request THEN "resume" ELSE "done"]
  /\ ended' = [e \in End |-> IF e = c /\ e \notin waiters' THEN "done" ELSE ended[e]]
  /\ UNCHANGED <<hostVars, xrState, overrides, looping, disposed, timers, outcome>>

-----------------------------------------------------------------------------
(* What the helper does *)

(* Babylon's own button. *)
AppEnters ==
  /\ Quiet /\ "enter" \in offers /\ xrState = "out" /\ live = {}
  /\ calm => Waiting = {} /\ "events" \in offers
  /\ xrState' = "entering"
  /\ HandleStateChange("entering")
  /\ live' = {App}
  /\ UNCHANGED <<offers, calm, hostSession, visible, overrides, looping, disposed, callVars>>

AppIsRefused ==
  /\ Quiet /\ xrState = "entering" /\ live = {App} /\ hostSession = None
  /\ xrState' = "out" /\ live' = {}
  /\ HandleStateChange("out")
  /\ UNCHANGED <<offers, calm, hostSession, visible, overrides, looping, disposed, callVars>>

(* onXRSessionInit *)
SessionInit ==
  /\ Quiet /\ xrState = "entering" /\ hostSession = None
  /\ \E s \in Session :
       /\ IF s = App THEN live = {App} ELSE live = {} /\ phase[s] = "opening"
       /\ live' = {s} /\ hostSession' = s /\ visible' = TRUE
       /\ phase' = IF s = App THEN phase ELSE [phase EXCEPT ![s] = "setting"]
       /\ IF Observed THEN HandleSessionStart(s)
          ELSE UNCHANGED <<sessionVars, derived, immersive, focusVars>>
  /\ UNCHANGED <<offers, calm, xrState, overrides, looping, disposed, timers, outcome, ended>>

EntersXR ==
  /\ Quiet /\ xrState = "entering" /\ hostSession # None
  /\ xrState' = "in"
  /\ HandleStateChange("in")
  /\ UNCHANGED <<hostVars, overrides, looping, disposed, callVars>>

(* Babylon's own button again. *)
AppExits ==
  /\ Quiet /\ xrState = "in" /\ (calm => Waiting = {})
  /\ xrState' = "exiting"
  /\ HandleStateChange("exiting")
  /\ UNCHANGED <<hostVars, overrides, looping, disposed, callVars>>

(* The session's end, onXRSessionEnded and NOT_IN_XR, in one task. *)
SessionEnds ==
  /\ Quiet /\ hostSession # None /\ MayEnd(hostSession)
  /\ live' = {} /\ hostSession' = None /\ xrState' = "out"
  /\ IF bound = hostSession \/ Observed THEN HandleSessionEnd
     ELSE UNCHANGED <<sessionVars, derived, immersive, focusVars>>
  /\ UNCHANGED <<offers, calm, visible, overrides, looping, disposed, callVars>>

VisibilityChanges ==
  /\ Quiet /\ hostSession # None
  /\ visible' = ~visible
  /\ UNCHANGED <<offers, calm, live, hostSession, xrState, sessionVars, capabilityVars, looping, focusVars,
                 disposed, callVars>>

-----------------------------------------------------------------------------
(* The render loop and the capabilities *)

StartLoop ==
  /\ Quiet /\ ~disposed /\ ~looping
  /\ looping' = TRUE
  /\ UNCHANGED <<hostVars, xrState, sessionVars, capabilityVars, focusVars, disposed, callVars>>

StopLoop ==
  /\ Quiet /\ ~disposed /\ looping
  /\ looping' = FALSE
  /\ UNCHANGED <<hostVars, xrState, sessionVars, capabilityVars, focusVars, disposed, callVars>>

Tick ==
  /\ Quiet /\ looping
  /\ IF bound = None THEN UNCHANGED focusVars ELSE SetFocused(visible)
  /\ UNCHANGED <<hostVars, xrState, sessionVars, capabilityVars, looping, disposed, callVars>>

RefreshCapabilities ==
  /\ Quiet /\ ~disposed
  /\ IF hostSession # None
     THEN /\ AttachSession(hostSession)
          /\ UpdateDerived(hostSession)
          /\ UNCHANGED <<sessionState, mode, waiters, focusVars>>
     ELSE IF bound # None
     THEN HandleSessionEnd
     ELSE UpdateDerived(None) /\ UNCHANGED <<sessionVars, focusVars>>
  /\ UNCHANGED <<hostVars, xrState, overrides, looping, disposed, callVars>>

SetCapabilities ==
  /\ Quiet /\ ~disposed
  /\ \E b \in Override : overrides' = {b} /\ immersive' = b
  /\ UNCHANGED <<hostVars, xrState, sessionVars, derived, looping, focusVars, disposed, callVars>>

ClearCapabilityOverrides ==
  /\ Quiet /\ ~disposed /\ overrides # {}
  /\ overrides' = {}
  /\ immersive' = Effective(derived, {})
  /\ UNCHANGED <<hostVars, xrState, sessionVars, derived, looping, focusVars, disposed, callVars>>

Dispose ==
  /\ Quiet /\ ~disposed /\ ~calm
  /\ disposed' = TRUE /\ looping' = FALSE
  /\ bound' = None
  /\ SettleEndWaiters
  /\ overrides' = {}
  /\ UNCHANGED <<hostVars, xrState, sessionState, mode, derived, immersive, focusVars, callVars>>

-----------------------------------------------------------------------------
Settles == \E c \in Call : EndSettles(c)
Continues == \E r \in Request : SwitchContinues(r)
TimesOut == \E r \in Request : RequestTimeout(r)

Next ==
  \/ \E r \in Request :
       \/ RequestSameMode(r) \/ RequestWithSwitch(r) \/ RequestFresh(r)
       \/ IsSupported(r) \/ NotSupported(r) \/ EnterFails(r) \/ EnterSucceeds(r)
  \/ \E e \in End : EndSession(e)
  \/ Settles \/ Continues \/ TimesOut
  \/ AppEnters \/ AppIsRefused \/ SessionInit \/ EntersXR \/ AppExits \/ SessionEnds
  \/ VisibilityChanges
  \/ StartLoop \/ StopLoop \/ Tick
  \/ RefreshCapabilities \/ SetCapabilities \/ ClearCapabilityOverrides \/ Dispose
=============================================================================
