---------------------------- MODULE WebXRAdapter ----------------------------
(***************************************************************************)
(* The adapter of a three.js page                                          *)
(* (packages/service-framework-three/src/webxr-runtime-adapter.ts) over    *)
(* navigator.xr, which opens sessions, and the renderer's XR manager,      *)
(* which presents one of them and may or may not raise events of its own.  *)
(* The session a request opens has the request's name.                     *)
(***************************************************************************)
EXTENDS AdapterState

Init == StartsWith(None) \/ StartsWith(App)

-----------------------------------------------------------------------------
(* Pieces of handlers *)

SetSessionState(next) ==
  /\ sessionState' = next
  /\ mode' = IF next = "none" /\ sessionState # "none" THEN None ELSE mode

UpdateDerived(session) ==
  /\ derived' = session
  /\ immersive' = Effective(session, overrides)

AttachSession(session) == bound' = session
SettleEndWaiters == waiters' = {}

(* The manager is told of the focus when it changes. *)
SetFocused(now) ==
  IF focused = {now} THEN UNCHANGED focusVars ELSE focused' = {now} /\ paused' = ~now

HandleSessionStart(session) ==
  /\ AttachSession(session)
  /\ SetSessionState("active")
  /\ UpdateDerived(session)
  /\ UNCHANGED <<waiters, focusVars>>

\* Mutant of HandleSessionEnd: a session that never became active is ignored.
EndsOnlyActive ==
  IF sessionState \in {"none", "requesting"}
  THEN UNCHANGED <<sessionVars, derived, immersive, focusVars>>
  ELSE /\ bound' = None
       /\ SetSessionState("none")
       /\ UpdateDerived(None)
       /\ SettleEndWaiters
       /\ focused' = {}
       /\ paused' = (paused /\ focused # {FALSE})

\* Mutant of HandleSessionEnd: the page stays paused.
EndsPaused ==
  IF bound = None /\ sessionState = "none"
  THEN UNCHANGED <<sessionVars, derived, immersive, focusVars>>
  ELSE /\ bound' = None
       /\ SetSessionState("none")
       /\ UpdateDerived(None)
       /\ SettleEndWaiters
       /\ focused' = {}
       /\ UNCHANGED paused

(* Runs twice per session; the second time there is nothing to do. *)
HandleSessionEnd ==
  IF bound = None /\ sessionState = "none"
  THEN UNCHANGED <<sessionVars, derived, immersive, focusVars>>
  ELSE /\ bound' = None
       /\ SetSessionState("none")
       /\ UpdateDerived(None)
       /\ SettleEndWaiters
       /\ focused' = {}
       /\ paused' = (paused /\ focused # {FALSE})

-----------------------------------------------------------------------------
(* session.request *)

(* The request proper: its timer runs against openSession. *)
Begin(r) ==
  IF "enter" \notin offers
  THEN /\ outcome' = [outcome EXCEPT ![r] = "failed"]
       /\ phase' = [phase EXCEPT ![r] = "done"]
       /\ UNCHANGED <<sessionState, mode, timers>>
  ELSE /\ SetSessionState("requesting")
       /\ timers' = timers \cup {r}
       /\ phase' = [phase EXCEPT ![r] = "asking"]
       /\ outcome' = [outcome EXCEPT ![r] = "waiting"]

RequestSameMode(r) ==
  /\ MayCall(r)
  /\ sessionState = "active" /\ mode = ModeOf[r]
  /\ outcome' = [outcome EXCEPT ![r] = "ok"]
  /\ phase' = [phase EXCEPT ![r] = "done"]
  /\ UNCHANGED <<hostVars, sessionVars, capabilityVars, looping, focusVars, disposed, timers, ended>>

RequestWithSwitch(r) ==
  /\ MayCall(r)
  /\ sessionState = "active" /\ mode # ModeOf[r]
  /\ outcome' = [outcome EXCEPT ![r] = "waiting"]
  /\ IF bound = None
     THEN phase' = [phase EXCEPT ![r] = "resume"] /\ UNCHANGED sessionVars
     ELSE /\ SetSessionState("ending")
          /\ waiters' = waiters \cup {r}
          /\ phase' = [phase EXCEPT ![r] = "ending"]
          /\ UNCHANGED bound
  /\ UNCHANGED <<hostVars, capabilityVars, looping, focusVars, disposed, timers, ended>>

RequestFresh(r) ==
  /\ MayCall(r)
  /\ sessionState # "active"
  /\ Begin(r)
  /\ UNCHANGED <<hostVars, bound, waiters, capabilityVars, looping, focusVars, disposed, ended>>

SwitchContinues(r) ==
  /\ phase[r] = "resume"
  /\ Begin(r)
  /\ UNCHANGED <<hostVars, bound, waiters, capabilityVars, looping, focusVars, disposed, ended>>

(* openSession goes on without the request. *)
RequestTimeout(r) ==
  /\ Quiet /\ ~calm
  /\ r \in timers
  /\ timers' = timers \ {r}
  /\ SetSessionState("none")
  /\ outcome' = [outcome EXCEPT ![r] = "failed"]
  /\ UNCHANGED <<hostVars, bound, waiters, capabilityVars, looping, focusVars, disposed, phase, ended>>

-----------------------------------------------------------------------------
(* openSession: three awaits, any of which may reject *)

HostSupports(r) ==
  /\ Quiet /\ phase[r] = "asking"
  /\ phase' = [phase EXCEPT ![r] = "opening"]
  /\ UNCHANGED <<hostVars, sessionVars, capabilityVars, looping, focusVars, disposed, timers, outcome, ended>>

(* A browser has one immersive session at a time. *)
HostOpens(r) ==
  /\ Quiet /\ phase[r] = "opening"
  /\ live = {}
  /\ live' = {r}
  /\ visible' = TRUE
  /\ phase' = [phase EXCEPT ![r] = "setting"]
  /\ UNCHANGED <<offers, calm, hostSession, sessionVars, capabilityVars, looping, focusVars, disposed,
                 timers, outcome, ended>>

(* The failure of a request that has timed out changes nothing. *)
HostFails(r) ==
  /\ Quiet /\ phase[r] \in {"asking", "opening", "setting"}
  /\ phase[r] = "setting" => hostSession # r
  /\ phase' = [phase EXCEPT ![r] = "done"]
  /\ IF outcome[r] = "waiting"
     THEN /\ SetSessionState("none")
          /\ timers' = timers \ {r}
          /\ outcome' = [outcome EXCEPT ![r] = "failed"]
     ELSE UNCHANGED <<sessionState, mode, timers, outcome>>
  /\ UNCHANGED <<hostVars, bound, waiters, capabilityVars, looping, focusVars, disposed, ended>>

\* Mutant of SessionIsSet: the mode is that of the session before.
SetKeepsMode(r) ==
  /\ Quiet /\ phase[r] = "setting" /\ r \in live
  /\ hostSession' = r
  /\ AttachSession(r)
  /\ UpdateDerived(r)
  /\ phase' = [phase EXCEPT ![r] = "done"]
  /\ IF outcome[r] = "waiting"
     THEN /\ sessionState' = "active" /\ UNCHANGED mode
          /\ timers' = timers \ {r}
          /\ outcome' = [outcome EXCEPT ![r] = "ok"]
     ELSE UNCHANGED <<sessionState, mode, timers, outcome>>
  /\ UNCHANGED <<offers, calm, live, visible, waiters, overrides, looping, focusVars, disposed, ended>>

(* The renderer has the session, with an event or without.  A session that *)
(* comes after its timeout is attached and leaves the state alone.         *)
SessionIsSet(r) ==
  /\ Quiet /\ phase[r] = "setting" /\ r \in live
  /\ hostSession' = r
  /\ AttachSession(r)
  /\ UpdateDerived(r)
  /\ phase' = [phase EXCEPT ![r] = "done"]
  /\ IF outcome[r] = "waiting"
     THEN /\ sessionState' = "active" /\ mode' = ModeOf[r]
          /\ timers' = timers \ {r}
          /\ outcome' = [outcome EXCEPT ![r] = "ok"]
     ELSE UNCHANGED <<sessionState, mode, timers, outcome>>
  /\ UNCHANGED <<offers, calm, live, visible, waiters, overrides, looping, focusVars, disposed, ended>>

-----------------------------------------------------------------------------
(* session.end *)

EndSession(e) ==
  /\ MayCall(e)
  /\ IF bound = None
     THEN /\ ended' = [ended EXCEPT ![e] = "done"]
          /\ phase' = [phase EXCEPT ![e] = "done"]
          /\ UNCHANGED sessionVars
     ELSE /\ SetSessionState("ending")
          /\ waiters' = waiters \cup {e}
          /\ phase' = [phase EXCEPT ![e] = "ending"]
          /\ ended' = [ended EXCEPT ![e] = "waiting"]
          /\ UNCHANGED bound
  /\ UNCHANGED <<hostVars, capabilityVars, looping, focusVars, disposed, timers, outcome>>

(* session.end() resolves or rejects: the fallback acts on whatever session *)
(* is bound by then.                                                        *)
EndSettles(c) ==
  /\ Quiet /\ phase[c] = "ending"
  /\ calm => live = {}
  /\ HandleSessionEnd
  /\ phase' = [phase EXCEPT ![c] = IF c \in waiters' THEN "unsettled"
                                   ELSE IF c \in Request THEN "resume" ELSE "done"]
  /\ ended' = [e \in End |-> IF e = c /\ e \notin waiters' THEN "done" ELSE ended[e]]
  /\ UNCHANGED <<hostVars, overrides, looping, disposed, timers, outcome>>

-----------------------------------------------------------------------------
(* What the page and the renderer do *)

(* The renderer's manager announces a session a request is setting. *)
ManagerStarts(r) ==
  /\ Quiet /\ "events" \in offers /\ phase[r] = "setting" /\ r \in live /\ hostSession # r
  /\ hostSession' = r
  /\ IF disposed THEN UNCHANGED <<sessionVars, derived, immersive, focusVars>>
     ELSE HandleSessionStart(r)
  /\ UNCHANGED <<offers, calm, live, visible, overrides, looping, disposed, callVars>>

PageOpens ==
  /\ Quiet /\ live = {}
  /\ calm => Waiting = {} /\ "events" \in offers
  /\ live' = {App} /\ hostSession' = App /\ visible' = TRUE
  /\ IF disposed \/ "events" \notin offers
     THEN UNCHANGED <<sessionVars, derived, immersive, focusVars>>
     ELSE HandleSessionStart(App)
  /\ UNCHANGED <<offers, calm, overrides, looping, disposed, callVars>>

(* A manager that raises no events changes what it presents. *)
ManagerChanges ==
  /\ Quiet /\ ~calm /\ "events" \notin offers
  /\ hostSession' \in (live \cup {None}) \ {hostSession}
  /\ UNCHANGED <<offers, calm, live, visible, sessionVars, capabilityVars, looping, focusVars, disposed, callVars>>

SessionEnds ==
  /\ Quiet
  /\ \E s \in live :
       /\ MayEnd(s)
       /\ live' = live \ {s}
       /\ hostSession' = IF hostSession = s THEN None ELSE hostSession
       /\ IF bound = s \/ (hostSession = s /\ "events" \in offers /\ ~disposed)
          THEN HandleSessionEnd
          ELSE UNCHANGED <<sessionVars, derived, immersive, focusVars>>
  /\ UNCHANGED <<offers, calm, visible, overrides, looping, disposed, callVars>>

VisibilityChanges ==
  /\ Quiet /\ live # {}
  /\ visible' = ~visible
  /\ UNCHANGED <<offers, calm, live, hostSession, sessionVars, capabilityVars, looping, focusVars, disposed, callVars>>

-----------------------------------------------------------------------------
(* The frame loop and the capabilities *)

StartLoop ==
  /\ Quiet /\ ~disposed /\ ~looping
  /\ looping' = TRUE
  /\ UNCHANGED <<hostVars, sessionVars, capabilityVars, focusVars, disposed, callVars>>

StopLoop ==
  /\ Quiet /\ ~disposed /\ looping
  /\ looping' = FALSE
  /\ UNCHANGED <<hostVars, sessionVars, capabilityVars, focusVars, disposed, callVars>>

(* A frame goes out unless a session gates it. *)
Tick ==
  /\ Quiet /\ looping
  /\ IF bound = None THEN UNCHANGED focusVars ELSE SetFocused(visible)
  /\ UNCHANGED <<hostVars, sessionVars, capabilityVars, looping, disposed, callVars>>

RefreshCapabilities ==
  /\ Quiet /\ ~disposed
  /\ IF hostSession # None
     THEN /\ AttachSession(hostSession)
          /\ UpdateDerived(hostSession)
          /\ UNCHANGED <<sessionState, mode, waiters, focusVars>>
     ELSE IF bound # None
     THEN HandleSessionEnd
     ELSE UpdateDerived(None) /\ UNCHANGED <<sessionVars, focusVars>>
  /\ UNCHANGED <<hostVars, overrides, looping, disposed, callVars>>

SetCapabilities ==
  /\ Quiet /\ ~disposed
  /\ \E b \in Override : overrides' = {b} /\ immersive' = b
  /\ UNCHANGED <<hostVars, sessionVars, derived, looping, focusVars, disposed, callVars>>

ClearCapabilityOverrides ==
  /\ Quiet /\ ~disposed /\ overrides # {}
  /\ overrides' = {}
  /\ immersive' = Effective(derived, {})
  /\ UNCHANGED <<hostVars, sessionVars, derived, looping, focusVars, disposed, callVars>>

(* The state stays as it is, and so does what the manager was told. *)
Dispose ==
  /\ Quiet /\ ~disposed /\ ~calm
  /\ disposed' = TRUE /\ looping' = FALSE
  /\ bound' = None
  /\ SettleEndWaiters
  /\ overrides' = {}
  /\ UNCHANGED <<hostVars, sessionState, mode, derived, immersive, focusVars, callVars>>

-----------------------------------------------------------------------------
Settles == \E c \in Call : EndSettles(c)
Continues == \E r \in Request : SwitchContinues(r)
TimesOut == \E r \in Request : RequestTimeout(r)
Answers == \E r \in Request : HostSupports(r) \/ HostFails(r) \/ SessionIsSet(r)

Next ==
  \/ \E r \in Request :
       \/ RequestSameMode(r) \/ RequestWithSwitch(r) \/ RequestFresh(r)
       \/ HostOpens(r) \/ ManagerStarts(r)
  \/ \E e \in End : EndSession(e)
  \/ Settles \/ Continues \/ TimesOut \/ Answers
  \/ PageOpens \/ ManagerChanges \/ SessionEnds \/ VisibilityChanges
  \/ StartLoop \/ StopLoop \/ Tick
  \/ RefreshCapabilities \/ SetCapabilities \/ ClearCapabilityOverrides \/ Dispose

Spec == Init /\ [][Next]_vars
=============================================================================
