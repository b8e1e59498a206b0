---------------------------- MODULE IWSDKAdapter ----------------------------
(***************************************************************************)
(* The adapter of an IWSDK world                                           *)
(* (packages/service-framework-iwsdk/src/iwsdk-adapter.ts) and the system  *)
(* that pauses the services with it (service-bridge-system.ts).  The world *)
(* launches and exits a session without a promise: the adapter waits for   *)
(* world.session to come or to go, on a signal or by polling.  `live' are  *)
(* the sessions the world is launching or has.                             *)
(***************************************************************************)
EXTENDS AdapterState

Init == StartsWith(None) \/ StartsWith(App)

-----------------------------------------------------------------------------
(* Pieces of handlers *)

HasSession == hostSession # None

SetSessionState(next) ==
  /\ sessionState' = next
  /\ mode' = IF next = "none" /\ sessionState # "none" THEN None ELSE mode

BindSession(session) == bound' = session

(* What refreshCapabilities does, wherever it is called. *)
Refresh ==
  /\ BindSession(hostSession)
  /\ derived' = hostSession
  /\ immersive' = Effective(hostSession, overrides)

(* The waits whose predicate holds, and what their calls then go on with. *)
Reached == {c \in Call : \/ phase[c] = "opening" /\ HasSession
                         \/ phase[c] = "ending" /\ ~HasSession}

SettleWaits(calls, reached) ==
  /\ phase' = [c \in Call |->
                 IF c \notin calls THEN phase[c]
                 ELSE IF phase[c] = "ending" THEN "over"
                 ELSE IF reached THEN "started" ELSE "missed"]
  /\ timers' = timers \ calls
  /\ waiters' = waiters \ calls

SyncSessionState ==
  IF sessionState \in {"requesting", "ending"}
  THEN UNCHANGED <<sessionState, mode>>
  ELSE SetSessionState(IF HasSession THEN "active" ELSE "none")

-----------------------------------------------------------------------------
(* session.request *)

(* launchXR returns, or throws, before the session comes. *)
Launch(r) ==
  \/ /\ "enter" \in offers
     /\ SetSessionState("requesting")
     /\ live' = live \cup {r}
     /\ phase' = [phase EXCEPT ![r] = IF HasSession THEN "started" ELSE "opening"]
     /\ timers' = IF HasSession THEN timers ELSE timers \cup {r}
     /\ outcome' = [outcome EXCEPT ![r] = "waiting"]
  \/ /\ IF "enter" \in offers THEN SetSessionState("none") ELSE UNCHANGED <<sessionState, mode>>
     /\ phase' = [phase EXCEPT ![r] = "done"]
     /\ outcome' = [outcome EXCEPT ![r] = "failed"]
     /\ UNCHANGED <<live, timers>>

(* endSession up to its wait. *)
Exit(c) ==
  /\ SetSessionState("ending")
  /\ phase' = [phase EXCEPT ![c] = IF HasSession THEN "ending" ELSE "over"]
  /\ timers' = IF HasSession THEN timers \cup {c} ELSE timers
  /\ waiters' = IF HasSession THEN waiters \cup {c} ELSE waiters
  /\ UNCHANGED bound

RequestSameMode(r) ==
  /\ MayCall(r)
  /\ sessionState = "active" /\ mode = ModeOf[r]
  /\ outcome' = [outcome EXCEPT ![r] = "ok"]
  /\ phase' = [phase EXCEPT ![r] = "done"]
  /\ UNCHANGED <<hostVars, sessionVars, capabilityVars, looping, focusVars, disposed, timers, ended>>

RequestWithSwitch(r) ==
  /\ MayCall(r)
  /\ sessionState = "active" /\ mode # ModeOf[r]
  /\ IF "exit" \in offers
     THEN Exit(r) /\ outcome' = [outcome EXCEPT ![r] = "waiting"]
     ELSE /\ outcome' = [outcome EXCEPT ![r] = "failed"]
          /\ phase' = [phase EXCEPT ![r] = "done"]
          /\ UNCHANGED <<sessionVars, timers>>
  /\ UNCHANGED <<hostVars, capabilityVars, looping, focusVars, disposed, ended>>

RequestFresh(r) ==
  /\ MayCall(r)
  /\ sessionState # "active"
  /\ Launch(r)
  /\ UNCHANGED <<offers, calm, hostSession, visible, bound, waiters, capabilityVars, looping, focusVars,
                 disposed, ended>>

(* The switch goes on, after dispose too. *)
SwitchContinues(r) ==
  /\ phase[r] = "resume"
  /\ Launch(r)
  /\ UNCHANGED <<offers, calm, hostSession, visible, bound, waiters, capabilityVars, looping, focusVars,
                 disposed, ended>>

Started(r) ==
  /\ phase[r] = "started"
  /\ sessionState' = "active" /\ mode' = ModeOf[r]
  /\ Refresh
  /\ phase' = [phase EXCEPT ![r] = "done"]
  /\ outcome' = [outcome EXCEPT ![r] = "ok"]
  /\ UNCHANGED <<hostVars, waiters, overrides, looping, focusVars, disposed, timers, ended>>

Missed(r) ==
  /\ phase[r] = "missed"
  /\ SetSessionState("none")
  /\ phase' = [phase EXCEPT ![r] = "done"]
  /\ outcome' = [outcome EXCEPT ![r] = "failed"]
  /\ UNCHANGED <<hostVars, bound, waiters, capabilityVars, looping, focusVars, disposed, timers, ended>>

-----------------------------------------------------------------------------
(* session.end *)

EndSession(e) ==
  /\ MayCall(e)
  /\ IF sessionState = "none"
     THEN /\ ended' = [ended EXCEPT ![e] = "done"]
          /\ phase' = [phase EXCEPT ![e] = "done"]
          /\ UNCHANGED <<sessionVars, timers>>
     ELSE Exit(e) /\ ended' = [ended EXCEPT ![e] = "waiting"]
  /\ UNCHANGED <<hostVars, capabilityVars, looping, focusVars, disposed, outcome>>

\* Mutant of EndIsOver: capabilities are left as they were.
OverKeepsCapabilities(c) ==
  /\ phase[c] = "over"
  /\ SetSessionState("none")
  /\ BindSession(hostSession)
  /\ phase' = [phase EXCEPT ![c] = IF c \in Request THEN "resume" ELSE "done"]
  /\ ended' = [e \in End |-> IF e = c THEN "done" ELSE ended[e]]
  /\ UNCHANGED <<hostVars, waiters, capabilityVars, looping, focusVars, disposed, timers, outcome>>

(* The session has gone, or ten seconds have: the state is none. *)
EndIsOver(c) ==
  /\ phase[c] = "over"
  /\ SetSessionState("none")
  /\ Refresh
  /\ phase' = [phase EXCEPT ![c] = IF c \in Request THEN "resume" ELSE "done"]
  /\ ended' = [e \in End |-> IF e = c THEN "done" ELSE ended[e]]
  /\ UNCHANGED <<hostVars, waiters, overrides, looping, focusVars, disposed, timers, outcome>>

\* Mutant of WaitTimesOut: a wait that gives up is dropped, not settled.
TimeoutDropsWait(c) ==
  /\ Quiet /\ ~calm
  /\ c \in timers
  /\ timers' = timers \ {c}
  /\ UNCHANGED <<hostVars, sessionVars, capabilityVars, looping, focusVars, disposed, phase, outcome, ended>>

WaitTimesOut(c) ==
  /\ Quiet /\ ~calm
  /\ c \in timers
  /\ SettleWaits({c}, FALSE)
  /\ UNCHANGED <<hostVars, bound, sessionState, mode, capabilityVars, looping, focusVars, disposed, outcome, ended>>

(* The interval of any wait checks all of them. *)
CheckWaits ==
  /\ Quiet /\ Reached # {}
  /\ SettleWaits(Reached, TRUE)
  /\ UNCHANGED <<hostVars, bound, sessionState, mode, capabilityVars, looping, focusVars, disposed, outcome, ended>>

-----------------------------------------------------------------------------
(* What the world does *)

(* A session that was launched appears, after its timeout too. *)
SessionAppears ==
  /\ Quiet /\ ~HasSession
  /\ \/ \E s \in live : hostSession' = s /\ UNCHANGED live
     \/ /\ calm => Waiting = {} /\ "events" \in offers
        /\ hostSession' = App /\ live' = live \cup {App}
  /\ visible' = TRUE
  /\ UNCHANGED <<offers, calm, sessionVars, capabilityVars, looping, focusVars, disposed, callVars>>

SessionGoes ==
  /\ Quiet
  /\ \E s \in live : MayEnd(s) /\ live' = live \ {s} /\ hostSession' = IF hostSession = s THEN None ELSE hostSession
  /\ UNCHANGED <<offers, calm, visible, sessionVars, capabilityVars, looping, focusVars, disposed, callVars>>

(* The visibility signal, where the host has one to subscribe to. *)
HandleVisibilityChange ==
  /\ Quiet /\ "events" \in offers /\ ~disposed
  /\ visible' \in BOOLEAN
  /\ Refresh
  /\ SyncSessionState
  /\ SettleWaits(Reached, TRUE)
  /\ UNCHANGED <<offers, calm, live, hostSession, overrides, looping, focusVars, disposed, outcome, ended>>

-----------------------------------------------------------------------------
(* The bridge system, the capabilities and dispose *)

(* ServiceBridgeSystem.update: the bridge is the world's, and outlives the *)
(* adapter.                                                                *)
Update ==
  /\ Quiet
  /\ focused # {HasSession /\ visible}
  /\ focused' = {HasSession /\ visible}
  /\ paused' = ~(HasSession /\ visible)
  /\ UNCHANGED <<hostVars, sessionVars, capabilityVars, looping, disposed, callVars>>

RefreshCapabilities ==
  /\ Quiet /\ ~disposed
  /\ Refresh
  /\ UNCHANGED <<hostVars, sessionState, mode, waiters, overrides, looping, focusVars, disposed, callVars>>

SetCapabilities ==
  /\ Quiet /\ ~disposed
  /\ \E b \in Override : overrides' = {b} /\ immersive' = b
  /\ UNCHANGED <<hostVars, sessionVars, derived, looping, focusVars, disposed, callVars>>

ClearCapabilityOverrides ==
  /\ Quiet /\ ~disposed /\ overrides # {}
  /\ overrides' = {}
  /\ immersive' = Effective(derived, {})
  /\ UNCHANGED <<hostVars, sessionVars, derived, looping, focusVars, disposed, callVars>>

Dispose ==
  /\ Quiet /\ ~disposed /\ ~calm
  /\ disposed' = TRUE
  /\ bound' = None
  /\ SettleWaits({c \in Call : phase[c] \in {"opening", "ending"}}, FALSE)
  /\ overrides' = {}
  /\ UNCHANGED <<hostVars, sessionState, mode, derived, immersive, looping, focusVars, outcome, ended>>

-----------------------------------------------------------------------------
Settles == CheckWaits
Continues == \/ \E r \in Request : SwitchContinues(r) \/ Started(r) \/ Missed(r)
             \/ \E c \in Call : EndIsOver(c)
TimesOut == \E c \in Call : WaitTimesOut(c)

Next ==
  \/ \E r \in Request : RequestSameMode(r) \/ RequestWithSwitch(r) \/ RequestFresh(r)
  \/ \E e \in End : EndSession(e)
  \/ Settles \/ Continues \/ TimesOut
  \/ SessionAppears \/ SessionGoes \/ HandleVisibilityChange
  \/ Update \/ RefreshCapabilities \/ SetCapabilities \/ ClearCapabilityOverrides \/ Dispose
=============================================================================
