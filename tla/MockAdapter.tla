---------------------------- MODULE MockAdapter -----------------------------
(***************************************************************************)
(* The adapter services are tested with                                    *)
(* (packages/service-framework/src/mock-runtime-adapter.ts): a session in  *)
(* memory, that a test starts and ends.  A timer belongs to its request,   *)
(* pendingRequest to the last one.                                         *)
(***************************************************************************)
EXTENDS AdapterState

VARIABLES pendingRequest, requestedMode

mockVars == <<pendingRequest, requestedMode>>
engineVars == <<hostVars, bound, waiters, capabilityVars, looping, focusVars, disposed>>

Init ==
  /\ StartsWith(None) /\ offers = {}
  /\ pendingRequest = None /\ requestedMode = None

(* Unlike the other adapters', it keeps the mode. *)
SetSessionState(next) == sessionState' = next

\* Mutant of SimulateSessionStart: the timer of the request is left armed.
StartKeepsTimer ==
  /\ Quiet /\ (calm => pendingRequest # None)
  /\ SetSessionState("active")
  /\ mode' = IF requestedMode = None THEN mode ELSE requestedMode
  /\ IF pendingRequest = None
     THEN UNCHANGED <<mockVars, callVars>>
     ELSE /\ pendingRequest' = None /\ requestedMode' = None
          /\ phase' = [phase EXCEPT ![pendingRequest] = "done"]
          /\ outcome' = [outcome EXCEPT ![pendingRequest] = "ok"]
          /\ UNCHANGED <<timers, ended>>
  /\ UNCHANGED engineVars

(* A session nobody asked for has the mode of the session before. *)
SimulateSessionStart ==
  /\ Quiet /\ (calm => pendingRequest # None)
  /\ SetSessionState("active")
  /\ mode' = IF requestedMode = None THEN mode ELSE requestedMode
  /\ IF pendingRequest = None
     THEN UNCHANGED <<mockVars, callVars>>
     ELSE /\ pendingRequest' = None /\ requestedMode' = None
          /\ timers' = timers \ {pendingRequest}
          /\ phase' = [phase EXCEPT ![pendingRequest] = "done"]
          /\ outcome' = [outcome EXCEPT ![pendingRequest] = "ok"]
          /\ UNCHANGED ended
  /\ UNCHANGED engineVars

SimulateSessionEnd ==
  /\ Quiet /\ sessionState # "none"
  /\ SetSessionState("none")
  /\ UNCHANGED <<engineVars, mode, mockVars, callVars>>

RequestSameMode(r) ==
  /\ MayCall(r)
  /\ sessionState = "active" /\ mode = ModeOf[r]
  /\ outcome' = [outcome EXCEPT ![r] = "ok"]
  /\ phase' = [phase EXCEPT ![r] = "done"]
  /\ UNCHANGED <<engineVars, sessionState, mode, mockVars, timers, ended>>

(* A session of another mode ends at once, and its listeners hear of it. *)
RequestSession(r) ==
  /\ MayCall(r)
  /\ ~(sessionState = "active" /\ mode = ModeOf[r])
  /\ mode' = IF sessionState = "active" THEN None ELSE mode
  /\ requestedMode' = ModeOf[r] /\ pendingRequest' = r
  /\ SetSessionState("requesting")
  /\ timers' = timers \cup {r}
  /\ phase' = [phase EXCEPT ![r] = "opening"]
  /\ outcome' = [outcome EXCEPT ![r] = "waiting"]
  /\ UNCHANGED <<engineVars, ended>>

(* The timer takes whatever request is pending with it. *)
RequestTimeout(r) ==
  /\ Quiet /\ ~calm
  /\ r \in timers
  /\ pendingRequest' = None /\ requestedMode' = None
  /\ SetSessionState("none")
  /\ timers' = timers \ {r}
  /\ phase' = [phase EXCEPT ![r] = "done"]
  /\ outcome' = [outcome EXCEPT ![r] = "failed"]
  /\ UNCHANGED <<engineVars, mode, ended>>

EndSession(e) ==
  /\ MayCall(e)
  /\ SetSessionState("none")
  /\ mode' = IF sessionState = "none" THEN mode ELSE None
  /\ phase' = [phase EXCEPT ![e] = "done"]
  /\ ended' = [ended EXCEPT ![e] = "done"]
  /\ UNCHANGED <<engineVars, mockVars, timers, outcome>>

TimesOut == \E r \in Request : RequestTimeout(r)

Next ==
  \/ SimulateSessionStart \/ SimulateSessionEnd
  \/ \E r \in Request : RequestSameMode(r) \/ RequestSession(r)
  \/ TimesOut
  \/ \E e \in End : EndSession(e)
=============================================================================
