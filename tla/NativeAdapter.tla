--------------------------- MODULE NativeAdapter ---------------------------
(***************************************************************************)
(* The adapter of a native XR host                                         *)
(* (packages/service-framework-native/src/native-runtime-adapter.ts):      *)
(* requests, switches, refusals, timeouts and disposal over a host that    *)
(* answers when it likes.                                                  *)
(*                                                                         *)
(* A handler runs to its end before the next one, except that              *)
(* handleSessionChange tells its state listeners halfway: a listener may   *)
(* call the adapter, and the host may answer that call before it returns.  *)
(* `handling' is the stack of handlers that wait for their listeners.  The *)
(* continuation of a promise is a job of its own; Hermes runs it from      *)
(* setImmediate, so timers and host calls may come before it.              *)
(*                                                                         *)
(* Information about a session is reduced to its state, capabilities to    *)
(* `immersive'.                                                            *)
(***************************************************************************)
EXTENDS Naturals, Sequences

CONSTANTS
  Request,     \* calls of session.request
  End,         \* calls of session.end
  Mode,        \* session modes
  ModeOf,      \* the mode a call asks for
  None,        \* no mode, no request
  HostState,   \* bound: the states this host goes through
  Override,    \* bound: the values setCapabilities forces
  Concurrent,  \* whether a request is made while another waits
  Nested,      \* whether listeners call the adapter back
  Disposes,    \* whether the app disposes of the adapter
  Foreign,     \* whether the host starts sessions nobody asked for
  JobsFirst,   \* whether jobs run before the next task, as microtasks do
  MaxFrames    \* bound: frames passed on

Live == {"ready", "synchronized", "visible", "focused"}
AnyHostState == {"none", "idle", "stopping", "exiting"} \cup Live
Failure == {"refused", "timeout", "error"}

ASSUME NativeAssumption ==
  /\ ModeOf \in [Request -> Mode]
  /\ None \notin Mode /\ None \notin Request
  /\ Request \cap End = {}
  /\ HostState \subseteq AnyHostState
  /\ Override \subseteq BOOLEAN
  /\ Concurrent \in BOOLEAN /\ Nested \in BOOLEAN
  /\ Disposes \in BOOLEAN /\ Foreign \in BOOLEAN /\ JobsFirst \in BOOLEAN
  /\ MaxFrames \in Nat

VARIABLES
  hostState,   \* the host's session
  hostMode,    \* and its mode, None when the host chose it
  asks,        \* requests the host has not answered
  endAsked,    \* it was asked to end the session and has not answered
  info,        \* the state the adapter last read
  sessionState, mode, pendingMode, requesting, pending,
  timers,      \* the requests whose timer is armed
  switchRefusal,  \* the switch a refusal would settle
  endWaiters,
  jobs,        \* continuations of the ends that have resolved
  handling,    \* calls of handleSessionChange in their listeners, innermost first
  answering,   \* depth of `handling' at which the host is being called, 0 for none
  derived,     \* the host state capabilities were derived from
  overrides,   \* the forced value of `immersive', if any
  immersive,   \* as last published
  focused,     \* a set: empty until it is known
  frame,
  disposed,
  outcome,     \* of each request's promise
  ended        \* of each end's

hostVars == <<hostState, hostMode, asks, endAsked>>
requestVars == <<pendingMode, requesting, pending, timers, switchRefusal>>
stateVars == <<sessionState, mode>>
endVars == <<endWaiters, jobs, ended>>
viewVars == <<info, derived, overrides, immersive, focused, frame>>
callVars == <<handling, answering>>
vars == <<hostVars, requestVars, stateVars, endVars, viewVars, callVars, disposed, outcome>>

SessionState == {"none", "requesting", "active", "ending"}

TypeOK ==
  /\ hostState \in AnyHostState
  /\ hostMode \in Mode \cup {None}
  /\ asks \subseteq Request
  /\ endAsked \in BOOLEAN
  /\ info \in AnyHostState /\ derived \in AnyHostState
  /\ sessionState \in SessionState
  /\ mode \in Mode \cup {None} /\ pendingMode \in Mode \cup {None}
  /\ requesting \in BOOLEAN
  /\ pending \in Request \cup {None} /\ switchRefusal \in Request \cup {None}
  /\ timers \subseteq Request
  /\ endWaiters \in Seq(Request \cup End) /\ jobs \in Seq(Request \cup End)
  /\ handling \in Seq([info : AnyHostState, state : SessionState, told : BOOLEAN])
  /\ answering \in Nat
  /\ overrides \in SUBSET BOOLEAN /\ immersive \in BOOLEAN
  /\ focused \in SUBSET BOOLEAN
  /\ frame \in Nat
  /\ disposed \in BOOLEAN
  /\ outcome \in [Request -> {"idle", "waiting", "ok"} \cup Failure]
  /\ ended \in [End -> {"idle", "waiting", "done"}]

-----------------------------------------------------------------------------
(* Conversions *)

ToSessionState(s, isRequesting) ==
  CASE s \in {"none", "idle"} -> IF isRequesting THEN "requesting" ELSE "none"
    [] s \in {"stopping", "exiting"} -> "ending"
    [] s \in Live -> "active"

(* What publishCapabilities publishes. *)
Effective(s, forced) == IF forced = {} THEN s \in Live ELSE forced = {TRUE}

-----------------------------------------------------------------------------
Init ==
  /\ hostState \in HostState \ {"exiting"}
  /\ hostMode = None
  /\ asks = {} /\ endAsked = FALSE
  /\ info = hostState /\ derived = hostState
  /\ sessionState = ToSessionState(hostState, FALSE)
  /\ mode = None /\ pendingMode = None /\ requesting = FALSE
  /\ pending = None /\ timers = {} /\ switchRefusal = None
  /\ endWaiters = <<>> /\ jobs = <<>>
  /\ handling = <<>> /\ answering = 0
  /\ overrides = {} /\ immersive = (hostState \in Live)
  /\ focused = {} /\ frame = 0
  /\ disposed = FALSE
  /\ outcome = [r \in Request |-> "idle"]
  /\ ended = [e \in End |-> "idle"]

-----------------------------------------------------------------------------
(* Pieces of handlers *)

(* The engine starts a task. *)
Quiet == handling = <<>> /\ (JobsFirst => jobs = <<>>)

(* Application code runs: in a task of its own, or in a state listener. *)
AppRuns ==
  /\ ~disposed
  /\ Quiet \/ (Nested /\ Len(handling) = 1 /\ Head(handling).told)

(* A promise settles once. *)
Settled(f, r, result) == [f EXCEPT ![r] = IF @ = "waiting" THEN result ELSE @]

SetState(next) ==
  /\ sessionState' = next
  /\ mode' = IF next = "none" /\ sessionState # "none" THEN None ELSE mode

CallsHost == answering' = Len(handling)

\* Mutant of BeginRequest: the adapter has one timer, not one per request.
BeginWithOneTimer(r) ==
  /\ timers' = {r}
  /\ pending' = r
  /\ pendingMode' = ModeOf[r]
  /\ requesting' = TRUE
  /\ SetState("requesting")
  /\ asks' = asks \cup {r}
  /\ CallsHost

\* Mutant of BeginRequest: a mode that is pending is not replaced.
BeginKeepsMode(r) ==
  /\ timers' = timers \cup {r}
  /\ pending' = r
  /\ pendingMode' = IF pendingMode = None THEN ModeOf[r] ELSE pendingMode
  /\ requesting' = TRUE
  /\ SetState("requesting")
  /\ asks' = asks \cup {r}
  /\ CallsHost

BeginRequest(r) ==
  /\ timers' = timers \cup {r}
  /\ pending' = r
  /\ pendingMode' = ModeOf[r]
  /\ requesting' = TRUE
  /\ SetState("requesting")
  /\ asks' = asks \cup {r}
  /\ CallsHost

(* The continuations of the promises that resolve: a switch goes on, the   *)
(* caller of end() does nothing the adapter knows of.                      *)
SettleEndWaiters ==
  /\ endWaiters' = <<>>
  /\ jobs' = jobs \o endWaiters
  /\ ended' = [e \in End |-> IF \E k \in 1 .. Len(endWaiters) : endWaiters[k] = e
                             THEN "done" ELSE ended[e]]

-----------------------------------------------------------------------------
(* session.request *)

MayRequest(r) ==
  /\ AppRuns
  /\ outcome[r] = "idle"
  /\ Concurrent \/ \A q \in Request : outcome[q] # "waiting"

RequestSameMode(r) ==
  /\ MayRequest(r)
  /\ sessionState = "active" /\ mode = ModeOf[r]
  /\ outcome' = [outcome EXCEPT ![r] = "ok"]
  /\ UNCHANGED <<hostVars, requestVars, stateVars, endVars, viewVars, callVars, disposed>>

RequestWhileBusy(r) ==
  /\ MayRequest(r)
  /\ sessionState \in {"requesting", "ending"}
  /\ outcome' = [outcome EXCEPT ![r] = "error"]
  /\ UNCHANGED <<hostVars, requestVars, stateVars, endVars, viewVars, callVars, disposed>>

RequestFresh(r) ==
  /\ MayRequest(r)
  /\ sessionState = "none"
  /\ outcome' = [outcome EXCEPT ![r] = "waiting"]
  /\ BeginRequest(r)
  /\ UNCHANGED <<hostState, hostMode, endAsked, switchRefusal, endVars, viewVars, handling, disposed>>

RequestWithSwitch(r) ==
  /\ MayRequest(r)
  /\ sessionState = "active" /\ mode # ModeOf[r]
  /\ outcome' = [outcome EXCEPT ![r] = "waiting"]
  /\ switchRefusal' = r
  /\ endWaiters' = Append(endWaiters, r)
  /\ endAsked' = TRUE
  /\ CallsHost
  /\ UNCHANGED <<hostState, hostMode, asks, pendingMode, requesting, pending, timers, stateVars,
                 jobs, ended, viewVars, handling, disposed>>

(* The next continuation.  A switch asks for its session, unless a refusal *)
(* has settled the request, and clears switchRefusal whoever set it.       *)
SwitchContinues ==
  /\ handling = <<>> /\ jobs # <<>>
  /\ jobs' = Tail(jobs)
  /\ LET r == Head(jobs)
     IN IF r \in Request /\ outcome[r] = "waiting"
        THEN switchRefusal' = None /\ BeginRequest(r)
        ELSE UNCHANGED <<requestVars, stateVars, asks, answering>>
  /\ UNCHANGED <<hostState, hostMode, endAsked, endWaiters, ended, viewVars, handling, disposed, outcome>>

RequestTimeout(r) ==
  /\ Quiet
  /\ r \in timers
  /\ timers' = timers \ {r}
  /\ pending' = None /\ pendingMode' = None /\ requesting' = FALSE
  /\ SetState("none")
  /\ outcome' = Settled(outcome, r, "timeout")
  /\ UNCHANGED <<hostVars, switchRefusal, endVars, viewVars, callVars, disposed>>

-----------------------------------------------------------------------------
(* session.end, the capabilities and dispose *)

EndSession(e) ==
  /\ AppRuns
  /\ ended[e] = "idle"
  /\ IF sessionState = "none"
     THEN /\ ended' = [ended EXCEPT ![e] = "done"]
          /\ UNCHANGED <<endWaiters, endAsked, answering>>
     ELSE /\ ended' = [ended EXCEPT ![e] = "waiting"]
          /\ endWaiters' = Append(endWaiters, e)
          /\ endAsked' = TRUE
          /\ CallsHost
  /\ UNCHANGED <<hostState, hostMode, asks, requestVars, stateVars, jobs, viewVars, handling,
                 disposed, outcome>>

SetCapabilities ==
  /\ Quiet /\ ~disposed
  /\ \E b \in Override : overrides' = {b} /\ immersive' = b
  /\ UNCHANGED <<hostVars, requestVars, stateVars, endVars, info, derived, focused, frame,
                 callVars, disposed, outcome>>

ClearCapabilityOverrides ==
  /\ Quiet /\ overrides # {}
  /\ overrides' = {}
  /\ immersive' = Effective(derived, {})
  /\ UNCHANGED <<hostVars, requestVars, stateVars, endVars, info, derived, focused, frame,
                 callVars, disposed, outcome>>

(* By the app, or on a change of input sources. *)
RefreshCapabilities ==
  /\ Quiet
  /\ info' = hostState
  /\ derived' = hostState
  /\ immersive' = Effective(hostState, overrides)
  /\ UNCHANGED <<hostVars, requestVars, stateVars, endVars, overrides, focused, frame,
                 callVars, disposed, outcome>>

(* The session state and the `requesting' flag stay as they are. *)
Dispose ==
  /\ AppRuns /\ Disposes
  /\ disposed' = TRUE
  /\ IF pending # None
     THEN /\ timers' = timers \ {pending}
          /\ outcome' = Settled(outcome, pending, "error")
          /\ pending' = None
     ELSE UNCHANGED <<timers, outcome, pending>>
  /\ SettleEndWaiters
  /\ overrides' = {}
  /\ UNCHANGED <<hostVars, pendingMode, requesting, switchRefusal, stateVars, info, derived,
                 immersive, focused, frame, callVars>>

-----------------------------------------------------------------------------
(* What the host reports *)

\* Mutant of HandleSessionChange: the timer of a granted request stays armed.
GrantKeepsTimer(s) ==
  LET next == ToSessionState(s, requesting)
      granted == next = "active" /\ pending # None
  IN /\ info' = s
     /\ sessionState' = next
     /\ IF granted
        THEN /\ pending' = None /\ requesting' = FALSE /\ pendingMode' = None
             /\ outcome' = Settled(outcome, pending, "ok")
             /\ mode' = pendingMode
        ELSE /\ mode' = IF next = "none" /\ sessionState # "none" THEN None ELSE mode
             /\ UNCHANGED <<pending, requesting, pendingMode, outcome>>
     /\ handling' = <<[info |-> s, state |-> next, told |-> next # sessionState]>> \o handling
     /\ UNCHANGED timers

(* handleSessionChange up to its state listeners. *)
HandleSessionChange(s) ==
  LET next == ToSessionState(s, requesting)
      granted == next = "active" /\ pending # None
  IN /\ info' = s
     /\ sessionState' = next
     /\ IF granted
        THEN /\ timers' = timers \ {pending}
             /\ pending' = None /\ requesting' = FALSE /\ pendingMode' = None
             /\ outcome' = Settled(outcome, pending, "ok")
             /\ mode' = pendingMode
        ELSE /\ mode' = IF next = "none" /\ sessionState # "none" THEN None ELSE mode
             /\ UNCHANGED <<timers, pending, requesting, pendingMode, outcome>>
     /\ handling' = <<[info |-> s, state |-> next, told |-> next # sessionState]>> \o handling

\* Mutant of FinishSessionChange: end() resolves when the session is ending.
FinishTellsEarly ==
  /\ handling # <<>>
  /\ LET call == Head(handling)
     IN /\ derived' = call.info
        /\ immersive' = Effective(call.info, overrides)
        /\ IF call.state \in {"ending", "none"} THEN SettleEndWaiters ELSE UNCHANGED endVars
  /\ focused' = {info = "focused"}
  /\ handling' = Tail(handling)
  /\ answering' = IF answering = Len(handling) THEN 0 ELSE answering
  /\ UNCHANGED <<hostVars, requestVars, stateVars, info, overrides, frame, disposed, outcome>>

(* The rest of it, with the info and the state it was called with. *)
FinishSessionChange ==
  /\ handling # <<>>
  /\ LET call == Head(handling)
     IN /\ derived' = call.info
        /\ immersive' = Effective(call.info, overrides)
        /\ IF call.state = "none" THEN SettleEndWaiters ELSE UNCHANGED endVars
  /\ focused' = {info = "focused"}
  /\ handling' = Tail(handling)
  /\ answering' = IF answering = Len(handling) THEN 0 ELSE answering
  /\ UNCHANGED <<hostVars, requestVars, stateVars, info, overrides, frame, disposed, outcome>>

(* The host calls the adapter: in a task of its own, or before it returns  *)
(* from a call a listener made.                                            *)
HostRuns == Quiet \/ (handling # <<>> /\ answering = Len(handling))

HostMoves(s) ==
  /\ HostRuns
  /\ s \in HostState
  /\ hostState' = s
  /\ IF disposed
     THEN UNCHANGED <<info, stateVars, requestVars, outcome, handling>>
     ELSE HandleSessionChange(s) /\ UNCHANGED switchRefusal
  /\ UNCHANGED <<endVars, derived, overrides, immersive, focused, frame, answering, disposed>>

(* A session begins because it was asked for, or on its own. *)
HostBegins ==
  /\ hostState \in {"none", "idle"}
  /\ HostMoves("ready")
  /\ \/ \E r \in asks : hostMode' = ModeOf[r] /\ asks' = asks \ {r}
     \/ Foreign /\ hostMode' = None /\ UNCHANGED asks
  /\ UNCHANGED endAsked

HostChanges ==
  /\ \/ /\ hostState \in Live
        /\ \E s \in Live \ {hostState, "ready"} : HostMoves(s)
        /\ UNCHANGED <<hostMode, endAsked>>
     \/ /\ \E s \in AnyHostState :
             /\ <<hostState, s>> \in {<<"none", "idle">>, <<"idle", "none">>,
                                    <<"idle", "exiting">>, <<"exiting", "none">>}
             /\ HostMoves(s)
        /\ UNCHANGED <<hostMode, endAsked>>
  /\ UNCHANGED asks

(* The session stops in its order, or is lost. *)
HostEnds ==
  /\ \/ hostState \in Live /\ \E s \in {"stopping", "none"} : HostMoves(s)
     \/ hostState = "stopping" /\ \E s \in {"idle", "none"} : HostMoves(s)
  /\ endAsked' = FALSE
  /\ hostMode' = IF hostState' = "stopping" THEN hostMode ELSE None
  /\ UNCHANGED asks

\* Mutant of HandleRefusal: a switch has no refusal of its own.
RefusePendingOnly ==
  IF pending # None
  THEN /\ pending' = None /\ pendingMode' = None /\ requesting' = FALSE
       /\ timers' = timers \ {pending}
       /\ SetState("none")
       /\ outcome' = Settled(outcome, pending, "refused")
       /\ UNCHANGED switchRefusal
  ELSE UNCHANGED <<requestVars, stateVars, outcome>>

(* handleRefusal: the refusal names no request. *)
HandleRefusal ==
  IF switchRefusal # None
  THEN /\ switchRefusal' = None
       /\ outcome' = Settled(outcome, switchRefusal, "refused")
       /\ UNCHANGED <<pending, pendingMode, requesting, timers, stateVars>>
  ELSE IF pending # None
  THEN /\ pending' = None /\ pendingMode' = None /\ requesting' = FALSE
       /\ timers' = timers \ {pending}
       /\ SetState("none")
       /\ outcome' = Settled(outcome, pending, "refused")
       /\ UNCHANGED switchRefusal
  ELSE UNCHANGED <<requestVars, stateVars, outcome>>

HostRefuses ==
  /\ HostRuns
  /\ \/ \E r \in asks : asks' = asks \ {r} /\ UNCHANGED endAsked
     \/ endAsked /\ endAsked' = FALSE /\ UNCHANGED asks
  /\ IF disposed THEN UNCHANGED <<requestVars, stateVars, outcome>> ELSE HandleRefusal
  /\ UNCHANGED <<hostState, hostMode, endVars, viewVars, callVars, disposed>>

(* A frame counts, and is passed on, only in focus. *)
HostFrame ==
  /\ Quiet /\ ~disposed
  /\ focused' = {info = "focused"}
  /\ frame' = IF info = "focused" THEN frame + 1 ELSE frame
  /\ frame' <= MaxFrames
  /\ UNCHANGED <<hostVars, requestVars, stateVars, endVars, info, derived, overrides, immersive,
                 callVars, disposed, outcome>>

-----------------------------------------------------------------------------
App ==
  \/ \E r \in Request : \/ RequestSameMode(r) \/ RequestWhileBusy(r)
                        \/ RequestFresh(r) \/ RequestWithSwitch(r)
  \/ \E e \in End : EndSession(e)
  \/ SetCapabilities \/ ClearCapabilityOverrides \/ RefreshCapabilities
  \/ Dispose

Host == HostBegins \/ HostChanges \/ HostEnds \/ HostRefuses \/ HostFrame

Engine ==
  \/ SwitchContinues \/ FinishSessionChange
  \/ \E r \in Request : RequestTimeout(r)

Next == App \/ Host \/ Engine

Spec == Init /\ [][Next]_vars

(* The engine runs its jobs and its timers, and handlers return. *)
EngineFairness ==
  /\ WF_vars(SwitchContinues)
  /\ WF_vars(FinishSessionChange)
  /\ \A r \in Request : SF_vars(RequestTimeout(r))

(* A host that is asked to end its session ends it or says that it won't,  *)
(* and a session that stops comes to its end.                              *)
AnswersEnd ==
  \/ endAsked /\ (HostEnds \/ (HostRefuses /\ ~endAsked'))
  \/ hostState = "stopping" /\ HostEnds

FairSpec == Spec /\ EngineFairness
ObligingSpec == FairSpec /\ WF_vars(AnswersEnd)
-----------------------------------------------------------------------------
(* Properties *)

Holds(s, x) == \E k \in 1 .. Len(s) : s[k] = x

(* Every promise that is not settled has something that will settle it: a  *)
(* request its timer, the end it waits for or the job that follows, an end *)
(* its place among the waiters - however requests overlap, overwrite       *)
(* `pending' and `switchRefusal', and whenever the adapter is disposed.    *)
NothingForgotten ==
  /\ \A r \in Request : outcome[r] = "waiting" =>
       r \in timers \/ Holds(endWaiters, r) \/ Holds(jobs, r)
  /\ \A e \in End : ended[e] = "waiting" => Holds(endWaiters, e)

(* A request that resolves ok leaves the adapter active in the mode it     *)
(* asked for (297-313, 375-378), whatever overwrote `pending' before.      *)
GrantedIsLive ==
  [][\A r \in Request : (outcome[r] # "ok" /\ outcome'[r] = "ok") =>
        sessionState' = "active" /\ mode' = ModeOf[r]]_vars

(* native-runtime-adapter.ts:69: "`immersive` and the state must agree".   *)
(* They do between tasks, but for overrides: the state is set by session   *)
(* changes, timers and refusals, capabilities by session changes alone.    *)
ImmersiveAgrees ==
  (handling = <<>> /\ ~disposed /\ overrides = {}) =>
    (immersive <=> sessionState = "active")

(* Every request resolves: README.md:57, "with `timeout` after 10 seconds  *)
(* of silence".                                                            *)
EveryRequestSettles ==
  \A r \in Request : outcome[r] = "waiting" ~> outcome[r] # "waiting"

(* The adapter as SessionContract sees it. *)
Contract == INSTANCE SessionContract WITH
  state <- sessionState,
  mode <- IF sessionState = "active" THEN {mode} \ {None} ELSE {},
  outcome <- [r \in Request |-> IF outcome[r] \in Failure THEN "failed" ELSE outcome[r]],
  ended <- ended

(* The adapter keeps the contract of runtime-adapter.ts: a session that    *)
(* goes live while a request is at the host answers it, a failing request  *)
(* never takes a live session with it, end() resolves when it is gone.     *)
ContractKept == Contract!Spec

=============================================================================
