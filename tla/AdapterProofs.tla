--------------------------- MODULE AdapterProofs ---------------------------
(***************************************************************************)
(* The adapters of the browser engines and the mock, for any number of     *)
(* calls, modes and overrides: published capabilities are those of the     *)
(* bound session, a timer belongs to a call in flight, whoever waits for   *)
(* the end of a session is settled with the host's promise, and a page is  *)
(* paused only by a session it is bound to.                                *)
(*                                                                         *)
(* What waits in the three.js adapter rests on bound: whoever waits, waits *)
(* for a session that is bound, and it is unbound only by what settles     *)
(* every waiter.  In IWSDK's it rests on the timers: every wait has one,   *)
(* and whatever takes the timer settles the wait.                          *)
(***************************************************************************)
EXTENDS MCAdapters, TLAPS

(* The adapters with neither the bound of the runs nor their calls. *)
Adapters == Init /\ [][Step]_allVars

USE DEF Three!Call, Three!Session, Three!Effective, Three!hostVars, Three!sessionVars,
        Three!capabilityVars, Three!focusVars, Three!callVars, Three!vars,
        Babylon!Call, Babylon!Session, Babylon!Effective, Babylon!hostVars, Babylon!sessionVars,
        Babylon!capabilityVars, Babylon!focusVars, Babylon!callVars, Babylon!vars,
        IWSDK!Call, IWSDK!Session, IWSDK!Effective, IWSDK!hostVars, IWSDK!sessionVars,
        IWSDK!capabilityVars, IWSDK!focusVars, IWSDK!callVars, IWSDK!vars,
        Mock!Call, Mock!Session, Mock!Effective, Mock!hostVars, Mock!sessionVars,
        Mock!capabilityVars, Mock!focusVars, Mock!callVars, Mock!vars,
        Call, Session, Effective, hostVars, sessionVars, capabilityVars, focusVars, callVars, vars

(* Calls, sessions and the absence of one are different things. *)
Distinct == None \notin Session /\ Request \cap End = {} /\ Override \subseteq BOOLEAN

CallTypes ==
  /\ phase \in [Call -> Jobs \cup Awaits]
  /\ outcome \in [Request -> {"idle", "waiting", "ok", "failed"}]

(* A timer runs while its request is being opened and has no outcome. *)
TimersRun ==
  /\ timers \subseteq Request
  /\ \A r \in timers : phase[r] \in {"asking", "opening", "setting"} /\ outcome[r] = "waiting"

WaitersWait ==
  /\ waiters \subseteq Call
  /\ waiters # {} => bound # None
  /\ \A c \in waiters : phase[c] = "ending"

(* The fallback of endSession reaches every waiter. *)
EndsSettle == \A c \in Call : phase[c] # "unsettled"

ThreeInv == CallTypes /\ CapabilitiesFollowSession /\ TimersRun /\ WaitersWait /\ EndsSettle

(* handleSessionEnd leaves nobody waiting and the capabilities of no        *)
(* session.                                                                 *)
LEMMA ThreeEndLeavesNobody ==
  ASSUME ThreeInv, Three!HandleSessionEnd, UNCHANGED overrides, UNCHANGED disposed
  PROVE  waiters' = {} /\ CapabilitiesFollowSession'
  BY DEF ThreeInv, CapabilitiesFollowSession, WaitersWait, Three!HandleSessionEnd, Three!SettleEndWaiters,
         Three!UpdateDerived

(* handleSessionStart binds a session and publishes its capabilities. *)
LEMMA ThreeStartBinds ==
  ASSUME NEW s, s # None, Three!HandleSessionStart(s), UNCHANGED overrides
  PROVE  bound' # None /\ waiters' = waiters /\ CapabilitiesFollowSession'
  BY DEF CapabilitiesFollowSession, Three!HandleSessionStart, Three!AttachSession, Three!UpdateDerived

(* A step that leaves the calls alone. *)
LEMMA ThreeCallsUntouched ==
  ASSUME ThreeInv, UNCHANGED callVars, CapabilitiesFollowSession',
         waiters' = {} \/ (waiters' = waiters /\ (bound' = bound \/ bound' # None))
  PROVE  ThreeInv'
  BY DEF ThreeInv, CallTypes, TimersRun, WaitersWait, EndsSettle

(* A step that leaves the session and the capabilities alone. *)
LEMMA ThreeSessionUntouched ==
  ASSUME ThreeInv, UNCHANGED <<bound, capabilityVars, disposed>>,
         CallTypes', TimersRun', WaitersWait', EndsSettle'
  PROVE  ThreeInv'
  BY DEF ThreeInv, CapabilitiesFollowSession

(* The request proper, of a call that waits for nothing. *)
LEMMA ThreeBeginKeeps ==
  ASSUME Distinct, ThreeInv, NEW r \in Request, phase[r] \in {"idle", "resume"}, Three!Begin(r),
         UNCHANGED <<bound, waiters, capabilityVars, disposed>>
  PROVE  ThreeInv'
PROOF
  <1>1. r \in Call /\ r \notin timers /\ r \notin waiters
    BY DEF ThreeInv, TimersRun, WaitersWait
  <1>2. CallTypes' /\ EndsSettle'
    BY <1>1 DEF ThreeInv, CallTypes, EndsSettle, Three!Begin, Jobs, Awaits
  <1>3. TimersRun'
    <2>1. CASE "enter" \notin offers
      BY <1>1, <2>1 DEF ThreeInv, CallTypes, TimersRun, Three!Begin
    <2>2. CASE "enter" \in offers
      <3>1. phase' = [phase EXCEPT ![r] = "asking"] /\ outcome' = [outcome EXCEPT ![r] = "waiting"]
            /\ timers' = timers \cup {r}
        BY <2>2 DEF Three!Begin
      <3> QED
        BY <1>1, <3>1 DEF ThreeInv, CallTypes, TimersRun
    <2> QED
      BY <2>1, <2>2
  <1>4. WaitersWait'
    BY <1>1 DEF ThreeInv, CallTypes, WaitersWait, Three!Begin
  <1> QED
    BY <1>2, <1>3, <1>4, ThreeSessionUntouched

(* session.request, up to its first await *)
LEMMA ThreeRequestKeeps ==
  ASSUME Distinct, ThreeInv, NEW r \in Request,
         Three!RequestSameMode(r) \/ Three!RequestWithSwitch(r) \/ Three!RequestFresh(r) \/ Three!SwitchContinues(r)
  PROVE  ThreeInv'
PROOF
  <1>1. CASE Three!RequestSameMode(r)
    <2>1. r \in Call /\ r \notin timers /\ r \notin waiters
      BY <1>1 DEF ThreeInv, TimersRun, WaitersWait, Three!RequestSameMode, Three!MayCall
    <2>2. CallTypes' /\ EndsSettle' /\ TimersRun' /\ WaitersWait'
      BY <1>1, <2>1
         DEF ThreeInv, CallTypes, EndsSettle, TimersRun, WaitersWait, Three!RequestSameMode, Jobs, Awaits
    <2> QED
      BY <1>1, <2>2, ThreeSessionUntouched DEF Three!RequestSameMode
  <1>2. CASE Three!RequestWithSwitch(r)
    <2>1. r \in Call /\ r \notin timers /\ r \notin waiters
      BY <1>2 DEF ThreeInv, TimersRun, WaitersWait, Three!RequestWithSwitch, Three!MayCall
    <2>2. /\ UNCHANGED <<bound, capabilityVars, disposed, timers>>
          /\ outcome' = [outcome EXCEPT ![r] = "waiting"]
          /\ \/ phase' = [phase EXCEPT ![r] = "resume"] /\ waiters' = waiters
             \/ phase' = [phase EXCEPT ![r] = "ending"] /\ waiters' = waiters \cup {r} /\ bound # None
      BY <1>2 DEF Three!RequestWithSwitch
    <2>3. CallTypes' /\ EndsSettle'
      BY <2>1, <2>2 DEF ThreeInv, CallTypes, EndsSettle, Jobs, Awaits
    <2>4. TimersRun'
      BY <2>1, <2>2 DEF ThreeInv, CallTypes, TimersRun
    <2>5. WaitersWait'
      BY <2>1, <2>2 DEF ThreeInv, CallTypes, WaitersWait
    <2> QED
      BY <2>2, <2>3, <2>4, <2>5, ThreeSessionUntouched
  <1>3. CASE Three!RequestFresh(r)
    BY <1>3, ThreeBeginKeeps DEF Three!RequestFresh, Three!MayCall
  <1>4. CASE Three!SwitchContinues(r)
    BY <1>4, ThreeBeginKeeps DEF Three!SwitchContinues
  <1> QED
    BY <1>1, <1>2, <1>3, <1>4

(* openSession and its timer: a request that is over has no timer. *)
LEMMA ThreeOpenKeeps ==
  ASSUME Distinct, ThreeInv, NEW r \in Request,
         \/ Three!RequestTimeout(r) \/ Three!HostSupports(r) \/ Three!HostOpens(r)
         \/ Three!HostFails(r) \/ Three!SessionIsSet(r)
  PROVE  ThreeInv'
PROOF
  <1>1. r \in Call
    OBVIOUS
  <1>2. CASE Three!RequestTimeout(r)
    <2>1. CallTypes' /\ EndsSettle' /\ TimersRun' /\ WaitersWait'
      BY <1>1, <1>2 DEF ThreeInv, CallTypes, EndsSettle, TimersRun, WaitersWait, Three!RequestTimeout
    <2> QED
      BY <1>2, <2>1, ThreeSessionUntouched DEF Three!RequestTimeout
  <1>3. CASE Three!HostSupports(r)
    <2>1. r \notin waiters
      BY <1>3 DEF ThreeInv, WaitersWait, Three!HostSupports
    <2>2. CallTypes' /\ EndsSettle' /\ TimersRun' /\ WaitersWait'
      BY <1>1, <1>3, <2>1
         DEF ThreeInv, CallTypes, EndsSettle, TimersRun, WaitersWait, Three!HostSupports, Jobs, Awaits
    <2> QED
      BY <1>3, <2>2, ThreeSessionUntouched DEF Three!HostSupports
  <1>4. CASE Three!HostOpens(r)
    <2>1. r \notin waiters
      BY <1>4 DEF ThreeInv, WaitersWait, Three!HostOpens
    <2>2. CallTypes' /\ EndsSettle' /\ TimersRun' /\ WaitersWait'
      BY <1>1, <1>4, <2>1
         DEF ThreeInv, CallTypes, EndsSettle, TimersRun, WaitersWait, Three!HostOpens, Jobs, Awaits
    <2> QED
      BY <1>4, <2>2, ThreeSessionUntouched DEF Three!HostOpens
  <1>5. CASE Three!HostFails(r)
    <2>1. r \notin waiters /\ UNCHANGED <<bound, waiters, capabilityVars, disposed>>
      BY <1>5 DEF ThreeInv, WaitersWait, Three!HostFails
    <2>2. /\ phase' = [phase EXCEPT ![r] = "done"]
          /\ \/ timers' = timers \ {r} /\ outcome' = [outcome EXCEPT ![r] = "failed"]
             \/ timers' = timers /\ outcome' = outcome /\ r \notin timers
      BY <1>5 DEF ThreeInv, TimersRun, Three!HostFails
    <2>3. CallTypes' /\ EndsSettle' /\ TimersRun' /\ WaitersWait'
      BY <1>1, <2>1, <2>2 DEF ThreeInv, CallTypes, EndsSettle, TimersRun, WaitersWait, Jobs, Awaits
    <2> QED
      BY <2>1, <2>3, ThreeSessionUntouched
  <1>6. CASE Three!SessionIsSet(r)
    <2>1. r \notin waiters /\ UNCHANGED <<waiters, overrides, disposed>> /\ bound' = r /\ bound' # None
      BY <1>6 DEF ThreeInv, WaitersWait, Three!SessionIsSet, Three!AttachSession, Distinct
    <2>2. /\ phase' = [phase EXCEPT ![r] = "done"]
          /\ \/ timers' = timers \ {r} /\ outcome' = [outcome EXCEPT ![r] = "ok"]
             \/ timers' = timers /\ outcome' = outcome /\ r \notin timers
      BY <1>6 DEF ThreeInv, TimersRun, Three!SessionIsSet
    <2>3. CallTypes' /\ EndsSettle' /\ TimersRun' /\ WaitersWait'
      BY <1>1, <2>1, <2>2 DEF ThreeInv, CallTypes, EndsSettle, TimersRun, WaitersWait, Jobs, Awaits
    <2>4. CapabilitiesFollowSession'
      BY <1>6, <2>1 DEF CapabilitiesFollowSession, Three!SessionIsSet, Three!UpdateDerived
    <2> QED
      BY <2>3, <2>4 DEF ThreeInv
  <1> QED
    BY <1>2, <1>3, <1>4, <1>5, <1>6

(* session.end: the waiters are gone when the host's promise has settled. *)
LEMMA ThreeEndKeeps ==
  ASSUME Distinct, ThreeInv
  PROVE  /\ \A e \in End : Three!EndSession(e) => ThreeInv'
         /\ \A c \in Call : Three!EndSettles(c) => ThreeInv'
PROOF
  <1>1. ASSUME NEW e \in End, Three!EndSession(e) PROVE ThreeInv'
    <2>1. e \in Call /\ e \notin timers /\ e \notin waiters
      BY <1>1 DEF ThreeInv, TimersRun, WaitersWait, Three!EndSession, Three!MayCall
    <2>2. /\ UNCHANGED <<bound, capabilityVars, disposed, timers, outcome>>
          /\ \/ phase' = [phase EXCEPT ![e] = "done"] /\ waiters' = waiters
             \/ phase' = [phase EXCEPT ![e] = "ending"] /\ waiters' = waiters \cup {e} /\ bound # None
      BY <1>1 DEF Three!EndSession
    <2>3. CallTypes' /\ EndsSettle'
      BY <2>1, <2>2 DEF ThreeInv, CallTypes, EndsSettle, Jobs, Awaits
    <2>4. TimersRun'
      BY <2>1, <2>2 DEF ThreeInv, CallTypes, TimersRun
    <2>5. WaitersWait'
      BY <2>1, <2>2 DEF ThreeInv, CallTypes, WaitersWait
    <2> QED
      BY <2>2, <2>3, <2>4, <2>5, ThreeSessionUntouched
  <1>2. ASSUME NEW c \in Call, Three!EndSettles(c) PROVE ThreeInv'
    <2>1. c \notin timers
      BY <1>2 DEF ThreeInv, TimersRun, Three!EndSettles
    <2>2. waiters' = {} /\ CapabilitiesFollowSession'
      BY <1>2, ThreeEndLeavesNobody DEF Three!EndSettles
    <2>3. UNCHANGED <<timers, outcome>>
          /\ (phase' = [phase EXCEPT ![c] = "resume"] \/ phase' = [phase EXCEPT ![c] = "done"])
      BY <1>2, <2>2 DEF Three!EndSettles
    <2>4. CallTypes' /\ EndsSettle'
      BY <2>3 DEF ThreeInv, CallTypes, EndsSettle, Jobs, Awaits
    <2>5. TimersRun'
      BY <2>1, <2>3 DEF ThreeInv, CallTypes, TimersRun
    <2>6. WaitersWait'
      BY <2>2 DEF WaitersWait
    <2> QED
      BY <2>2, <2>4, <2>5, <2>6 DEF ThreeInv
  <1> QED
    BY <1>1, <1>2

(* What the page and the renderer do changes no call. *)
LEMMA ThreeHostKeeps ==
  ASSUME Distinct, ThreeInv,
         \/ \E r \in Request : Three!ManagerStarts(r)
         \/ Three!PageOpens \/ Three!ManagerChanges \/ Three!SessionEnds \/ Three!VisibilityChanges
  PROVE  ThreeInv'
PROOF
  <1>1. CASE \E r \in Request : Three!ManagerStarts(r)
    <2>1. PICK r \in Request : Three!ManagerStarts(r)
      BY <1>1
    <2>2. r # None /\ UNCHANGED <<overrides, disposed, callVars>>
      BY <2>1 DEF Distinct, Three!ManagerStarts
    <2>3. CASE disposed
      BY <2>1, <2>2, <2>3, ThreeCallsUntouched DEF Three!ManagerStarts, CapabilitiesFollowSession
    <2>4. CASE ~disposed
      BY <2>1, <2>2, <2>4, ThreeStartBinds, ThreeCallsUntouched DEF Three!ManagerStarts
    <2> QED
      BY <2>3, <2>4
  <1>2. CASE Three!PageOpens
    <2>1. App # None /\ UNCHANGED <<overrides, disposed, callVars>>
      BY <1>2 DEF Distinct, Three!PageOpens
    <2>2. CASE disposed \/ "events" \notin offers
      <3>1. UNCHANGED <<bound, waiters, derived, immersive>>
        BY <1>2, <2>2 DEF Three!PageOpens
      <3>2. CapabilitiesFollowSession'
        BY <2>1, <3>1 DEF ThreeInv, CapabilitiesFollowSession
      <3> QED
        BY <2>1, <3>1, <3>2, ThreeCallsUntouched
    <2>3. CASE ~(disposed \/ "events" \notin offers)
      BY <1>2, <2>1, <2>3, ThreeStartBinds, ThreeCallsUntouched DEF Three!PageOpens
    <2> QED
      BY <2>2, <2>3
  <1>3. CASE Three!ManagerChanges \/ Three!VisibilityChanges
    BY <1>3, ThreeCallsUntouched
       DEF Three!ManagerChanges, Three!VisibilityChanges, ThreeInv, CapabilitiesFollowSession
  <1>4. CASE Three!SessionEnds
    <2>1. UNCHANGED <<overrides, disposed, callVars>>
          /\ (Three!HandleSessionEnd \/ UNCHANGED <<sessionVars, derived, immersive>>)
      BY <1>4 DEF Three!SessionEnds
    <2>2. CASE Three!HandleSessionEnd
      BY <2>1, <2>2, ThreeEndLeavesNobody, ThreeCallsUntouched
    <2>3. CASE UNCHANGED <<sessionVars, derived, immersive>>
      BY <2>1, <2>3, ThreeCallsUntouched DEF ThreeInv, CapabilitiesFollowSession
    <2> QED
      BY <2>1, <2>2, <2>3
  <1> QED
    BY <1>1, <1>2, <1>3, <1>4

(* A forced value is what is published. *)
LEMMA ForcedValue == ASSUME NEW b \in BOOLEAN PROVE (TRUE \in {b}) = b
PROOF
  <1>1. CASE b = TRUE
    BY <1>1, Zenon
  <1>2. CASE b = FALSE
    <2>1. ((TRUE \in {b}) = FALSE) <=> ~(TRUE \in {b})
      OBVIOUS
    <2>2. ~(TRUE \in {b})
      BY <1>2
    <2> QED
      BY <1>2, <2>1, <2>2
  <1> QED
    BY <1>1, <1>2

(* The frame loop, the capabilities and disposal *)
LEMMA ThreePageKeeps ==
  ASSUME Distinct, ThreeInv,
         \/ Three!StartLoop \/ Three!StopLoop \/ Three!Tick
         \/ Three!RefreshCapabilities \/ Three!SetCapabilities \/ Three!ClearCapabilityOverrides \/ Three!Dispose
  PROVE  ThreeInv'
PROOF
  <1>1. CASE Three!StartLoop \/ Three!StopLoop \/ Three!Tick
    BY <1>1, ThreeCallsUntouched
       DEF Three!StartLoop, Three!StopLoop, Three!Tick, ThreeInv, CapabilitiesFollowSession
  <1>2. CASE Three!RefreshCapabilities
    <2>1. UNCHANGED <<overrides, disposed, callVars>> /\ ~disposed
      BY <1>2 DEF Three!RefreshCapabilities
    <2>2. CASE hostSession # None
      <3>1. bound' # None /\ waiters' = waiters
        BY <1>2, <2>2 DEF Three!RefreshCapabilities, Three!AttachSession
      <3>2. CapabilitiesFollowSession'
        BY <1>2, <2>1, <2>2
           DEF Three!RefreshCapabilities, Three!AttachSession, Three!UpdateDerived, CapabilitiesFollowSession
      <3> QED
        BY <2>1, <3>1, <3>2, ThreeCallsUntouched
    <2>3. CASE hostSession = None /\ bound # None
      BY <1>2, <2>1, <2>3, ThreeEndLeavesNobody, ThreeCallsUntouched DEF Three!RefreshCapabilities
    <2>4. CASE hostSession = None /\ bound = None
      <3>1. bound' = bound /\ waiters' = waiters
        BY <1>2, <2>4 DEF Three!RefreshCapabilities
      <3>2. CapabilitiesFollowSession'
        BY <1>2, <2>1, <2>4, <3>1 DEF Three!RefreshCapabilities, Three!UpdateDerived, CapabilitiesFollowSession
      <3> QED
        BY <2>1, <3>1, <3>2, ThreeCallsUntouched
    <2> QED
      BY <2>2, <2>3, <2>4
  <1>3. CASE Three!SetCapabilities
    <2>1. PICK b \in Override : overrides' = {b} /\ immersive' = b
      BY <1>3 DEF Three!SetCapabilities
    <2>2. b \in BOOLEAN /\ UNCHANGED <<bound, waiters, derived, disposed, callVars>>
      BY <1>3, <2>1 DEF Three!SetCapabilities, Distinct
    <2>3. Effective(bound, overrides)' = b
      <3>1. Effective(bound, overrides)' = (TRUE \in overrides')
        BY <2>1, Zenon
      <3> QED
        BY <2>1, <2>2, <3>1, ForcedValue
    <2>4. CapabilitiesFollowSession'
      BY <2>1, <2>2, <2>3 DEF ThreeInv, CapabilitiesFollowSession
    <2> QED
      BY <2>2, <2>4, ThreeCallsUntouched
  <1>4. CASE Three!ClearCapabilityOverrides
    <2>1. UNCHANGED <<bound, waiters, derived, disposed, callVars>> /\ ~disposed
          /\ overrides' = {} /\ immersive' = Effective(derived, {})
      BY <1>4 DEF Three!ClearCapabilityOverrides
    <2>2. CapabilitiesFollowSession'
      BY <2>1 DEF ThreeInv, CapabilitiesFollowSession
    <2> QED
      BY <2>1, <2>2, ThreeCallsUntouched
  <1>5. CASE Three!Dispose
    BY <1>5, ThreeCallsUntouched DEF Three!Dispose, Three!SettleEndWaiters, CapabilitiesFollowSession
  <1> QED
    BY <1>1, <1>2, <1>3, <1>4, <1>5


(* Whatever the three.js adapter and its host do, its invariant stands. *)
LEMMA ThreeKeeps ==
  ASSUME Distinct, ThreeInv, Three!Next
  PROVE  ThreeInv'
  BY ThreeRequestKeeps, ThreeOpenKeeps, ThreeEndKeeps, ThreeHostKeeps, ThreePageKeeps
     DEF Three!Next, Three!Settles, Three!Continues, Three!TimesOut, Three!Answers

-----------------------------------------------------------------------------
(* The Babylon adapter: handleSessionStart and handleSessionEnd publish     *)
(* what they bind, wherever the helper's observers call them.               *)
LEMMA BabylonEndPublishes ==
  ASSUME CapabilitiesFollowSession, Babylon!HandleSessionEnd, UNCHANGED <<overrides, disposed>>
  PROVE  CapabilitiesFollowSession'
PROOF
  <1>1. CASE bound = None /\ sessionState = "none"
    <2>1. UNCHANGED <<bound, derived, immersive>>
      BY <1>1 DEF Babylon!HandleSessionEnd
    <2> QED
      BY <2>1 DEF CapabilitiesFollowSession
  <1>2. CASE ~(bound = None /\ sessionState = "none")
    BY <1>2 DEF CapabilitiesFollowSession, Babylon!HandleSessionEnd, Babylon!UpdateDerived
  <1> QED
    BY <1>1, <1>2

LEMMA BabylonStartPublishes ==
  ASSUME NEW s, Babylon!HandleSessionStart(s), UNCHANGED <<overrides, disposed>>
  PROVE  CapabilitiesFollowSession'
  BY DEF CapabilitiesFollowSession, Babylon!HandleSessionStart, Babylon!AttachSession, Babylon!UpdateDerived

LEMMA BabylonChangePublishes ==
  ASSUME CapabilitiesFollowSession, UNCHANGED <<overrides, disposed>>,
         NEW state \in {"out", "entering", "in", "exiting"}, Babylon!HandleStateChange(state)
  PROVE  CapabilitiesFollowSession'
PROOF
  <1>1. CASE UNCHANGED <<bound, derived, immersive>>
    BY <1>1 DEF CapabilitiesFollowSession
  <1>2. CASE Babylon!HandleSessionStart(hostSession)
    BY <1>2, BabylonStartPublishes
  <1>3. CASE Babylon!HandleSessionEnd
    BY <1>3, BabylonEndPublishes
  <1>4. CASE state \in {"entering", "exiting"}
    BY <1>1, <1>4 DEF Babylon!HandleStateChange
  <1>5. CASE state \in {"in", "out"}
    BY <1>1, <1>2, <1>3, <1>5 DEF Babylon!HandleStateChange
  <1> QED
    BY <1>4, <1>5

(* What does not change stays published. *)
LEMMA StillPublished ==
  ASSUME CapabilitiesFollowSession, UNCHANGED <<bound, derived, overrides, immersive, disposed>>
  PROVE  CapabilitiesFollowSession'
  BY DEF CapabilitiesFollowSession

(* setCapabilities publishes the forced value of the bound session. *)
LEMMA ForcedPublishes ==
  ASSUME Distinct, CapabilitiesFollowSession, UNCHANGED <<bound, derived, disposed>>,
         \E b \in Override : overrides' = {b} /\ immersive' = b
  PROVE  CapabilitiesFollowSession'
PROOF
  <1>1. PICK b \in Override : overrides' = {b} /\ immersive' = b
    OBVIOUS
  <1>2. b \in BOOLEAN
    BY DEF Distinct
  <1>3. (IF overrides' = {} THEN bound' # None ELSE TRUE \in overrides') = (TRUE \in overrides')
    BY <1>1, Zenon
  <1>4. (TRUE \in overrides') = b
    BY <1>1, <1>2, ForcedValue
  <1> QED
    BY <1>1, <1>3, <1>4 DEF CapabilitiesFollowSession

(* Whatever the Babylon adapter does, it publishes what it has bound. *)
LEMMA BabylonPublishes ==
  ASSUME Distinct, CapabilitiesFollowSession, Babylon!Next
  PROVE  CapabilitiesFollowSession'
PROOF
  <1>1. ASSUME NEW r \in Request,
               \/ Babylon!RequestSameMode(r) \/ Babylon!RequestWithSwitch(r) \/ Babylon!RequestFresh(r)
               \/ Babylon!NotSupported(r) \/ Babylon!SwitchContinues(r) \/ Babylon!RequestTimeout(r)
        PROVE  CapabilitiesFollowSession'
    <2>1. UNCHANGED <<derived, overrides, immersive, disposed>>
      BY <1>1 DEF Babylon!RequestSameMode, Babylon!RequestWithSwitch, Babylon!RequestFresh,
         Babylon!NotSupported, Babylon!SwitchContinues, Babylon!RequestTimeout
    <2>2. bound' = bound
      BY <1>1 DEF Babylon!RequestSameMode, Babylon!RequestWithSwitch, Babylon!RequestFresh,
         Babylon!NotSupported, Babylon!SwitchContinues, Babylon!RequestTimeout, Babylon!Exit
    <2> QED
      BY StillPublished, <2>1, <2>2
  <1>2. ASSUME NEW r \in Request, Babylon!IsSupported(r) PROVE CapabilitiesFollowSession'
    BY StillPublished, <1>2, BabylonChangePublishes DEF Babylon!IsSupported
  <1>3. ASSUME NEW r \in Request, Babylon!EnterFails(r) PROVE CapabilitiesFollowSession'
    <2>1. UNCHANGED <<overrides, disposed>> /\ (Babylon!HandleSessionEnd \/ UNCHANGED <<bound, derived, immersive>>)
      BY <1>3 DEF Babylon!EnterFails
    <2> QED
      BY StillPublished, <2>1, BabylonEndPublishes
  <1>4. ASSUME NEW r \in Request, Babylon!EnterSucceeds(r) PROVE CapabilitiesFollowSession'
    <2>1. CASE hostSession = None
      BY StillPublished, <1>4, <2>1 DEF Babylon!EnterSucceeds
    <2>2. CASE hostSession # None
      BY <1>4, <2>2
         DEF Babylon!EnterSucceeds, Babylon!AttachSession, Babylon!UpdateDerived, CapabilitiesFollowSession
    <2> QED
      BY <2>1, <2>2
  <1>5. ASSUME NEW e \in End, Babylon!EndSession(e) PROVE CapabilitiesFollowSession'
    BY StillPublished, <1>5 DEF Babylon!EndSession, Babylon!Exit
  <1>6. ASSUME NEW c \in Call, Babylon!EndSettles(c) PROVE CapabilitiesFollowSession'
    BY <1>6, BabylonEndPublishes DEF Babylon!EndSettles
  <1>7. CASE Babylon!AppEnters \/ Babylon!AppIsRefused \/ Babylon!EntersXR \/ Babylon!AppExits
    <2>1. /\ UNCHANGED <<overrides, disposed>>
          /\ \E state \in {"out", "entering", "in", "exiting"} : Babylon!HandleStateChange(state)
      BY <1>7 DEF Babylon!AppEnters, Babylon!AppIsRefused, Babylon!EntersXR, Babylon!AppExits
    <2> QED
      BY <2>1, BabylonChangePublishes
  <1>8. CASE Babylon!SessionInit
    BY StillPublished, <1>8, BabylonStartPublishes DEF Babylon!SessionInit
  <1>9. CASE Babylon!SessionEnds
    BY StillPublished, <1>9, BabylonEndPublishes DEF Babylon!SessionEnds
  <1>10. CASE Babylon!VisibilityChanges \/ Babylon!StartLoop \/ Babylon!StopLoop \/ Babylon!Tick
    BY StillPublished, <1>10 DEF Babylon!VisibilityChanges, Babylon!StartLoop, Babylon!StopLoop, Babylon!Tick
  <1>11. CASE Babylon!RefreshCapabilities
    <2>1. UNCHANGED <<overrides, disposed>>
      BY <1>11 DEF Babylon!RefreshCapabilities
    <2>2. CASE Babylon!HandleSessionEnd
      BY <2>1, <2>2, BabylonEndPublishes
    <2>3. CASE ~Babylon!HandleSessionEnd
      BY <1>11, <2>3 DEF Babylon!RefreshCapabilities, Babylon!AttachSession, Babylon!UpdateDerived,
         CapabilitiesFollowSession
    <2> QED
      BY <2>2, <2>3
  <1>12. CASE Babylon!SetCapabilities
    BY <1>12, ForcedPublishes DEF Babylon!SetCapabilities
  <1>13. CASE Babylon!ClearCapabilityOverrides
    BY <1>13 DEF Babylon!ClearCapabilityOverrides, CapabilitiesFollowSession
  <1>14. CASE Babylon!Dispose
    BY <1>14 DEF Babylon!Dispose, CapabilitiesFollowSession
  <1> QED
    BY <1>1, <1>2, <1>3, <1>4, <1>5, <1>6, <1>7, <1>8, <1>9, <1>10, <1>11, <1>12, <1>13, <1>14
       DEF Babylon!Next, Babylon!Settles, Babylon!Continues, Babylon!TimesOut

(* A call goes on to its next await: its timer is gone by then, or is armed *)
(* now, or runs on.                                                         *)
CallGoesOn(c, next) ==
  /\ phase' = [phase EXCEPT ![c] = next]
  /\ \/ /\ timers' \subseteq timers \ {c}
        /\ \/ outcome' = outcome
           \/ \E o \in {"waiting", "ok", "failed"} : c \in Request /\ outcome' = [outcome EXCEPT ![c] = o]
     \/ /\ c \in Request /\ next = "asking"
        /\ timers' = timers \cup {c} /\ outcome' = [outcome EXCEPT ![c] = "waiting"]
     \/ next \in {"asking", "opening", "setting"} /\ timers' = timers /\ outcome' = outcome

LEMMA GoingOnKeepsTimers ==
  ASSUME CallTypes, TimersRun, NEW c \in Call, NEW next \in Jobs \cup Awaits, CallGoesOn(c, next)
  PROVE  CallTypes' /\ TimersRun'
PROOF
  <1>1. phase' = [phase EXCEPT ![c] = next] /\ phase \in [Call -> Jobs \cup Awaits]
    BY DEF CallGoesOn, CallTypes
  <1>2. CASE \/ timers' \subseteq timers \ {c} /\ outcome' = outcome
             \/ next \in {"asking", "opening", "setting"} /\ timers' = timers /\ outcome' = outcome
    BY <1>1, <1>2 DEF CallTypes, TimersRun
  <1>3. ASSUME NEW o \in {"waiting", "ok", "failed"}, timers' \subseteq timers \ {c},
               c \in Request, outcome' = [outcome EXCEPT ![c] = o]
        PROVE  CallTypes' /\ TimersRun'
    BY <1>1, <1>3 DEF CallTypes, TimersRun
  <1>4. CASE c \in Request /\ next = "asking" /\ timers' = timers \cup {c}
             /\ outcome' = [outcome EXCEPT ![c] = "waiting"]
    BY <1>1, <1>4 DEF CallTypes, TimersRun
  <1> QED
    BY <1>2, <1>3, <1>4 DEF CallGoesOn

(* A request of the Babylon adapter, one await after the other. *)
LEMMA BabylonRequestGoesOn ==
  ASSUME CallTypes, TimersRun, NEW r \in Request,
         \/ Babylon!RequestSameMode(r) \/ Babylon!RequestWithSwitch(r) \/ Babylon!RequestFresh(r)
         \/ Babylon!SwitchContinues(r) \/ Babylon!IsSupported(r) \/ Babylon!NotSupported(r)
         \/ Babylon!EnterFails(r) \/ Babylon!EnterSucceeds(r)
  PROVE  \E next \in Jobs \cup Awaits : CallGoesOn(r, next)
PROOF
  <1>1. (r \notin timers /\ Babylon!Begin(r)) => CallGoesOn(r, "asking") \/ CallGoesOn(r, "done")
    BY DEF Babylon!Begin, CallGoesOn
  <1>2. CASE Babylon!RequestFresh(r) \/ Babylon!SwitchContinues(r)
    BY <1>1, <1>2 DEF TimersRun, Babylon!RequestFresh, Babylon!SwitchContinues, Babylon!MayAsk, Babylon!MayCall,
       Jobs, Awaits
  <1>3. CASE Babylon!RequestSameMode(r)
    BY <1>3 DEF TimersRun, Babylon!RequestSameMode, Babylon!MayAsk, Babylon!MayCall, CallGoesOn, Awaits
  <1>4. CASE Babylon!RequestWithSwitch(r)
    BY <1>4 DEF TimersRun, Babylon!RequestWithSwitch, Babylon!Exit, Babylon!MayAsk, Babylon!MayCall,
       CallGoesOn, Jobs, Awaits
  <1>5. CASE Babylon!IsSupported(r)
    BY <1>5 DEF Babylon!IsSupported, CallGoesOn, Awaits
  <1>6. CASE Babylon!NotSupported(r)
    BY <1>6 DEF TimersRun, Babylon!NotSupported, CallGoesOn, Awaits
  <1>7. CASE Babylon!EnterFails(r)
    BY <1>7 DEF TimersRun, Babylon!EnterFails, CallGoesOn, Awaits
  <1>8. CASE Babylon!EnterSucceeds(r)
    BY <1>8 DEF TimersRun, Babylon!EnterSucceeds, CallGoesOn, Awaits
  <1> QED
    BY <1>2, <1>3, <1>4, <1>5, <1>6, <1>7, <1>8

(* No timer of the Babylon adapter outlives its request. *)
LEMMA BabylonKeepsTimers ==
  ASSUME Distinct, CallTypes, TimersRun, Babylon!Next
  PROVE  CallTypes' /\ TimersRun'
PROOF
  <1>1. ASSUME NEW r \in Request,
               \/ Babylon!RequestSameMode(r) \/ Babylon!RequestWithSwitch(r) \/ Babylon!RequestFresh(r)
               \/ Babylon!SwitchContinues(r) \/ Babylon!IsSupported(r) \/ Babylon!NotSupported(r)
               \/ Babylon!EnterFails(r) \/ Babylon!EnterSucceeds(r)
        PROVE  CallTypes' /\ TimersRun'
    BY <1>1, BabylonRequestGoesOn, GoingOnKeepsTimers
  <1>2. ASSUME NEW r \in Request, Babylon!RequestTimeout(r) PROVE CallTypes' /\ TimersRun'
    BY <1>2 DEF Babylon!RequestTimeout, CallTypes, TimersRun
  <1>3. ASSUME NEW e \in End, Babylon!EndSession(e) PROVE CallTypes' /\ TimersRun'
    <2>1. e \notin timers /\ e \in Call
      BY <1>3 DEF TimersRun, Distinct
    <2>2. CallGoesOn(e, "done") \/ CallGoesOn(e, "ending") \/ CallGoesOn(e, "exited")
      BY <1>3, <2>1 DEF Babylon!EndSession, Babylon!Exit, CallGoesOn
    <2> QED
      BY <2>1, <2>2, GoingOnKeepsTimers DEF Jobs, Awaits
  <1>4. ASSUME NEW c \in Call, Babylon!EndSettles(c) PROVE CallTypes' /\ TimersRun'
    <2>1. c \notin timers
      BY <1>4 DEF TimersRun, Babylon!EndSettles
    <2>2. CallGoesOn(c, "unsettled") \/ CallGoesOn(c, "resume") \/ CallGoesOn(c, "done")
      <3>1. UNCHANGED <<timers, outcome>>
        BY <1>4 DEF Babylon!EndSettles
      <3>2. \/ phase' = [phase EXCEPT ![c] = "unsettled"]
            \/ phase' = [phase EXCEPT ![c] = "resume"]
            \/ phase' = [phase EXCEPT ![c] = "done"]
        BY <1>4 DEF Babylon!EndSettles
      <3> QED
        BY <2>1, <3>1, <3>2 DEF CallGoesOn
    <2> QED
      BY <2>2, GoingOnKeepsTimers DEF Jobs, Awaits
  <1>5. CASE Babylon!SessionInit
    <2>1. PICK s \in Session : (IF s = App THEN phase' = phase
                                ELSE phase[s] = "opening" /\ phase' = [phase EXCEPT ![s] = "setting"])
      BY <1>5 DEF Babylon!SessionInit
    <2>2. UNCHANGED <<timers, outcome>>
      BY <1>5 DEF Babylon!SessionInit
    <2>3. CASE s = App
      BY <2>1, <2>2, <2>3 DEF CallTypes, TimersRun
    <2>4. CASE s # App
      <3>1. s \in Call /\ CallGoesOn(s, "setting")
        BY <2>1, <2>2, <2>4 DEF CallGoesOn
      <3> QED
        BY <3>1, GoingOnKeepsTimers DEF Awaits
    <2> QED
      BY <2>3, <2>4
  <1>6. CASE UNCHANGED <<phase, timers, outcome>>
    BY <1>6 DEF CallTypes, TimersRun
  <1> QED
    BY <1>1, <1>2, <1>3, <1>4, <1>5, <1>6
       DEF Babylon!Next, Babylon!Settles, Babylon!Continues, Babylon!TimesOut,
           Babylon!AppEnters, Babylon!AppIsRefused, Babylon!EntersXR, Babylon!AppExits, Babylon!SessionEnds,
           Babylon!VisibilityChanges, Babylon!StartLoop, Babylon!StopLoop, Babylon!Tick,
           Babylon!RefreshCapabilities, Babylon!SetCapabilities, Babylon!ClearCapabilityOverrides, Babylon!Dispose

-----------------------------------------------------------------------------
(* The manager of a page is paused by the focus of a bound session. *)
PausesEnd ==
  /\ visible \in BOOLEAN
  /\ paused => focused = {FALSE} /\ (disposed \/ bound # None)

(* A step that keeps the focus and leaves no paused page unbound. *)
LEMMA PauseStands ==
  ASSUME PausesEnd, visible' \in BOOLEAN, UNCHANGED focusVars,
         disposed' \/ (disposed' = disposed /\ (bound' = bound \/ bound' # None))
  PROVE  PausesEnd'
  BY DEF PausesEnd

(* handleSessionEnd resumes the page it has paused. *)
LEMMA EndResumes ==
  ASSUME PausesEnd, visible' \in BOOLEAN,
         \/ focused' = {} /\ paused' = (paused /\ focused # {FALSE})
         \/ UNCHANGED <<focused, paused, bound, disposed>>
  PROVE  PausesEnd'
PROOF
  <1>1. CASE focused' = {} /\ paused' = (paused /\ focused # {FALSE})
    <2>1. ~(paused /\ focused # {FALSE})
      BY DEF PausesEnd
    <2>2. ~paused'
      BY <1>1, <2>1
    <2> QED
      BY <2>2 DEF PausesEnd
  <1>2. CASE UNCHANGED <<focused, paused, bound, disposed>>
    BY <1>2 DEF PausesEnd
  <1> QED
    BY <1>1, <1>2

(* A frame tells the manager what is visible. *)
LEMMA FramePauses ==
  ASSUME PausesEnd, bound # None, UNCHANGED <<visible, bound, disposed>>,
         IF focused = {visible} THEN UNCHANGED focusVars ELSE focused' = {visible} /\ paused' = ~visible
  PROVE  PausesEnd'
PROOF
  <1>1. CASE focused = {visible}
    BY <1>1 DEF PausesEnd
  <1>2. CASE focused # {visible}
    BY <1>2 DEF PausesEnd
  <1> QED
    BY <1>1, <1>2

LEMMA ThreePauses ==
  ASSUME Distinct, PausesEnd, Three!Next
  PROVE  PausesEnd'
PROOF
  <1>1. ASSUME NEW r \in Request,
               \/ Three!RequestSameMode(r) \/ Three!RequestWithSwitch(r) \/ Three!RequestFresh(r)
               \/ Three!HostOpens(r) \/ Three!SwitchContinues(r) \/ Three!RequestTimeout(r)
               \/ Three!HostSupports(r) \/ Three!HostFails(r)
        PROVE  PausesEnd'
    <2>1. UNCHANGED <<focused, paused, disposed>>
      BY <1>1 DEF Three!RequestSameMode, Three!RequestWithSwitch, Three!RequestFresh, Three!HostOpens,
         Three!SwitchContinues, Three!RequestTimeout, Three!HostSupports, Three!HostFails
    <2>2. visible' = visible \/ visible' = TRUE
      BY <1>1 DEF Three!RequestSameMode, Three!RequestWithSwitch, Three!RequestFresh, Three!HostOpens,
         Three!SwitchContinues, Three!RequestTimeout, Three!HostSupports, Three!HostFails
    <2>3. bound' = bound
      BY <1>1 DEF Three!RequestSameMode, Three!RequestWithSwitch, Three!RequestFresh, Three!HostOpens,
         Three!SwitchContinues, Three!RequestTimeout, Three!HostSupports, Three!HostFails
    <2> QED
      BY <2>1, <2>2, <2>3, PauseStands DEF PausesEnd
  <1>2. ASSUME NEW r \in Request, Three!SessionIsSet(r) PROVE PausesEnd'
    <2>1. bound' = r /\ r # None /\ UNCHANGED <<focused, paused, visible, disposed>>
      BY <1>2 DEF Three!SessionIsSet, Three!AttachSession, Distinct
    <2> QED
      BY <2>1, PauseStands DEF PausesEnd
  <1>3. ASSUME NEW r \in Request, Three!ManagerStarts(r) PROVE PausesEnd'
    <2>1. UNCHANGED <<focused, paused, visible, disposed>> /\ r # None /\ (bound' = bound \/ bound' = r)
      BY <1>3 DEF Three!ManagerStarts, Three!HandleSessionStart, Three!AttachSession, Distinct
    <2> QED
      BY <2>1, PauseStands DEF PausesEnd
  <1>4. ASSUME NEW e \in End, Three!EndSession(e) PROVE PausesEnd'
    BY <1>4, PauseStands DEF Three!EndSession, PausesEnd
  <1>5. ASSUME UNCHANGED <<visible, disposed>>, Three!HandleSessionEnd PROVE PausesEnd'
    BY <1>5, EndResumes DEF PausesEnd, Three!HandleSessionEnd
  <1>6. ASSUME NEW c \in Call, Three!EndSettles(c) PROVE PausesEnd'
    BY <1>5, <1>6 DEF Three!EndSettles
  <1>7. CASE Three!PageOpens
    <2>1. visible' = TRUE /\ UNCHANGED <<focused, paused, disposed>> /\ App # None
          /\ (bound' = bound \/ bound' = App)
      BY <1>7 DEF Three!PageOpens, Three!HandleSessionStart, Three!AttachSession, Distinct
    <2> QED
      BY <2>1, PauseStands
  <1>8. CASE Three!ManagerChanges \/ Three!VisibilityChanges \/ Three!StartLoop \/ Three!StopLoop
             \/ Three!SetCapabilities \/ Three!ClearCapabilityOverrides
    <2>1. UNCHANGED <<focused, paused, disposed, bound>> /\ (visible' = visible \/ visible' = ~visible)
      BY <1>8 DEF Three!ManagerChanges, Three!VisibilityChanges, Three!StartLoop, Three!StopLoop,
         Three!SetCapabilities, Three!ClearCapabilityOverrides
    <2> QED
      BY <2>1, PauseStands DEF PausesEnd
  <1>9. CASE Three!SessionEnds
    <2>1. /\ UNCHANGED <<visible, disposed>>
          /\ Three!HandleSessionEnd \/ UNCHANGED <<bound, focused, paused>>
      BY <1>9 DEF Three!SessionEnds
    <2> QED
      BY <1>5, <2>1, PauseStands DEF PausesEnd
  <1>10. CASE Three!Tick
    <2>1. CASE bound = None
      BY <1>10, <2>1, PauseStands DEF Three!Tick, PausesEnd
    <2>2. CASE bound # None
      BY <1>10, <2>2, FramePauses DEF Three!Tick, Three!SetFocused
    <2> QED
      BY <2>1, <2>2
  <1>11. CASE Three!RefreshCapabilities
    <2>1. /\ UNCHANGED <<visible, disposed>>
          /\ \/ Three!HandleSessionEnd
             \/ UNCHANGED <<focused, paused>> /\ (bound' = bound \/ bound' # None)
      BY <1>11 DEF Three!RefreshCapabilities, Three!AttachSession
    <2> QED
      BY <1>5, <2>1, PauseStands DEF PausesEnd
  <1>12. CASE Three!Dispose
    BY <1>12, PauseStands DEF Three!Dispose, PausesEnd
  <1> QED
    BY <1>1, <1>2, <1>3, <1>4, <1>6, <1>7, <1>8, <1>9, <1>10, <1>11, <1>12
       DEF Three!Next, Three!Settles, Three!Continues, Three!TimesOut, Three!Answers

LEMMA BabylonEndResumes ==
  ASSUME PausesEnd, visible' \in BOOLEAN, UNCHANGED disposed, Babylon!HandleSessionEnd
  PROVE  PausesEnd'
  BY EndResumes DEF Babylon!HandleSessionEnd

(* Both of the helper's signals of a session bind one. *)
LEMMA BabylonStartPauses ==
  ASSUME PausesEnd, visible' \in BOOLEAN, UNCHANGED disposed, NEW s, s # None, Babylon!HandleSessionStart(s)
  PROVE  PausesEnd'
PROOF
  <1>1. bound' = s /\ UNCHANGED <<focused, paused>>
    BY DEF Babylon!HandleSessionStart, Babylon!AttachSession
  <1> QED
    BY <1>1, PauseStands

LEMMA BabylonChangePauses ==
  ASSUME PausesEnd, UNCHANGED <<visible, disposed>>,
         NEW state \in {"out", "entering", "in", "exiting"}, Babylon!HandleStateChange(state),
         state = "in" => hostSession # None
  PROVE  PausesEnd'
PROOF
  <1>1. visible' \in BOOLEAN
    BY DEF PausesEnd
  <1>2. CASE UNCHANGED <<bound, focused, paused>>
    BY <1>1, <1>2, PauseStands
  <1>3. CASE state \in {"entering", "exiting"}
    BY <1>2, <1>3 DEF Babylon!HandleStateChange
  <1>4. CASE state \in {"in", "out"}
    BY <1>1, <1>2, <1>4, BabylonStartPauses, BabylonEndResumes DEF Babylon!HandleStateChange
  <1> QED
    BY <1>3, <1>4

LEMMA BabylonPauses ==
  ASSUME Distinct, PausesEnd, Babylon!Next
  PROVE  PausesEnd'
PROOF
  <1>1. ASSUME UNCHANGED <<bound, focused, paused, disposed>>, visible' \in {visible, ~visible}
        PROVE  PausesEnd'
    BY <1>1, PauseStands DEF PausesEnd
  <1>2. ASSUME NEW r \in Request,
               \/ Babylon!RequestSameMode(r) \/ Babylon!RequestWithSwitch(r) \/ Babylon!RequestFresh(r)
               \/ Babylon!NotSupported(r) \/ Babylon!SwitchContinues(r) \/ Babylon!RequestTimeout(r)
        PROVE  PausesEnd'
    <2>1. UNCHANGED <<focused, paused, visible, disposed>>
      BY <1>2 DEF Babylon!RequestSameMode, Babylon!RequestWithSwitch, Babylon!RequestFresh,
         Babylon!NotSupported, Babylon!SwitchContinues, Babylon!RequestTimeout
    <2>2. bound' = bound
      BY <1>2 DEF Babylon!RequestSameMode, Babylon!RequestWithSwitch, Babylon!RequestFresh,
         Babylon!NotSupported, Babylon!SwitchContinues, Babylon!RequestTimeout, Babylon!Exit
    <2> QED
      BY <1>1, <2>1, <2>2
  <1>3. ASSUME NEW r \in Request, Babylon!IsSupported(r) PROVE PausesEnd'
    <2>1. UNCHANGED <<visible, disposed>>
      BY <1>3 DEF Babylon!IsSupported
    <2>2. Babylon!HandleStateChange("entering") \/ UNCHANGED <<bound, focused, paused>>
      BY <1>3 DEF Babylon!IsSupported
    <2> QED
      BY <1>1, <2>1, <2>2, BabylonChangePauses
  <1>4. ASSUME NEW r \in Request, Babylon!EnterFails(r) PROVE PausesEnd'
    <2>1. UNCHANGED <<visible, disposed>> /\ (Babylon!HandleSessionEnd \/ UNCHANGED <<bound, focused, paused>>)
      BY <1>4 DEF Babylon!EnterFails
    <2> QED
      BY <1>1, <2>1, BabylonEndResumes DEF PausesEnd
  <1>5. ASSUME NEW r \in Request, Babylon!EnterSucceeds(r) PROVE PausesEnd'
    <2>1. UNCHANGED <<focused, paused, visible, disposed>> /\ (bound' = bound \/ bound' # None)
      BY <1>5 DEF Babylon!EnterSucceeds, Babylon!AttachSession
    <2> QED
      BY <2>1, PauseStands DEF PausesEnd
  <1>6. ASSUME NEW e \in End, Babylon!EndSession(e) PROVE PausesEnd'
    BY <1>1, <1>6 DEF Babylon!EndSession, Babylon!Exit
  <1>7. ASSUME NEW c \in Call, Babylon!EndSettles(c) PROVE PausesEnd'
    BY <1>7, BabylonEndResumes DEF Babylon!EndSettles, PausesEnd
  <1>8. CASE Babylon!AppEnters \/ Babylon!AppIsRefused \/ Babylon!EntersXR \/ Babylon!AppExits
    <2>1. /\ UNCHANGED <<visible, disposed>>
          /\ \E state \in {"out", "entering", "in", "exiting"} :
               Babylon!HandleStateChange(state) /\ (state = "in" => hostSession # None)
      BY <1>8 DEF Babylon!AppEnters, Babylon!AppIsRefused, Babylon!EntersXR, Babylon!AppExits
    <2> QED
      BY <2>1, BabylonChangePauses
  <1>9. CASE Babylon!SessionInit
    <2>1. PICK s \in Session : \/ Babylon!HandleSessionStart(s)
                               \/ UNCHANGED <<bound, focused, paused>>
      BY <1>9 DEF Babylon!SessionInit
    <2>2. s # None /\ visible' = TRUE /\ UNCHANGED disposed
      BY <1>9 DEF Babylon!SessionInit, Distinct
    <2> QED
      BY <2>1, <2>2, BabylonStartPauses, PauseStands
  <1>10. CASE Babylon!SessionEnds
    <2>1. UNCHANGED <<visible, disposed>> /\ (Babylon!HandleSessionEnd \/ UNCHANGED <<bound, focused, paused>>)
      BY <1>10 DEF Babylon!SessionEnds
    <2> QED
      BY <1>1, <2>1, BabylonEndResumes DEF PausesEnd
  <1>11. CASE Babylon!VisibilityChanges \/ Babylon!StartLoop \/ Babylon!StopLoop
              \/ Babylon!SetCapabilities \/ Babylon!ClearCapabilityOverrides
    BY <1>1, <1>11 DEF Babylon!VisibilityChanges, Babylon!StartLoop, Babylon!StopLoop,
       Babylon!SetCapabilities, Babylon!ClearCapabilityOverrides
  <1>12. CASE Babylon!Tick
    <2>1. CASE bound = None
      BY <1>1, <1>12, <2>1 DEF Babylon!Tick
    <2>2. CASE bound # None
      BY <1>12, <2>2, FramePauses DEF Babylon!Tick, Babylon!SetFocused
    <2> QED
      BY <2>1, <2>2
  <1>13. CASE Babylon!RefreshCapabilities
    <2>1. /\ UNCHANGED <<visible, disposed>>
          /\ \/ Babylon!HandleSessionEnd
             \/ UNCHANGED <<focused, paused>> /\ (bound' = bound \/ bound' # None)
      BY <1>13 DEF Babylon!RefreshCapabilities, Babylon!AttachSession
    <2> QED
      BY <2>1, PauseStands, BabylonEndResumes DEF PausesEnd
  <1>14. CASE Babylon!Dispose
    BY <1>14, PauseStands DEF Babylon!Dispose, PausesEnd
  <1> QED
    BY <1>2, <1>3, <1>4, <1>5, <1>6, <1>7, <1>8, <1>9, <1>10, <1>11, <1>12, <1>13, <1>14
       DEF Babylon!Next, Babylon!Settles, Babylon!Continues, Babylon!TimesOut

-----------------------------------------------------------------------------
(* The IWSDK adapter: a wait has a timer as long as it waits, and who waits *)
(* for an end has a wait.                                                   *)
WaitsAreTimed ==
  /\ phase \in [Call -> Jobs \cup Awaits]
  /\ timers \subseteq Call /\ \A c \in timers : phase[c] \in {"opening", "ending"}
  /\ waiters \subseteq Call /\ \A c \in waiters : phase[c] = "ending"
  /\ \A c \in Call : phase[c] # "unsettled"

(* Waits that are settled, on a signal, by polling, by a timer or by        *)
(* dispose, leave nothing behind (settleWait).                              *)
LEMMA SettledWaitsAreGone ==
  ASSUME WaitsAreTimed, NEW calls \in SUBSET Call, NEW reached, IWSDK!SettleWaits(calls, reached)
  PROVE  WaitsAreTimed'
PROOF
  <1>1. timers' = timers \ calls /\ waiters' = waiters \ calls
    BY DEF IWSDK!SettleWaits
  <1>2. phase' \in [Call -> Jobs \cup Awaits]
        /\ \A c \in Call : (c \notin calls => phase'[c] = phase[c]) /\ phase'[c] # "unsettled"
    BY DEF WaitsAreTimed, IWSDK!SettleWaits, Jobs
  <1> QED
    BY <1>1, <1>2 DEF WaitsAreTimed

(* A call that waits for nothing goes on. *)
LEMMA WaitBegins ==
  ASSUME WaitsAreTimed, NEW c \in Call, phase[c] \notin {"opening", "ending"},
         \/ /\ phase' = [phase EXCEPT ![c] = "opening"] /\ timers' \subseteq timers \cup {c} /\ waiters' = waiters
         \/ /\ phase' = [phase EXCEPT ![c] = "ending"]
            /\ timers' \subseteq timers \cup {c} /\ waiters' \subseteq waiters \cup {c}
         \/ /\ \E next \in {"started", "over", "done", "resume"} : phase' = [phase EXCEPT ![c] = next]
            /\ timers' = timers /\ waiters' = waiters
  PROVE  WaitsAreTimed'
PROOF
  <1>1. c \notin timers /\ c \notin waiters
    BY DEF WaitsAreTimed
  <1>2. CASE phase' = [phase EXCEPT ![c] = "opening"] /\ timers' \subseteq timers \cup {c} /\ waiters' = waiters
    BY <1>1, <1>2 DEF WaitsAreTimed, Awaits
  <1>3. CASE /\ phase' = [phase EXCEPT ![c] = "ending"]
             /\ timers' \subseteq timers \cup {c} /\ waiters' \subseteq waiters \cup {c}
    BY <1>1, <1>3 DEF WaitsAreTimed, Awaits
  <1>4. CASE /\ \E next \in {"started", "over", "done", "resume"} : phase' = [phase EXCEPT ![c] = next]
             /\ timers' = timers /\ waiters' = waiters
    BY <1>1, <1>4 DEF WaitsAreTimed, Awaits, Jobs
  <1> QED
    BY <1>2, <1>3, <1>4

LEMMA IWSDKKeepsWaits ==
  ASSUME Distinct, WaitsAreTimed, IWSDK!Next
  PROVE  WaitsAreTimed'
PROOF
  <1>1. ASSUME UNCHANGED <<phase, timers, waiters>> PROVE WaitsAreTimed'
    BY <1>1 DEF WaitsAreTimed
  <1>2. ASSUME NEW r \in Request, phase[r] \notin {"opening", "ending"}, IWSDK!Launch(r), UNCHANGED waiters
        PROVE  WaitsAreTimed'
    <2>1. \/ phase' = [phase EXCEPT ![r] = "opening"] /\ timers' = timers \cup {r}
          \/ /\ phase' = [phase EXCEPT ![r] = "started"] \/ phase' = [phase EXCEPT ![r] = "done"]
             /\ timers' = timers
      <3>1. CASE IWSDK!HasSession
        BY <1>2, <3>1 DEF IWSDK!Launch
      <3>2. CASE ~IWSDK!HasSession
        BY <1>2, <3>2 DEF IWSDK!Launch
      <3> QED
        BY <3>1, <3>2
    <2> QED
      BY <1>2, <2>1, WaitBegins
  <1>3. ASSUME NEW c \in Call, phase[c] \notin {"opening", "ending"}, IWSDK!Exit(c)
        PROVE  WaitsAreTimed'
    <2>1. \/ /\ phase' = [phase EXCEPT ![c] = "ending"]
             /\ timers' = timers \cup {c} /\ waiters' = waiters \cup {c}
          \/ phase' = [phase EXCEPT ![c] = "over"] /\ timers' = timers /\ waiters' = waiters
      <3>1. CASE IWSDK!HasSession
        BY <1>3, <3>1 DEF IWSDK!Exit
      <3>2. CASE ~IWSDK!HasSession
        BY <1>3, <3>2 DEF IWSDK!Exit
      <3> QED
        BY <3>1, <3>2
    <2> QED
      BY <1>3, <2>1, WaitBegins
  <1>4. ASSUME NEW r \in Request, IWSDK!RequestSameMode(r) \/ IWSDK!Started(r) \/ IWSDK!Missed(r)
        PROVE  WaitsAreTimed'
    <2>1. phase[r] \notin {"opening", "ending"} /\ phase' = [phase EXCEPT ![r] = "done"]
          /\ UNCHANGED <<timers, waiters>>
      BY <1>4 DEF IWSDK!RequestSameMode, IWSDK!Started, IWSDK!Missed, IWSDK!MayCall
    <2> QED
      BY <2>1, WaitBegins
  <1>5. ASSUME NEW r \in Request, IWSDK!RequestWithSwitch(r) PROVE WaitsAreTimed'
    <2>1. phase[r] \notin {"opening", "ending"}
      BY <1>5 DEF IWSDK!RequestWithSwitch, IWSDK!MayCall
    <2>2. CASE "exit" \in offers
      BY <1>3, <1>5, <2>1, <2>2 DEF IWSDK!RequestWithSwitch
    <2>3. CASE "exit" \notin offers
      BY <1>5, <2>1, <2>3, WaitBegins DEF IWSDK!RequestWithSwitch
    <2> QED
      BY <2>2, <2>3
  <1>6. ASSUME NEW r \in Request, IWSDK!RequestFresh(r) \/ IWSDK!SwitchContinues(r) PROVE WaitsAreTimed'
    <2>1. phase[r] \notin {"opening", "ending"} /\ IWSDK!Launch(r) /\ UNCHANGED waiters
      BY <1>6 DEF IWSDK!RequestFresh, IWSDK!SwitchContinues, IWSDK!MayCall
    <2> QED
      BY <1>2, <2>1
  <1>7. ASSUME NEW e \in End, IWSDK!EndSession(e) PROVE WaitsAreTimed'
    <2>1. phase[e] \notin {"opening", "ending"}
      BY <1>7 DEF IWSDK!EndSession, IWSDK!MayCall
    <2>2. CASE sessionState = "none"
      BY <1>7, <2>1, <2>2, WaitBegins DEF IWSDK!EndSession
    <2>3. CASE sessionState # "none"
      BY <1>3, <1>7, <2>1, <2>3 DEF IWSDK!EndSession
    <2> QED
      BY <2>2, <2>3
  <1>8. ASSUME NEW c \in Call, IWSDK!EndIsOver(c) PROVE WaitsAreTimed'
    <2>1. phase[c] \notin {"opening", "ending"} /\ UNCHANGED <<timers, waiters>>
          /\ (phase' = [phase EXCEPT ![c] = "resume"] \/ phase' = [phase EXCEPT ![c] = "done"])
      BY <1>8 DEF IWSDK!EndIsOver
    <2> QED
      BY <2>1, WaitBegins
  <1>9. ASSUME NEW c \in Call, IWSDK!WaitTimesOut(c) PROVE WaitsAreTimed'
    <2>1. {c} \in SUBSET Call /\ IWSDK!SettleWaits({c}, FALSE)
      BY <1>9 DEF IWSDK!WaitTimesOut
    <2> QED
      BY <2>1, SettledWaitsAreGone
  <1>10. CASE IWSDK!CheckWaits \/ IWSDK!HandleVisibilityChange
    <2>1. IWSDK!Reached \in SUBSET Call /\ IWSDK!SettleWaits(IWSDK!Reached, TRUE)
      BY <1>10 DEF IWSDK!CheckWaits, IWSDK!HandleVisibilityChange, IWSDK!Reached
    <2> QED
      BY <2>1, SettledWaitsAreGone
  <1>11. CASE IWSDK!Dispose
    <2> DEFINE calls == {c \in Call : phase[c] \in {"opening", "ending"}}
    <2>1. calls \in SUBSET Call /\ IWSDK!SettleWaits(calls, FALSE)
      BY <1>11 DEF IWSDK!Dispose
    <2> QED
      BY <2>1, SettledWaitsAreGone
  <1>12. CASE \/ IWSDK!SessionAppears \/ IWSDK!SessionGoes \/ IWSDK!Update \/ IWSDK!RefreshCapabilities
              \/ IWSDK!SetCapabilities \/ IWSDK!ClearCapabilityOverrides
    BY <1>1, <1>12 DEF IWSDK!SessionAppears, IWSDK!SessionGoes, IWSDK!Update, IWSDK!RefreshCapabilities,
       IWSDK!SetCapabilities, IWSDK!ClearCapabilityOverrides
  <1> QED
    BY <1>4, <1>5, <1>6, <1>7, <1>8, <1>9, <1>10, <1>11, <1>12
       DEF IWSDK!Next, IWSDK!Settles, IWSDK!Continues, IWSDK!TimesOut

(* Wherever it is called, refreshCapabilities publishes what it binds. *)
LEMMA RefreshPublishes ==
  ASSUME IWSDK!Refresh, UNCHANGED <<overrides, disposed>>
  PROVE  CapabilitiesFollowSession'
  BY DEF IWSDK!Refresh, IWSDK!BindSession, CapabilitiesFollowSession

LEMMA IWSDKPublishes ==
  ASSUME Distinct, CapabilitiesFollowSession, IWSDK!Next
  PROVE  CapabilitiesFollowSession'
PROOF
  <1>1. ASSUME NEW r \in Request,
               \/ IWSDK!RequestSameMode(r) \/ IWSDK!RequestWithSwitch(r) \/ IWSDK!RequestFresh(r)
               \/ IWSDK!SwitchContinues(r) \/ IWSDK!Missed(r)
        PROVE  CapabilitiesFollowSession'
    <2>1. UNCHANGED <<derived, overrides, immersive, disposed>>
      BY <1>1 DEF IWSDK!RequestSameMode, IWSDK!RequestWithSwitch, IWSDK!RequestFresh,
         IWSDK!SwitchContinues, IWSDK!Missed
    <2>2. bound' = bound
      BY <1>1 DEF IWSDK!RequestSameMode, IWSDK!RequestWithSwitch, IWSDK!RequestFresh,
         IWSDK!SwitchContinues, IWSDK!Missed, IWSDK!Exit
    <2> QED
      BY <2>1, <2>2, StillPublished
  <1>2. ASSUME NEW r \in Request, IWSDK!Started(r) PROVE CapabilitiesFollowSession'
    BY <1>2, RefreshPublishes DEF IWSDK!Started
  <1>3. ASSUME NEW e \in End, IWSDK!EndSession(e) PROVE CapabilitiesFollowSession'
    BY <1>3, StillPublished DEF IWSDK!EndSession, IWSDK!Exit
  <1>4. ASSUME NEW c \in Call, IWSDK!EndIsOver(c) PROVE CapabilitiesFollowSession'
    BY <1>4, RefreshPublishes DEF IWSDK!EndIsOver
  <1>5. CASE IWSDK!HandleVisibilityChange \/ IWSDK!RefreshCapabilities
    BY <1>5, RefreshPublishes DEF IWSDK!HandleVisibilityChange, IWSDK!RefreshCapabilities
  <1>6. CASE \/ \E c \in Call : IWSDK!WaitTimesOut(c)
             \/ IWSDK!CheckWaits \/ IWSDK!SessionAppears \/ IWSDK!SessionGoes \/ IWSDK!Update
    BY <1>6, StillPublished
       DEF IWSDK!WaitTimesOut, IWSDK!CheckWaits, IWSDK!SessionAppears, IWSDK!SessionGoes, IWSDK!Update
  <1>7. CASE IWSDK!SetCapabilities
    BY <1>7, ForcedPublishes DEF IWSDK!SetCapabilities
  <1>8. CASE IWSDK!ClearCapabilityOverrides
    BY <1>8 DEF IWSDK!ClearCapabilityOverrides, CapabilitiesFollowSession
  <1>9. CASE IWSDK!Dispose
    BY <1>9 DEF IWSDK!Dispose, CapabilitiesFollowSession
  <1> QED
    BY <1>1, <1>2, <1>3, <1>4, <1>5, <1>6, <1>7, <1>8, <1>9
       DEF IWSDK!Next, IWSDK!Settles, IWSDK!Continues, IWSDK!TimesOut

-----------------------------------------------------------------------------
(* The mock adapter: a timer is taken with its request, whichever request   *)
(* is pending when it runs out.                                             *)
RequestsAreTimed ==
  /\ phase \in [Call -> Jobs \cup Awaits]
  /\ \A r \in timers : r \in Request /\ phase[r] = "opening"

LEMMA MockKeepsTimers ==
  ASSUME Distinct, RequestsAreTimed, Mock!Next
  PROVE  RequestsAreTimed'
PROOF
  <1>1. ASSUME NEW c, timers' \subseteq timers \ {c}, phase' = [phase EXCEPT ![c] = "done"]
        PROVE  RequestsAreTimed'
    BY <1>1 DEF RequestsAreTimed, Awaits
  <1>2. CASE Mock!SimulateSessionStart \/ Mock!SimulateSessionEnd
    <2>1. CASE UNCHANGED <<phase, timers>>
      BY <2>1 DEF RequestsAreTimed
    <2>2. CASE phase' = [phase EXCEPT ![pendingRequest] = "done"] /\ timers' = timers \ {pendingRequest}
      BY <1>1, <2>2
    <2> QED
      BY <1>2, <2>1, <2>2 DEF Mock!SimulateSessionStart, Mock!SimulateSessionEnd
  <1>3. ASSUME NEW r \in Request, Mock!RequestSameMode(r) PROVE RequestsAreTimed'
    <2>1. r \notin timers
      BY <1>3 DEF RequestsAreTimed, Mock!RequestSameMode, Mock!MayCall
    <2>2. timers' \subseteq timers \ {r} /\ phase' = [phase EXCEPT ![r] = "done"]
      BY <1>3, <2>1 DEF Mock!RequestSameMode
    <2> QED
      BY <1>1, <2>2
  <1>4. ASSUME NEW r \in Request, Mock!RequestSession(r) PROVE RequestsAreTimed'
    BY <1>4 DEF RequestsAreTimed, Mock!RequestSession, Awaits
  <1>5. ASSUME NEW r \in Request, Mock!RequestTimeout(r) PROVE RequestsAreTimed'
    BY <1>1, <1>5 DEF Mock!RequestTimeout
  <1>6. ASSUME NEW e \in End, Mock!EndSession(e) PROVE RequestsAreTimed'
    <2>1. e \notin timers
      BY <1>6 DEF RequestsAreTimed, Distinct
    <2>2. timers' \subseteq timers \ {e} /\ phase' = [phase EXCEPT ![e] = "done"]
      BY <1>6, <2>1 DEF Mock!EndSession
    <2> QED
      BY <1>1, <2>2
  <1> QED
    BY <1>2, <1>3, <1>4, <1>5, <1>6 DEF Mock!Next, Mock!TimesOut

LEMMA MockPublishes ==
  ASSUME CapabilitiesFollowSession, Mock!Next
  PROVE  CapabilitiesFollowSession'
PROOF
  <1>1. UNCHANGED Mock!engineVars
    BY DEF Mock!Next, Mock!TimesOut, Mock!SimulateSessionStart, Mock!SimulateSessionEnd, Mock!RequestSameMode,
       Mock!RequestSession, Mock!RequestTimeout, Mock!EndSession
  <1> QED
    BY <1>1, StillPublished DEF Mock!engineVars

-----------------------------------------------------------------------------
(* What each adapter keeps to, and the four of them together. *)
IInv ==
  /\ CapabilitiesFollowSession
  /\ which = "three" => ThreeInv /\ PausesEnd
  /\ which = "babylon" => CallTypes /\ TimersRun /\ PausesEnd
  /\ which = "iwsdk" => WaitsAreTimed
  /\ which = "mock" => RequestsAreTimed

(* The page has a session or not, and nobody has called. *)
LEMMA StartHolds ==
  ASSUME NEW session, StartsWith(session)
  PROVE  IInv
PROOF
  <1>1. phase = [c \in Call |-> "idle"] /\ timers = {} /\ waiters = {} /\ outcome = [r \in Request |-> "idle"]
        /\ visible = TRUE /\ paused = FALSE
    BY DEF StartsWith
  <1>2. CapabilitiesFollowSession
    BY DEF StartsWith, CapabilitiesFollowSession
  <1>3. CallTypes /\ TimersRun /\ WaitersWait /\ EndsSettle /\ PausesEnd /\ WaitsAreTimed /\ RequestsAreTimed
    BY <1>1 DEF CallTypes, TimersRun, WaitersWait, EndsSettle, PausesEnd, WaitsAreTimed, RequestsAreTimed,
       Jobs, Awaits
  <1> QED
    BY <1>2, <1>3 DEF IInv, ThreeInv

LEMMA InitHolds == Init => IInv
PROOF
  <1> SUFFICES ASSUME Init PROVE IInv
    OBVIOUS
  <1>1. \E session : StartsWith(session)
    BY DEF Init, Three!Init, Babylon!Init, IWSDK!Init, Mock!Init, StartsWith, Three!StartsWith,
       Babylon!StartsWith, IWSDK!StartsWith, Mock!StartsWith
  <1> QED
    BY <1>1, StartHolds

LEMMA StepKeeps == Distinct /\ IInv /\ [Step]_allVars => IInv'
PROOF
  <1> SUFFICES ASSUME Distinct, IInv, [Step]_allVars PROVE IInv'
    OBVIOUS
  <1>1. CASE UNCHANGED allVars
    <2>1. CapabilitiesFollowSession'
      BY <1>1, StillPublished DEF IInv, allVars
    <2>2. (which = "three" => ThreeInv /\ PausesEnd)'
      BY <1>1, <2>1
         DEF IInv, allVars, ownVars, ThreeInv, CallTypes, TimersRun, WaitersWait, EndsSettle, PausesEnd
    <2>3. (which = "babylon" => CallTypes /\ TimersRun /\ PausesEnd)'
      BY <1>1 DEF IInv, allVars, ownVars, CallTypes, TimersRun, PausesEnd
    <2>4. (which = "iwsdk" => WaitsAreTimed)'
      BY <1>1 DEF IInv, allVars, ownVars, WaitsAreTimed
    <2>5. (which = "mock" => RequestsAreTimed)'
      BY <1>1 DEF IInv, allVars, ownVars, RequestsAreTimed
    <2> QED
      BY <2>1, <2>2, <2>3, <2>4, <2>5 DEF IInv
  <1>2. CASE which = "three" /\ Three!Next /\ UNCHANGED ownVars
    <2>1. which' = "three"
      BY <1>2 DEF ownVars
    <2>2. ThreeInv'
      BY <1>2, ThreeKeeps DEF IInv
    <2>3. PausesEnd'
      BY <1>2, ThreePauses DEF IInv
    <2> QED
      BY <2>1, <2>2, <2>3 DEF IInv, ThreeInv
  <1>3. CASE which = "babylon" /\ Babylon!Next /\ UNCHANGED <<which, pendingRequest, requestedMode>>
    BY <1>3, BabylonPublishes, BabylonKeepsTimers, BabylonPauses DEF IInv
  <1>4. CASE which = "iwsdk" /\ IWSDK!Next /\ UNCHANGED ownVars
    BY <1>4, IWSDKPublishes, IWSDKKeepsWaits DEF IInv, ownVars
  <1>5. CASE which = "mock" /\ Mock!Next /\ UNCHANGED <<which, xrState>>
    BY <1>5, MockPublishes, MockKeepsTimers DEF IInv
  <1> QED
    BY <1>1, <1>2, <1>3, <1>4, <1>5 DEF Step

(* However the adapters are used, the invariant holds. *)
LEMMA Invariant == ASSUME Distinct PROVE Adapters => []IInv
PROOF
  <1>1. Init => IInv
    BY InitHolds
  <1>2. IInv /\ [Step]_allVars => IInv'
    BY StepKeeps
  <1> QED
    BY <1>1, <1>2, PTL DEF Adapters

(* Whatever sessions start, end, fail or come late, and however calls       *)
(* overlap, what every adapter has published is what its bound session has, *)
(* under the overrides (publishCapabilities).                               *)
THEOREM CapabilitiesAreOfTheSession ==
  ASSUME Distinct PROVE Adapters => []CapabilitiesFollowSession
PROOF
  <1>1. IInv => CapabilitiesFollowSession
    BY DEF IInv
  <1> QED
    BY <1>1, Invariant, PTL

(* The four adapters are the only ones. *)
LEMMA OneAdapter == Adapters => [](which \in {"three", "babylon", "iwsdk", "mock"})
PROOF
  <1>1. Init => which \in {"three", "babylon", "iwsdk", "mock"}
    BY DEF Init
  <1>2. which \in {"three", "babylon", "iwsdk", "mock"} /\ [Step]_allVars
          => (which \in {"three", "babylon", "iwsdk", "mock"})'
    BY DEF Step, allVars, ownVars
  <1> QED
    BY <1>1, <1>2, PTL DEF Adapters

(* No timer of any adapter outlives its call (clearTimeout in               *)
(* requestSession, settleWait in IWSDK's).                                  *)
THEOREM TimersAreOfCalls ==
  ASSUME Distinct PROVE Adapters => []TimersBelongToCalls
PROOF
  <1>1. IInv /\ which \in {"three", "babylon", "iwsdk", "mock"} => TimersBelongToCalls
    BY DEF IInv, ThreeInv, TimersRun, WaitsAreTimed, RequestsAreTimed, TimersBelongToCalls
  <1> QED
    BY <1>1, OneAdapter, Invariant, PTL

(* However calls overlap, when the host's promise has settled, so has every *)
(* end() and every switch that waited for it, and nobody waits who is not   *)
(* in flight (endSession's fallback, IWSDK's settleWait).                   *)
THEOREM EndsSettleWithTheHost ==
  ASSUME Distinct PROVE Adapters => []EndsAreSettled
PROOF
  <1>1. IInv => EndsAreSettled
    BY DEF IInv, ThreeInv, WaitersWait, EndsSettle, WaitsAreTimed, EndsAreSettled
  <1> QED
    BY <1>1, Invariant, PTL

(* However sessions come and go in a page, what paused its services is a    *)
(* session it is bound to (setFocused, handleSessionEnd).                   *)
THEOREM PagesResume ==
  ASSUME Distinct PROVE Adapters => []PausedBySession
PROOF
  <1>1. IInv => PausedBySession
    BY DEF IInv, PausesEnd, PausedBySession
  <1> QED
    BY <1>1, Invariant, PTL

(* The runs check a bounded use of the same adapters. *)
THEOREM BoundedUse == Spec => Adapters
PROOF
  <1>1. [Next]_allVars => [Step]_allVars
    BY DEF Next
  <1> QED
    BY <1>1, PTL DEF Spec, Adapters
=============================================================================
