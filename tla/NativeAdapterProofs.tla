------------------------- MODULE NativeAdapterProofs -------------------------
(***************************************************************************)
(* Proofs about NativeAdapter, for any number of requests and ends, any    *)
(* host, listeners that call back and jobs that run late: its types, that  *)
(* no promise is forgotten, and that an answer of ok is the truth.         *)
(* For requests made one at a time: that state and capabilities agree, and *)
(* that the adapter implements SessionContract.                            *)
(***************************************************************************)
EXTENDS NativeAdapter, SequenceTheorems, TLAPS

Call == [info : AnyHostState, state : SessionState, told : BOOLEAN]
Promise == {"idle", "waiting", "ok"} \cup Failure

LEMMA ToSessionStateType ==
  ASSUME NEW s \in AnyHostState, NEW b \in BOOLEAN
  PROVE  ToSessionState(s, b) \in SessionState
BY DEF ToSessionState, AnyHostState, SessionState, Live

LEMMA EffectiveType ==
  ASSUME NEW s, NEW forced
  PROVE  Effective(s, forced) \in BOOLEAN
<1>1. CASE forced = {}
  <2>1. Effective(s, forced) = (s \in Live)
    BY <1>1 DEF Effective
  <2>2. QED BY <2>1
<1>2. CASE forced # {}
  BY <1>2, Zenon DEF Effective
<1>3. QED BY <1>1, <1>2

LEMMA SettledType ==
  ASSUME NEW f \in [Request -> Promise], NEW r, NEW result \in Promise
  PROVE  Settled(f, r, result) \in [Request -> Promise]
BY DEF Settled

LEMMA SetStateType ==
  ASSUME NEW next \in SessionState, mode \in Mode \cup {None}, SetState(next)
  PROVE  sessionState' \in SessionState /\ mode' \in Mode \cup {None}
BY DEF SetState

LEMMA BeginType ==
  ASSUME TypeOK, NEW r \in Request, BeginRequest(r)
  PROVE  /\ timers' \subseteq Request /\ asks' \subseteq Request
         /\ pending' \in Request \cup {None} /\ pendingMode' \in Mode \cup {None}
         /\ requesting' \in BOOLEAN
         /\ sessionState' \in SessionState /\ mode' \in Mode \cup {None}
         /\ answering' \in Nat
<1>1. "requesting" \in SessionState
  BY DEF SessionState
<1>2. answering' \in Nat
  BY LenProperties DEF BeginRequest, CallsHost, TypeOK
<1>3. QED BY <1>1, <1>2, SetStateType, NativeAssumption DEF BeginRequest, TypeOK

LEMMA SettleType ==
  ASSUME TypeOK, SettleEndWaiters
  PROVE  /\ endWaiters' \in Seq(Request \cup End) /\ jobs' \in Seq(Request \cup End)
         /\ ended' \in [End -> {"idle", "waiting", "done"}]
<1>1. endWaiters' \in Seq(Request \cup End)
  BY DEF SettleEndWaiters
<1>2. jobs' \in Seq(Request \cup End)
  BY ConcatProperties DEF SettleEndWaiters, TypeOK
<1>3. ended' \in [End -> {"idle", "waiting", "done"}]
  BY DEF SettleEndWaiters, TypeOK
<1>4. QED BY <1>1, <1>2, <1>3

LEMMA MoveType ==
  ASSUME TypeOK, NEW s, HostMoves(s)
  PROVE  /\ hostState' \in AnyHostState /\ info' \in AnyHostState
         /\ sessionState' \in SessionState /\ mode' \in Mode \cup {None}
         /\ pendingMode' \in Mode \cup {None} /\ requesting' \in BOOLEAN
         /\ pending' \in Request \cup {None} /\ switchRefusal' \in Request \cup {None}
         /\ timers' \subseteq Request
         /\ outcome' \in [Request -> Promise]
         /\ handling' \in Seq(Call)
<1>1. s \in AnyHostState /\ hostState' = s
  BY NativeAssumption DEF HostMoves
<1>2. CASE disposed
  BY <1>1, <1>2 DEF HostMoves, stateVars, requestVars, TypeOK, Call, Promise
<1>3. CASE ~disposed
  <2>1. HandleSessionChange(s) /\ UNCHANGED switchRefusal
    BY <1>3 DEF HostMoves
  <2> DEFINE next == ToSessionState(s, requesting)
             call == [info |-> s, state |-> next, told |-> next # sessionState]
  <2>2. next \in SessionState
    BY <1>1, ToSessionStateType DEF TypeOK
  <2>3. call \in Call /\ handling' = <<call>> \o handling
    BY <1>1, <2>1, <2>2 DEF HandleSessionChange, Call
  <2>4. handling' \in Seq(Call)
    BY <2>3, ConcatProperties DEF TypeOK, Call
  <2>5. outcome' \in [Request -> Promise]
    BY <2>1, SettledType DEF HandleSessionChange, TypeOK, Promise
  <2>6. sessionState' \in SessionState
    BY <2>1, <2>2 DEF HandleSessionChange
  <2>7. QED BY <1>1, <2>1, <2>4, <2>5, <2>6 DEF HandleSessionChange, TypeOK
<1>4. QED BY <1>2, <1>3

LEMMA HostModeType ==
  ASSUME TypeOK, HostBegins \/ HostChanges \/ HostEnds
  PROVE  /\ hostMode' \in Mode \cup {None} /\ asks' \subseteq Request
         /\ endAsked' \in BOOLEAN
         /\ \E s : HostMoves(s)
<1>1. CASE HostBegins
  BY <1>1, NativeAssumption DEF HostBegins, TypeOK
<1>2. CASE HostChanges
  BY <1>2 DEF HostChanges, TypeOK
<1>3. CASE HostEnds
  BY <1>3 DEF HostEnds, TypeOK
<1>4. QED BY <1>1, <1>2, <1>3

LEMMA TypeStep ==
  ASSUME TypeOK, [Next]_vars
  PROVE  TypeOK'
<1>1. ASSUME NEW r \in Request, RequestSameMode(r) \/ RequestWhileBusy(r) PROVE TypeOK'
  BY <1>1 DEF TypeOK, RequestSameMode, RequestWhileBusy, Failure, hostVars, requestVars,
              stateVars, endVars, viewVars, callVars
<1>2. ASSUME NEW r \in Request, RequestFresh(r) PROVE TypeOK'
  <2>1. BeginRequest(r)
    BY <1>2 DEF RequestFresh
  <2>2. outcome' \in [Request -> Promise]
    BY <1>2 DEF RequestFresh, TypeOK, Promise
  <2>3. QED BY <1>2, <2>1, <2>2, BeginType
            DEF RequestFresh, TypeOK, Promise, endVars, viewVars
<1>3. ASSUME NEW r \in Request, RequestWithSwitch(r) PROVE TypeOK'
  <2>1. endWaiters' \in Seq(Request \cup End)
    BY <1>3, AppendProperties DEF RequestWithSwitch, TypeOK
  <2>2. outcome' \in [Request -> Promise]
    BY <1>3 DEF RequestWithSwitch, TypeOK, Promise
  <2>3. answering' \in Nat
    BY <1>3, LenProperties DEF RequestWithSwitch, CallsHost, TypeOK
  <2>4. QED BY <1>3, <2>1, <2>2, <2>3 DEF RequestWithSwitch, TypeOK, Promise, stateVars, viewVars
<1>4. CASE SwitchContinues
  <2>1. jobs' \in Seq(Request \cup End) /\ Head(jobs) \in Request \cup End
    BY <1>4, HeadTailProperties DEF SwitchContinues, TypeOK
  <2>2. CASE Head(jobs) \in Request /\ outcome[Head(jobs)] = "waiting"
    <3>1. BeginRequest(Head(jobs)) /\ switchRefusal' = None
      BY <1>4, <2>2 DEF SwitchContinues
    <3>2. QED BY <1>4, <2>1, <2>2, <3>1, BeginType DEF SwitchContinues, TypeOK, viewVars
  <2>3. CASE ~(Head(jobs) \in Request /\ outcome[Head(jobs)] = "waiting")
    BY <1>4, <2>1, <2>3 DEF SwitchContinues, TypeOK, viewVars, requestVars, stateVars
  <2>4. QED BY <2>2, <2>3
<1>5. ASSUME NEW r \in Request, RequestTimeout(r) PROVE TypeOK'
  <2>1. outcome' \in [Request -> Promise]
    BY <1>5, SettledType DEF RequestTimeout, TypeOK, Promise, Failure
  <2>2. sessionState' \in SessionState /\ mode' \in Mode \cup {None}
    BY <1>5, SetStateType DEF RequestTimeout, TypeOK, SessionState
  <2>3. QED BY <1>5, <2>1, <2>2 DEF RequestTimeout, TypeOK, Promise, hostVars, endVars,
               viewVars, callVars
<1>6. ASSUME NEW e \in End, EndSession(e) PROVE TypeOK'
  <2>1. endWaiters' \in Seq(Request \cup End)
    <3>1. endWaiters \in Seq(Request \cup End) /\ e \in Request \cup End
      BY DEF TypeOK
    <3>2. Append(endWaiters, e) \in Seq(Request \cup End)
      BY <3>1, AppendProperties
    <3>3. endWaiters' = endWaiters \/ endWaiters' = Append(endWaiters, e)
      BY <1>6 DEF EndSession
    <3>4. QED BY <3>1, <3>2, <3>3
  <2>2. answering' \in Nat
    BY <1>6, LenProperties DEF EndSession, CallsHost, TypeOK
  <2>3. QED BY <1>6, <2>1, <2>2 DEF EndSession, TypeOK, requestVars, stateVars, viewVars
<1>7. CASE SetCapabilities \/ ClearCapabilityOverrides \/ RefreshCapabilities \/ HostFrame
  <2>1. immersive' \in BOOLEAN
    BY <1>7, EffectiveType, NativeAssumption
       DEF SetCapabilities, ClearCapabilityOverrides, RefreshCapabilities, HostFrame, TypeOK
  <2>2. overrides' \in SUBSET BOOLEAN /\ focused' \in SUBSET BOOLEAN /\ frame' \in Nat
    <3>1. overrides \subseteq BOOLEAN /\ focused \subseteq BOOLEAN /\ frame \in Nat
      BY DEF TypeOK
    <3>2. (info = "focused") \in BOOLEAN
      OBVIOUS
    <3>3. frame' \in Nat
      BY <1>7, <3>1 DEF SetCapabilities, ClearCapabilityOverrides, RefreshCapabilities, HostFrame
    <3>4. focused' \subseteq BOOLEAN
      BY <1>7, <3>1, <3>2, Zenon
         DEF SetCapabilities, ClearCapabilityOverrides, RefreshCapabilities, HostFrame
    <3>5. overrides' \subseteq BOOLEAN
      <4>1. CASE SetCapabilities
        <5>1. PICK b \in Override : overrides' = {b}
          BY <4>1 DEF SetCapabilities
        <5>2. Override \subseteq BOOLEAN
          BY NativeAssumption
        <5>3. QED BY <5>1, <5>2, Zenon
      <4>2. CASE ~SetCapabilities
        BY <1>7, <3>1, <4>2, Zenon DEF ClearCapabilityOverrides, RefreshCapabilities, HostFrame,
                                       viewVars
      <4>3. QED BY <4>1, <4>2
    <3>6. QED BY <3>3, <3>4, <3>5
  <2>3. QED BY <1>7, <2>1, <2>2
       DEF SetCapabilities, ClearCapabilityOverrides, RefreshCapabilities, HostFrame, TypeOK,
           hostVars, requestVars, stateVars, endVars, callVars
<1>8. CASE Dispose
  <2>1. outcome' \in [Request -> Promise]
    BY <1>8, SettledType DEF Dispose, TypeOK, Promise, Failure
  <2>2. SettleEndWaiters
    BY <1>8 DEF Dispose
  <2>3. QED BY <1>8, <2>1, <2>2, SettleType DEF Dispose, TypeOK, Promise, hostVars, stateVars,
               callVars
<1>9. CASE FinishSessionChange
  <2>1. Head(handling) \in Call /\ handling' \in Seq(Call)
    BY <1>9, HeadTailProperties DEF FinishSessionChange, TypeOK, Call
  <2>2. endWaiters' \in Seq(Request \cup End) /\ jobs' \in Seq(Request \cup End)
        /\ ended' \in [End -> {"idle", "waiting", "done"}]
    BY <1>9, SettleType DEF FinishSessionChange, endVars, TypeOK
  <2>3. derived' \in AnyHostState /\ immersive' \in BOOLEAN
    BY <1>9, <2>1, EffectiveType DEF FinishSessionChange, Call
  <2>4. QED BY <1>9, <2>1, <2>2, <2>3
            DEF FinishSessionChange, TypeOK, Call, hostVars, requestVars, stateVars
<1>10. CASE HostBegins \/ HostChanges \/ HostEnds
  <2>1. PICK s : HostMoves(s)
    BY <1>10, HostModeType
  <2>2. QED BY <1>10, <2>1, HostModeType, MoveType DEF HostMoves, TypeOK, Call, Promise, endVars
<1>11. CASE HostRefuses
  <2>1. asks' \subseteq Request /\ endAsked' \in BOOLEAN
    BY <1>11 DEF HostRefuses, TypeOK
  <2>2. outcome' \in [Request -> Promise]
    BY <1>11, SettledType DEF HostRefuses, HandleRefusal, TypeOK, Promise, Failure
  <2>3. sessionState' \in SessionState /\ mode' \in Mode \cup {None}
    BY <1>11, SetStateType DEF HostRefuses, HandleRefusal, TypeOK, SessionState, stateVars
  <2>4. QED BY <1>11, <2>1, <2>2, <2>3
            DEF HostRefuses, HandleRefusal, TypeOK, Promise, requestVars, endVars, viewVars, callVars
<1>12. CASE UNCHANGED vars
  BY <1>12 DEF TypeOK, vars, hostVars, requestVars, stateVars, endVars, viewVars, callVars
<1>13. QED BY <1>1, <1>2, <1>3, <1>4, <1>5, <1>6, <1>7, <1>8, <1>9, <1>10, <1>11, <1>12
           DEF Next, App, Host, Engine
LEMMA TypeInit ==
  ASSUME Init
  PROVE  TypeOK
<1>1. hostState \in AnyHostState
  BY NativeAssumption DEF Init
<1>2. sessionState \in SessionState
  BY <1>1, ToSessionStateType DEF Init
<1>3. endWaiters \in Seq(Request \cup End) /\ jobs \in Seq(Request \cup End)
      /\ handling \in Seq(Call)
  BY DEF Init
<1>4. (hostState \in Live) \in BOOLEAN
  OBVIOUS
<1>5. immersive \in BOOLEAN /\ overrides \in SUBSET BOOLEAN /\ focused \in SUBSET BOOLEAN
  BY <1>4 DEF Init
<1>6. outcome \in [Request -> {"idle", "waiting", "ok"} \cup Failure]
      /\ ended \in [End -> {"idle", "waiting", "done"}]
  BY DEF Init
<1>7. QED BY <1>1, <1>2, <1>3, <1>5, <1>6, NativeAssumption DEF Init, TypeOK, Call

(* Every variable of the adapter and of its host keeps its type.           *)
THEOREM TypeCorrect ==
  Spec => []TypeOK
<1>1. TypeOK /\ [Next]_vars => TypeOK'
  BY TypeStep
<1>2. QED BY <1>1, TypeInit, PTL DEF Spec

-----------------------------------------------------------------------------
(* No promise is forgotten.                                                *)

LEMMA HoldsAppended ==
  ASSUME NEW S, NEW s \in Seq(S), NEW x \in S, NEW y
  PROVE  Holds(Append(s, x), x) /\ (Holds(s, y) => Holds(Append(s, x), y))
<1>1. /\ Len(Append(s, x)) = Len(s) + 1 /\ Len(s) \in Nat
      /\ Append(s, x)[Len(s) + 1] = x
      /\ \A k \in 1 .. Len(s) : Append(s, x)[k] = s[k]
  BY AppendProperties, LenProperties
<1>2. Holds(Append(s, x), x)
  BY <1>1 DEF Holds
<1>3. ASSUME Holds(s, y) PROVE Holds(Append(s, x), y)
  <2>1. PICK k \in 1 .. Len(s) : s[k] = y
    BY <1>3 DEF Holds
  <2>2. k \in 1 .. Len(Append(s, x)) /\ Append(s, x)[k] = y
    BY <1>1, <2>1
  <2>3. QED BY <2>2, Zenon DEF Holds
<1>4. QED BY <1>2, <1>3

LEMMA HoldsJoined ==
  ASSUME NEW S, NEW s \in Seq(S), NEW t \in Seq(S), NEW y, Holds(s, y) \/ Holds(t, y)
  PROVE  Holds(s \o t, y)
<1>1. /\ Len(s \o t) = Len(s) + Len(t) /\ Len(s) \in Nat /\ Len(t) \in Nat
      /\ \A k \in 1 .. Len(s) + Len(t) :
           (s \o t)[k] = IF k <= Len(s) THEN s[k] ELSE t[k - Len(s)]
  BY ConcatProperties, LenProperties
<1>2. CASE Holds(s, y)
  <2>1. PICK k \in 1 .. Len(s) : s[k] = y
    BY <1>2 DEF Holds
  <2>2. k \in 1 .. Len(s \o t) /\ (s \o t)[k] = y
    BY <1>1, <2>1
  <2>3. QED BY <2>2, Zenon DEF Holds
<1>3. CASE Holds(t, y)
  <2>1. PICK k \in 1 .. Len(t) : t[k] = y
    BY <1>3 DEF Holds
  <2>2. Len(s) + k \in 1 .. Len(s \o t) /\ (s \o t)[Len(s) + k] = y
    BY <1>1, <2>1
  <2>3. QED BY <2>2, Zenon DEF Holds
<1>4. QED BY <1>2, <1>3

LEMMA HoldsTail ==
  ASSUME NEW S, NEW s \in Seq(S), s # <<>>, NEW y, Holds(s, y), y # Head(s)
  PROVE  Holds(Tail(s), y)
<1>1. PICK k \in 1 .. Len(s) : s[k] = y
  BY DEF Holds
<1>2. k # 1 /\ Len(s) \in Nat
  BY <1>1, HeadTailProperties, LenProperties
<1>3. Len(Tail(s)) = Len(s) - 1 /\ \A j \in 1 .. Len(Tail(s)) : Tail(s)[j] = s[j + 1]
  BY HeadTailProperties
<1>4. k - 1 \in 1 .. Len(Tail(s)) /\ Tail(s)[k - 1] = y
  BY <1>1, <1>2, <1>3
<1>5. QED BY <1>4, Zenon DEF Holds

Remembered(r) == r \in timers \/ Holds(endWaiters, r) \/ Holds(jobs, r)

(* Settling the waiters moves them among the jobs and answers the ends.    *)
LEMMA SettleRemembers ==
  ASSUME TypeOK, SettleEndWaiters, NEW y
  PROVE  /\ (Holds(endWaiters, y) \/ Holds(jobs, y)) => Holds(jobs', y)
         /\ NothingForgotten => \A e \in End : ended'[e] # "waiting"
<1>1. jobs' = jobs \o endWaiters
      /\ endWaiters \in Seq(Request \cup End) /\ jobs \in Seq(Request \cup End)
  BY DEF SettleEndWaiters, TypeOK
<1>2. (Holds(endWaiters, y) \/ Holds(jobs, y)) => Holds(jobs', y)
  BY <1>1, HoldsJoined
<1>3. ASSUME NothingForgotten, NEW e \in End PROVE ended'[e] # "waiting"
  BY <1>3 DEF SettleEndWaiters, NothingForgotten, Holds
<1>4. QED BY <1>2, <1>3

(* A step that keeps timers, waiters and jobs and makes nothing wait.      *)
LEMMA NothingNewWaits ==
  ASSUME NothingForgotten, UNCHANGED <<timers, endWaiters, jobs, ended>>,
         \A r \in Request : outcome'[r] = "waiting" => outcome[r] = "waiting"
  PROVE  NothingForgotten'
BY DEF NothingForgotten, Holds

LEMMA RememberStep ==
  ASSUME TypeOK, NothingForgotten, [Next]_vars
  PROVE  NothingForgotten'
<1>1. ASSUME NEW r \in Request, RequestSameMode(r) \/ RequestWhileBusy(r)
      PROVE  NothingForgotten'
  <2>1. \A q \in Request : outcome'[q] = "waiting" => outcome[q] = "waiting"
    BY <1>1 DEF RequestSameMode, RequestWhileBusy, TypeOK
  <2>2. QED BY <1>1, <2>1, NothingNewWaits
            DEF RequestSameMode, RequestWhileBusy, requestVars, endVars
<1>2. ASSUME NEW r \in Request, RequestFresh(r) PROVE NothingForgotten'
  <2>1. timers' = timers \cup {r} /\ UNCHANGED <<endWaiters, jobs, ended>>
    BY <1>2 DEF RequestFresh, BeginRequest, endVars
  <2>2. \A q \in Request : outcome'[q] = "waiting" => outcome[q] = "waiting" \/ q = r
    BY <1>2 DEF RequestFresh, TypeOK
  <2>3. QED BY <2>1, <2>2 DEF NothingForgotten, Holds
<1>3. ASSUME NEW r \in Request, RequestWithSwitch(r) PROVE NothingForgotten'
  <2>1. /\ endWaiters' = Append(endWaiters, r) /\ UNCHANGED <<timers, jobs, ended>>
        /\ endWaiters \in Seq(Request \cup End) /\ r \in Request \cup End
    BY <1>3 DEF RequestWithSwitch, TypeOK
  <2>2. \A q \in Request : outcome'[q] = "waiting" => outcome[q] = "waiting" \/ q = r
    BY <1>3 DEF RequestWithSwitch, TypeOK
  <2>3. Holds(endWaiters', r) /\ \A y : Holds(endWaiters, y) => Holds(endWaiters', y)
    BY <2>1, HoldsAppended
  <2>4. \A y : Holds(jobs', y) <=> Holds(jobs, y)
    BY <2>1
  <2>5. QED BY <2>1, <2>2, <2>3, <2>4 DEF NothingForgotten
<1>4. CASE SwitchContinues
  <2>1. /\ jobs' = Tail(jobs) /\ jobs # <<>> /\ jobs \in Seq(Request \cup End)
        /\ UNCHANGED <<endWaiters, ended, outcome>>
    BY <1>4 DEF SwitchContinues, TypeOK
  <2>2. \A y : Holds(jobs, y) /\ y # Head(jobs) => Holds(jobs', y)
    BY <2>1, HoldsTail
  <2>3. timers \subseteq timers'
        /\ (Head(jobs) \in Request /\ outcome[Head(jobs)] = "waiting" => Head(jobs) \in timers')
    BY <1>4 DEF SwitchContinues, BeginRequest, requestVars
  <2>4. \A y : Holds(endWaiters', y) <=> Holds(endWaiters, y)
    BY <2>1
  <2>5. QED BY <2>1, <2>2, <2>3, <2>4 DEF NothingForgotten
<1>5. ASSUME NEW r \in Request, RequestTimeout(r) PROVE NothingForgotten'
  <2>1. \A q \in Request : outcome'[q] = "waiting" => outcome[q] = "waiting" /\ q # r
    BY <1>5 DEF RequestTimeout, Settled, TypeOK
  <2>2. timers' = timers \ {r} /\ UNCHANGED <<endWaiters, jobs, ended>>
    BY <1>5 DEF RequestTimeout, endVars
  <2>3. QED BY <2>1, <2>2 DEF NothingForgotten, Holds
<1>6. ASSUME NEW e \in End, EndSession(e) PROVE NothingForgotten'
  <2>1. UNCHANGED <<timers, jobs, outcome>> /\ \A y : Holds(jobs', y) <=> Holds(jobs, y)
    BY <1>6 DEF EndSession, requestVars
  <2>2. endWaiters \in Seq(Request \cup End) /\ e \in Request \cup End
    BY DEF TypeOK
  <2>3. CASE sessionState = "none"
    <3>1. UNCHANGED endWaiters /\ \A d \in End : ended'[d] = "waiting" => ended[d] = "waiting"
      BY <1>6, <2>3 DEF EndSession, TypeOK
    <3>2. QED BY <2>1, <3>1 DEF NothingForgotten, Holds
  <2>4. CASE sessionState # "none"
    <3>1. /\ endWaiters' = Append(endWaiters, e)
          /\ \A d \in End : ended'[d] = "waiting" => ended[d] = "waiting" \/ d = e
      BY <1>6, <2>4 DEF EndSession, TypeOK
    <3>2. Holds(endWaiters', e) /\ \A y : Holds(endWaiters, y) => Holds(endWaiters', y)
      BY <2>2, <3>1, HoldsAppended
    <3>3. QED BY <2>1, <3>1, <3>2 DEF NothingForgotten
  <2>5. QED BY <2>3, <2>4
<1>7. CASE SetCapabilities \/ ClearCapabilityOverrides \/ RefreshCapabilities \/ HostFrame
  BY <1>7, NothingNewWaits
     DEF SetCapabilities, ClearCapabilityOverrides, RefreshCapabilities, HostFrame,
         requestVars, endVars
<1>8. CASE Dispose
  <2>1. SettleEndWaiters /\ endWaiters' = <<>>
    BY <1>8 DEF Dispose, SettleEndWaiters
  <2>2. \A r \in Request : outcome'[r] = "waiting" =>
          outcome[r] = "waiting" /\ (r \in timers => r \in timers')
    BY <1>8 DEF Dispose, Settled, TypeOK
  <2>3. QED BY <2>1, <2>2, SettleRemembers DEF NothingForgotten
<1>9. CASE FinishSessionChange
  <2>1. UNCHANGED <<timers, outcome>>
    BY <1>9 DEF FinishSessionChange, requestVars
  <2>2. CASE SettleEndWaiters
    BY <2>1, <2>2, SettleRemembers DEF NothingForgotten
  <2>3. CASE UNCHANGED endVars
    BY <2>1, <2>3, NothingNewWaits DEF endVars
  <2>4. QED BY <1>9, <2>2, <2>3 DEF FinishSessionChange
<1>10. CASE HostBegins \/ HostChanges \/ HostEnds
  <2>1. PICK s : HostMoves(s)
    BY <1>10, HostModeType
  <2>2. UNCHANGED <<endWaiters, jobs, ended>>
    BY <2>1 DEF HostMoves, endVars
  <2>3. \A r \in Request : outcome'[r] = "waiting" =>
          outcome[r] = "waiting" /\ (r \in timers => r \in timers')
    BY <2>1 DEF HostMoves, HandleSessionChange, Settled, TypeOK, requestVars
  <2>4. QED BY <2>2, <2>3 DEF NothingForgotten, Holds
<1>11. CASE HostRefuses
  <2>1. UNCHANGED <<endWaiters, jobs, ended>>
    BY <1>11 DEF HostRefuses, endVars
  <2>2. \A r \in Request : outcome'[r] = "waiting" =>
          outcome[r] = "waiting" /\ (r \in timers => r \in timers')
    BY <1>11 DEF HostRefuses, HandleRefusal, Settled, TypeOK, requestVars
  <2>3. QED BY <2>1, <2>2 DEF NothingForgotten, Holds
<1>12. CASE UNCHANGED vars
  BY <1>12, NothingNewWaits DEF vars, requestVars, endVars
<1>13. QED BY <1>1, <1>2, <1>3, <1>4, <1>5, <1>6, <1>7, <1>8, <1>9, <1>10, <1>11, <1>12
           DEF Next, App, Host, Engine

(* However requests overlap and whenever the app disposes of the adapter,  *)
(* a request that has not resolved has its timer, its place among the end  *)
(* waiters or its continuation among the jobs, and an end that has not     *)
(* resolved is among the waiters (native-runtime-adapter.ts 391-447).      *)
THEOREM NoPromiseIsForgotten ==
  Spec => []NothingForgotten
<1>1. Init => NothingForgotten
  BY DEF Init, NothingForgotten
<1>2. TypeOK /\ NothingForgotten /\ [Next]_vars => NothingForgotten'
  BY RememberStep
<1>3. QED BY <1>1, <1>2, TypeCorrect, PTL DEF Spec

-----------------------------------------------------------------------------
(* An answer of ok is the truth.  The mode a grant gives the adapter is    *)
(* that of the request it answers because both were written together.      *)

PendingModeInv == pending # None => pendingMode = ModeOf[pending]

LEMMA PendingModeStep ==
  ASSUME TypeOK, PendingModeInv, [Next]_vars
  PROVE  PendingModeInv'
<1>1. CASE \E r \in Request : BeginRequest(r)
  BY <1>1 DEF BeginRequest, PendingModeInv
<1>2. CASE pending' = None
  BY <1>2 DEF PendingModeInv
<1>3. CASE UNCHANGED <<pending, pendingMode>>
  BY <1>3 DEF PendingModeInv
<1>4. QED
  BY <1>1, <1>2, <1>3, HostModeType
  DEF Next, App, Host, Engine, RequestSameMode, RequestWhileBusy, RequestFresh,
      RequestWithSwitch, SwitchContinues, RequestTimeout, EndSession, SetCapabilities,
      ClearCapabilityOverrides, RefreshCapabilities, Dispose, FinishSessionChange,
      HostMoves, HandleSessionChange, HostRefuses, HandleRefusal, HostFrame,
      vars, requestVars

Truthful ==
  \A r \in Request : (outcome[r] # "ok" /\ outcome'[r] = "ok") =>
    sessionState' = "active" /\ mode' = ModeOf[r]

LEMMA TruthfulStep ==
  ASSUME TypeOK, PendingModeInv, [Next]_vars
  PROVE  Truthful
<1> SUFFICES ASSUME NEW r \in Request, outcome[r] # "ok", outcome'[r] = "ok"
             PROVE  sessionState' = "active" /\ mode' = ModeOf[r]
  BY DEF Truthful
<1>1. ASSUME NEW q \in Request, RequestSameMode(q)
      PROVE  sessionState' = "active" /\ mode' = ModeOf[r]
  BY <1>1 DEF RequestSameMode, TypeOK, stateVars
<1>2. ASSUME NEW s, HostMoves(s)
      PROVE  sessionState' = "active" /\ mode' = ModeOf[r]
  <2>1. HandleSessionChange(s)
    BY <1>2 DEF HostMoves
  <2>2. /\ pending # None /\ sessionState' = "active" /\ mode' = pendingMode
        /\ outcome' = Settled(outcome, pending, "ok")
    BY <2>1 DEF HandleSessionChange
  <2>3. r = pending
    BY <2>2 DEF Settled, TypeOK
  <2>4. QED BY <2>2, <2>3 DEF PendingModeInv
<1>3. \/ \E q \in Request : RequestSameMode(q)
      \/ \E s : HostMoves(s)
  <2>1. ASSUME NEW f, NEW q, outcome' = Settled(outcome, q, f), f # "ok" PROVE FALSE
    BY <2>1 DEF Settled, TypeOK
  <2>2. ASSUME NEW q \in Request, NEW f, outcome' = [outcome EXCEPT ![q] = f], f # "ok"
        PROVE  FALSE
    BY <2>2 DEF TypeOK
  <2>3. outcome' # outcome
    OBVIOUS
  <2>4. ASSUME NEW q \in Request, RequestWhileBusy(q) \/ RequestFresh(q) \/ RequestWithSwitch(q)
        PROVE  FALSE
    BY <2>2, <2>4 DEF RequestWhileBusy, RequestFresh, RequestWithSwitch
  <2>5. ASSUME NEW q \in Request, RequestTimeout(q) PROVE FALSE
    BY <2>1, <2>5 DEF RequestTimeout
  <2>6. ~Dispose /\ ~HostRefuses
    BY <2>1, <2>3 DEF Dispose, HostRefuses, HandleRefusal
  <2>7. QED
    BY <2>3, <2>4, <2>5, <2>6, HostModeType
    DEF Next, App, Host, Engine, SwitchContinues, EndSession, SetCapabilities,
        ClearCapabilityOverrides, RefreshCapabilities, FinishSessionChange, HostFrame, vars
<1>4. QED BY <1>1, <1>2, <1>3

(* A request resolves ok only when the adapter is active in the mode it    *)
(* asked for, whatever other requests were made, refused or timed out      *)
(* (native-runtime-adapter.ts 296-310, 375-378).                           *)
THEOREM OkIsTheTruth ==
  Spec => GrantedIsLive
<1>1. Init => PendingModeInv
  BY DEF Init, PendingModeInv
<1>2. TypeOK /\ PendingModeInv /\ [Next]_vars => PendingModeInv'
  BY PendingModeStep
<1>3. TypeOK /\ PendingModeInv /\ [Next]_vars
        => [\A r \in Request : (outcome[r] # "ok" /\ outcome'[r] = "ok") =>
               sessionState' = "active" /\ mode' = ModeOf[r]]_vars
  BY TruthfulStep DEF Truthful
<1>4. QED BY <1>1, <1>2, <1>3, TypeCorrect, PTL DEF Spec, GrantedIsLive

-----------------------------------------------------------------------------
(* One request at a time.  An app that waits for each answer, listeners    *)
(* that do not call back, jobs that run before the next task and an        *)
(* adapter that stays: then the state, the request at the host and the     *)
(* host's session keep to each other.                                      *)

Serially == ~Concurrent /\ ~Nested /\ ~Disposes /\ JobsFirst

OneAtATime ==
  \A q, r \in Request : outcome[q] = "waiting" /\ outcome[r] = "waiting" => q = r

(* Nobody calls the host from a listener, so its answers come alone. *)
Unbroken == ~disposed /\ answering = 0 /\ info = hostState

(* A request is at the host or waits for the end of a session; while it is *)
(* at the host there is no live session.                                   *)
Asked ==
  /\ requesting => pending # None
  /\ pending # None => requesting
  /\ timers \subseteq {pending}
  /\ pending # None => /\ outcome[pending] = "waiting" /\ pendingMode = ModeOf[pending]
                       /\ info \in {"none", "idle", "exiting"} /\ mode = None
                       /\ switchRefusal = None
  /\ switchRefusal # None => outcome[switchRefusal] = "waiting"
  /\ sessionState = "requesting" => pending # None

(* The state shows the host's session; only a host that exits may be       *)
(* forgotten before it is gone, by the failure of a request.               *)
Shown ==
  /\ info \in Live => sessionState = "active"
  /\ info = "stopping" => sessionState = "ending"
  /\ info = "exiting" => sessionState # "active"
  /\ info \in {"none", "idle"} => sessionState \in {"none", "requesting"}
  /\ sessionState \in {"none", "requesting"} \/ info = "exiting" => mode = None

(* The listeners hear of the state as it is, and continuations run before  *)
(* another session can begin.                                              *)
Told ==
  /\ handling # <<>> =>
       /\ Len(handling) = 1 /\ jobs = <<>>
       /\ Head(handling).info = info /\ Head(handling).state = sessionState
       /\ info = "exiting" => sessionState = "ending"
  /\ handling = <<>> => derived = info
  /\ jobs # <<>> => info \in {"none", "idle"}
  /\ overrides = {} => immersive = (derived \in Live)

Serial == OneAtATime /\ Unbroken /\ Asked /\ Shown /\ Told

LEMMA NothingElseRuns ==
  ASSUME Serially, TypeOK, Serial, AppRuns \/ HostRuns \/ Quiet
  PROVE  handling = <<>> /\ jobs = <<>>
<1>1. handling # <<>> => answering # Len(handling)
  BY DEF Serial, Told, Unbroken
<1>2. QED BY <1>1 DEF AppRuns, HostRuns, Quiet, Serially

LEMMA NobodyWaits ==
  ASSUME Serially, TypeOK, Serial, NEW r \in Request, MayRequest(r)
  PROVE  /\ handling = <<>> /\ jobs = <<>> /\ outcome[r] = "idle"
         /\ \A q \in Request : outcome[q] # "waiting"
         /\ pending = None /\ switchRefusal = None /\ timers = {} /\ ~requesting
<1>1. handling = <<>> /\ jobs = <<>>
  BY NothingElseRuns DEF MayRequest
<1>2. outcome[r] = "idle" /\ \A q \in Request : outcome[q] # "waiting"
  BY DEF MayRequest, Serially
<1>3. pending = None /\ switchRefusal = None
  BY <1>2 DEF TypeOK, Serial, Asked
<1>4. timers = {} /\ ~requesting
  BY <1>3, NativeAssumption DEF TypeOK, Serial, Asked
<1>5. QED BY <1>1, <1>2, <1>3, <1>4

(* A request reaches the host when it is the only one and no session is    *)
(* live.                                                                   *)
LEMMA SerialBegins ==
  ASSUME TypeOK, Serial, NEW r \in Request, BeginRequest(r),
         handling = <<>>, sessionState \in {"none", "requesting"}, info \notin Live,
         info # "stopping",
         outcome'[r] = "waiting",
         \A q \in Request : outcome'[q] = "waiting" => q = r,
         switchRefusal' = None, pending \in {None, r},
         UNCHANGED <<hostState, info, derived, overrides, immersive, handling, disposed>>,
         jobs' = <<>> \/ jobs # <<>>
  PROVE  Serial'
<1>1. r # None
  BY NativeAssumption
<1>2. /\ pending' = r /\ requesting' /\ pendingMode' = ModeOf[r]
      /\ sessionState' = "requesting" /\ mode' = mode /\ mode = None
  BY DEF BeginRequest, SetState, Serial, Shown
<1>3. timers' \subseteq {r}
  BY NativeAssumption DEF BeginRequest, Serial, Asked, TypeOK
<1>4. answering' = 0
  BY DEF BeginRequest, CallsHost
<1>5. info \in {"none", "idle", "exiting"}
  BY DEF TypeOK, AnyHostState
<1>6. OneAtATime' /\ Unbroken'
  BY <1>4 DEF Serial, OneAtATime, Unbroken
<1>7. Asked'
  BY <1>1, <1>2, <1>3, <1>5 DEF Asked
<1>8. Shown'
  BY <1>2, <1>5 DEF Serial, Shown, Live
<1>9. Told'
  BY DEF Serial, Told
<1>10. QED BY <1>6, <1>7, <1>8, <1>9 DEF Serial

(* A request that was at the host fails.                                   *)
LEMMA SerialFails ==
  ASSUME TypeOK, Serial, pending # None, handling = <<>>, NEW result \in Failure,
         pending' = None, requesting' = FALSE, timers' = timers \ {pending},
         SetState("none"), outcome' = Settled(outcome, pending, result),
         UNCHANGED <<hostState, info, derived, overrides, immersive, handling, jobs, answering,
                     disposed, switchRefusal>>
  PROVE  Serial'
<1>1. pending \in Request /\ result # "waiting"
  BY DEF TypeOK, Failure
<1>2. \A q \in Request : outcome'[q] # "waiting"
  BY <1>1 DEF TypeOK, Serial, OneAtATime, Asked, Settled
<1>3. sessionState' = "none" /\ mode' = None
  BY DEF SetState, Serial, Asked
<1>4. info \in {"none", "idle", "exiting"} /\ switchRefusal = None
  BY DEF Serial, Asked
<1>5. OneAtATime' /\ Unbroken'
  BY <1>2 DEF Serial, OneAtATime, Unbroken
<1>6. Asked'
  BY <1>3, <1>4 DEF Serial, Asked
<1>7. Shown'
  BY <1>3, <1>4 DEF Shown, Live
<1>8. Told'
  BY DEF Serial, Told
<1>9. QED BY <1>5, <1>6, <1>7, <1>8 DEF Serial

(* The host's session goes to s: the adapter shows it and answers the      *)
(* request that was at the host, if it is live.                            *)
LEMMA SerialMoves ==
  ASSUME Serially, TypeOK, Serial, NEW s, HostMoves(s),
         s \in Live => info \in Live \cup {"none", "idle"},
         s \in {"stopping"} => info \in Live,
         s \in {"exiting"} => info = "idle"
  PROVE  Serial'
<1>1. handling = <<>> /\ jobs = <<>> /\ ~disposed
  BY NothingElseRuns DEF HostMoves, Serial, Unbroken
<1>2. HandleSessionChange(s) /\ UNCHANGED switchRefusal /\ hostState' = s /\ s \in AnyHostState
      /\ UNCHANGED <<endWaiters, jobs, ended, derived, overrides, immersive, answering, disposed>>
  BY <1>1, NativeAssumption DEF HostMoves, endVars
<1> DEFINE next == ToSessionState(s, requesting)
           call == [info |-> s, state |-> next, told |-> next # sessionState]
<1>3. info' = s /\ sessionState' = next
  BY <1>2 DEF HandleSessionChange
<1>4. handling' = <<call>>
  BY <1>1, <1>2 DEF HandleSessionChange
<1>5. /\ s \in Live => next = "active"
      /\ s \in {"stopping", "exiting"} => next = "ending"
      /\ s \in {"none", "idle"} /\ requesting => next = "requesting"
      /\ s \in {"none", "idle"} /\ ~requesting => next = "none"
  BY <1>2 DEF ToSessionState, Live, TypeOK
<1>6. Unbroken'
  BY <1>1, <1>2, <1>3 DEF Serial, Unbroken
<1>7. Told'
  <2>1. Len(handling') = 1 /\ Head(handling') = call /\ handling' # <<>>
    BY <1>4
  <2>2. Head(handling').info = info' /\ Head(handling').state = sessionState'
    BY <1>3, <2>1
  <2>3. overrides' = {} => immersive' = (derived' \in Live)
    BY <1>2 DEF Serial, Told
  <2>4. jobs' = <<>>
    BY <1>1, <1>2
  <2>5. info' = "exiting" => sessionState' = "ending"
    BY <1>3, <1>5
  <2>6. QED BY <2>1, <2>2, <2>3, <2>4, <2>5 DEF Told
<1>8. CASE next = "active" /\ pending # None
  <2>1. /\ pending' = None /\ requesting' = FALSE /\ timers' = timers \ {pending}
        /\ outcome' = Settled(outcome, pending, "ok") /\ mode' = pendingMode
    BY <1>2, <1>8 DEF HandleSessionChange
  <2>2. \A q \in Request : outcome'[q] # "waiting"
    BY <1>8, <2>1 DEF TypeOK, Serial, OneAtATime, Asked, Settled
  <2>3. s \in Live
    BY <1>2, <1>5, <1>8 DEF AnyHostState
  <2>4. OneAtATime'
    BY <2>2 DEF OneAtATime
  <2>5. Asked'
    <3>1. switchRefusal' = None /\ timers' = {}
      BY <1>2, <1>8, <2>1 DEF Serial, Asked
    <3>2. QED BY <1>3, <1>8, <2>1, <3>1 DEF Asked
  <2>6. Shown'
    BY <1>3, <1>8, <2>3 DEF Shown, Live
  <2>7. QED BY <1>6, <1>7, <2>4, <2>5, <2>6 DEF Serial
<1>9. CASE ~(next = "active" /\ pending # None)
  <2>1. /\ UNCHANGED <<timers, pending, requesting, pendingMode, outcome>>
        /\ mode' = IF next = "none" /\ sessionState # "none" THEN None ELSE mode
    BY <1>2, <1>9 DEF HandleSessionChange
  <2>2. OneAtATime'
    BY <2>1 DEF Serial, OneAtATime
  <2>3. ASSUME pending # None PROVE s \in {"none", "idle", "exiting"} /\ mode' = None
    <3>1. s \notin Live
      BY <1>5, <1>9, <2>3
    <3>2. s # "stopping"
      BY <2>3 DEF Serial, Asked, Live
    <3>3. QED BY <1>2, <2>1, <2>3, <3>1, <3>2 DEF AnyHostState, Serial, Asked
  <2>4. next = "requesting" => pending # None
    BY <1>2, <1>5 DEF AnyHostState, Serial, Asked
  <2>5. Asked'
    BY <1>2, <1>3, <2>1, <2>3, <2>4 DEF Serial, Asked
  <2>6. next \in {"none", "requesting"} => mode' = None
    BY <2>1, <2>3, <2>4 DEF Serial, Shown
  <2>7. s = "exiting" => mode' = None
    BY <2>1 DEF Serial, Shown
  <2>8. s \in {"none", "idle"} => next \in {"none", "requesting"}
    BY <1>5 DEF TypeOK
  <2>9. Shown'
    BY <1>3, <1>5, <2>6, <2>7, <2>8 DEF Shown, Live
  <2>10. QED BY <1>6, <1>7, <2>2, <2>5, <2>9 DEF Serial
<1>10. QED BY <1>8, <1>9

(* A step that leaves the request, the state and the host alone.           *)
LEMMA SerialKeeps ==
  ASSUME Serial,
         UNCHANGED <<hostState, info, answering, disposed, sessionState, mode>>,
         UNCHANGED <<requesting, pending, pendingMode, timers, switchRefusal>>,
         \A q \in Request : outcome'[q] = "waiting" => outcome[q] = "waiting",
         \A q \in Request : outcome[q] = "waiting" => outcome'[q] = "waiting",
         Told',
         TypeOK
  PROVE  Serial'
<1>1. OneAtATime' /\ Unbroken'
  BY DEF Serial, OneAtATime, Unbroken
<1>2. Asked' /\ Shown'
  BY DEF TypeOK, Serial, Asked, Shown
<1>3. QED BY <1>1, <1>2 DEF Serial

LEMMA SerialRequests ==
  ASSUME Serially, TypeOK, Serial, NEW r \in Request,
         RequestSameMode(r) \/ RequestWhileBusy(r) \/ RequestFresh(r) \/ RequestWithSwitch(r)
  PROVE  Serial'
<1>1. MayRequest(r)
  BY DEF RequestSameMode, RequestWhileBusy, RequestFresh, RequestWithSwitch
<1>2. /\ handling = <<>> /\ jobs = <<>> /\ outcome[r] = "idle"
      /\ \A q \in Request : outcome[q] # "waiting"
      /\ pending = None /\ switchRefusal = None /\ timers = {} /\ ~requesting
  BY <1>1, NobodyWaits
<1>3. CASE RequestSameMode(r) \/ RequestWhileBusy(r)
  <2>1. /\ UNCHANGED <<hostState, info, answering, disposed, sessionState, mode>>
        /\ UNCHANGED <<requesting, pending, pendingMode, timers, switchRefusal>>
        /\ UNCHANGED <<handling, jobs, derived, overrides, immersive>>
    BY <1>3 DEF RequestSameMode, RequestWhileBusy, hostVars, requestVars, stateVars, endVars,
                viewVars, callVars
  <2>2. \A q \in Request : outcome'[q] # "waiting"
    BY <1>2, <1>3 DEF RequestSameMode, RequestWhileBusy, TypeOK
  <2>3. Told'
    BY <2>1 DEF Serial, Told
  <2>4. QED BY <1>2, <2>1, <2>2, <2>3, SerialKeeps
<1>4. CASE RequestFresh(r)
  <2>1. outcome'[r] = "waiting" /\ \A q \in Request : outcome'[q] = "waiting" => q = r
    BY <1>2, <1>4 DEF RequestFresh, TypeOK
  <2>2. /\ UNCHANGED <<hostState, info, derived, overrides, immersive, handling, disposed, jobs,
                       switchRefusal>>
        /\ BeginRequest(r) /\ sessionState = "none"
    BY <1>4 DEF RequestFresh, endVars, viewVars
  <2>3. info \notin Live /\ info # "stopping"
    BY <2>2 DEF Serial, Shown
  <2>4. QED BY <1>2, <2>1, <2>2, <2>3, SerialBegins
<1>5. CASE RequestWithSwitch(r)
  <2>1. outcome'[r] = "waiting" /\ \A q \in Request : outcome'[q] = "waiting" => q = r
    BY <1>2, <1>5 DEF RequestWithSwitch, TypeOK
  <2>2. /\ UNCHANGED <<hostState, info, derived, overrides, immersive, handling, disposed>>
        /\ UNCHANGED <<sessionState, mode, jobs>>
        /\ UNCHANGED <<pendingMode, requesting, pending, timers>>
        /\ switchRefusal' = r /\ answering' = 0
    BY <1>2, <1>5 DEF RequestWithSwitch, CallsHost, viewVars, stateVars
  <2>3. OneAtATime' /\ Unbroken'
    BY <2>1, <2>2 DEF Serial, OneAtATime, Unbroken
  <2>4. Asked'
    <3>1. sessionState # "requesting"
      BY <1>2 DEF Serial, Asked
    <3>2. QED BY <1>2, <2>1, <2>2, <3>1 DEF Asked
  <2>5. Shown' /\ Told'
    BY <2>2 DEF Serial, Shown, Told
  <2>6. QED BY <2>3, <2>4, <2>5 DEF Serial
<1>6. QED BY <1>3, <1>4, <1>5

LEMMA SerialStep ==
  ASSUME Serially, TypeOK, Serial, [Next]_vars
  PROVE  Serial'
<1>1. ASSUME NEW r \in Request,
             RequestSameMode(r) \/ RequestWhileBusy(r) \/ RequestFresh(r) \/ RequestWithSwitch(r)
      PROVE  Serial'
  BY <1>1, SerialRequests
<1>2. CASE SwitchContinues
  <2>1. /\ handling = <<>> /\ jobs # <<>> /\ jobs' = Tail(jobs)
        /\ UNCHANGED <<hostState, info, derived, overrides, immersive, handling, disposed, outcome>>
    BY <1>2 DEF SwitchContinues, viewVars
  <2>2. info \in {"none", "idle"} /\ sessionState \in {"none", "requesting"}
    BY <2>1 DEF Serial, Told, Shown
  <2>3. CASE Head(jobs) \in Request /\ outcome[Head(jobs)] = "waiting"
    <3>1. BeginRequest(Head(jobs)) /\ switchRefusal' = None
      BY <1>2, <2>3 DEF SwitchContinues
    <3>2. \A q \in Request : outcome'[q] = "waiting" => q = Head(jobs)
      BY <2>1, <2>3 DEF Serial, OneAtATime
    <3>3. pending \in {None, Head(jobs)}
      BY <2>3 DEF TypeOK, Serial, Asked, OneAtATime
    <3>4. outcome'[Head(jobs)] = "waiting" /\ info \notin Live /\ info # "stopping"
      BY <2>1, <2>2, <2>3 DEF Live
    <3>5. QED BY <2>1, <2>2, <2>3, <3>1, <3>2, <3>3, <3>4, SerialBegins
  <2>4. CASE ~(Head(jobs) \in Request /\ outcome[Head(jobs)] = "waiting")
    <3>1. /\ UNCHANGED <<sessionState, mode, answering>>
          /\ UNCHANGED <<requesting, pending, pendingMode, timers, switchRefusal>>
      BY <1>2, <2>4 DEF SwitchContinues, requestVars, stateVars
    <3>2. Told'
      BY <2>1, <2>2, <3>1 DEF Serial, Told
    <3>3. QED BY <2>1, <3>1, <3>2, SerialKeeps
  <2>5. QED BY <2>3, <2>4
<1>3. ASSUME NEW r \in Request, RequestTimeout(r) PROVE Serial'
  <2>1. /\ handling = <<>> /\ r \in timers /\ r = pending /\ pending # None
    BY <1>3, NativeAssumption, NothingElseRuns DEF RequestTimeout, TypeOK, Serial, Asked
  <2>2. "timeout" \in Failure
    BY DEF Failure
  <2>3. /\ pending' = None /\ requesting' = FALSE /\ timers' = timers \ {pending}
        /\ SetState("none") /\ outcome' = Settled(outcome, pending, "timeout")
        /\ UNCHANGED <<hostState, info, derived, overrides, immersive, handling, jobs, answering,
                       disposed, switchRefusal>>
    BY <1>3, <2>1 DEF RequestTimeout, hostVars, endVars, viewVars, callVars
  <2>4. QED BY <2>1, <2>2, <2>3, SerialFails
<1>4. ASSUME NEW e \in End, EndSession(e) PROVE Serial'
  <2>1. AppRuns
    BY <1>4 DEF EndSession
  <2>2. handling = <<>> /\ answering = 0
    BY <2>1, NothingElseRuns DEF Serial, Unbroken
  <2>3. answering' = 0
    BY <1>4, <2>2 DEF EndSession, CallsHost
  <2>4. /\ UNCHANGED <<hostState, info, disposed, sessionState, mode, outcome>>
        /\ UNCHANGED <<requesting, pending, pendingMode, timers, switchRefusal>>
        /\ UNCHANGED <<handling, jobs, derived, overrides, immersive>>
    BY <1>4 DEF EndSession, requestVars, stateVars, viewVars
  <2>5. Told'
    BY <2>4 DEF Serial, Told
  <2>6. QED BY <2>2, <2>3, <2>4, <2>5, SerialKeeps
<1>5. CASE SetCapabilities \/ ClearCapabilityOverrides \/ RefreshCapabilities \/ HostFrame
  <2>1. Quiet
    BY <1>5 DEF SetCapabilities, ClearCapabilityOverrides, RefreshCapabilities, HostFrame
  <2>2. handling = <<>> /\ jobs = <<>>
    BY <2>1, NothingElseRuns
  <2>3. /\ UNCHANGED <<hostState, answering, disposed, sessionState, mode, outcome>>
        /\ UNCHANGED <<requesting, pending, pendingMode, timers, switchRefusal, handling, jobs>>
        /\ info' = info
    BY <1>5 DEF SetCapabilities, ClearCapabilityOverrides, RefreshCapabilities, HostFrame,
                hostVars, requestVars, stateVars, endVars, callVars, Serial, Unbroken
  <2>4. derived' = info
    BY <1>5, <2>2 DEF SetCapabilities, ClearCapabilityOverrides, RefreshCapabilities, HostFrame,
                      Serial, Unbroken, Told
  <2>5. overrides' = {} => immersive' = (derived' \in Live)
    <3>1. CASE SetCapabilities
      <4>1. overrides' # {}
        BY <3>1, Zenon DEF SetCapabilities
      <4>2. QED BY <4>1
    <3>2. CASE ClearCapabilityOverrides
      BY <3>2 DEF ClearCapabilityOverrides, Effective
    <3>3. CASE RefreshCapabilities
      <4>1. ASSUME overrides = {} PROVE immersive' = (hostState \in Live)
        BY <3>3, <4>1 DEF RefreshCapabilities, Effective
      <4>2. overrides' = overrides /\ derived' = hostState
        BY <3>3 DEF RefreshCapabilities
      <4>3. QED BY <4>1, <4>2
    <3>4. CASE HostFrame
      BY <3>4 DEF HostFrame, Serial, Told
    <3>5. QED BY <1>5, <3>1, <3>2, <3>3, <3>4
  <2>6. Told'
    BY <2>2, <2>3, <2>4, <2>5 DEF Told
  <2>7. QED BY <2>3, <2>6, SerialKeeps
<1>6. CASE Dispose
  BY <1>6 DEF Dispose, Serially
<1>7. CASE FinishSessionChange
  <2>1. /\ handling # <<>> /\ Len(handling) = 1 /\ jobs = <<>>
        /\ Head(handling).info = info /\ Head(handling).state = sessionState
        /\ answering = 0
    BY <1>7 DEF FinishSessionChange, Serial, Told, Unbroken
  <2>2. handling' = <<>> /\ answering' = 0 /\ derived' = info
        /\ immersive' = Effective(info, overrides)
    BY <1>7, <2>1 DEF FinishSessionChange, TypeOK
  <2>3. /\ UNCHANGED <<hostState, info, disposed, sessionState, mode, outcome, overrides>>
        /\ UNCHANGED <<requesting, pending, pendingMode, timers, switchRefusal>>
    BY <1>7 DEF FinishSessionChange, hostVars, requestVars, stateVars
  <2>4. jobs' # <<>> => sessionState = "none"
    BY <1>7, <2>1 DEF FinishSessionChange, endVars
  <2>5. jobs' # <<>> => info \in {"none", "idle"}
    <3>1. info # "exiting" \/ sessionState = "ending"
      BY <2>1 DEF Serial, Told
    <3>2. QED BY <2>4, <3>1 DEF TypeOK, AnyHostState, Serial, Shown
  <2>6. overrides' = {} => immersive' = (derived' \in Live)
    BY <2>2, <2>3 DEF Effective
  <2>7. Told'
    BY <2>2, <2>3, <2>5, <2>6 DEF Told
  <2>8. QED BY <2>1, <2>2, <2>3, <2>7, SerialKeeps
<1>8. CASE HostBegins
  <2>1. HostMoves("ready") /\ hostState \in {"none", "idle"}
    BY <1>8 DEF HostBegins
  <2>2. info \in {"none", "idle"}
    BY <2>1 DEF Serial, Unbroken
  <2>3. QED BY <2>1, <2>2, SerialMoves
<1>9. CASE HostChanges
  <2>1. CASE hostState \in Live /\ \E s \in Live \ {hostState, "ready"} : HostMoves(s)
    <3>1. PICK s \in Live : HostMoves(s)
      BY <2>1
    <3>2. info \in Live /\ s # "stopping" /\ s # "exiting"
      BY <2>1, <3>1 DEF Serial, Unbroken, Live
    <3>3. QED BY <3>1, <3>2, SerialMoves
  <2>2. CASE \E s \in AnyHostState :
             /\ <<hostState, s>> \in {<<"none", "idle">>, <<"idle", "none">>,
                                    <<"idle", "exiting">>, <<"exiting", "none">>}
             /\ HostMoves(s)
    <3>1. PICK s : /\ <<hostState, s>> \in {<<"none", "idle">>, <<"idle", "none">>,
                                          <<"idle", "exiting">>, <<"exiting", "none">>}
                   /\ HostMoves(s)
      BY <2>2
    <3>2. s \in {"none", "idle", "exiting"} /\ (s = "exiting" => info = "idle")
      BY <3>1 DEF Serial, Unbroken
    <3>3. s \notin Live /\ s # "stopping"
      BY <3>2 DEF Live
    <3>4. QED BY <3>1, <3>2, <3>3, SerialMoves
  <2>3. QED BY <1>9, <2>1, <2>2 DEF HostChanges
<1>10. CASE HostEnds
  <2>1. PICK s : /\ HostMoves(s) /\ s \in {"stopping", "idle", "none"}
                 /\ s = "stopping" => hostState \in Live
    BY <1>10 DEF HostEnds
  <2>2. s \notin Live /\ s # "exiting" /\ (s = "stopping" => info \in Live)
    BY <2>1 DEF Live, Serial, Unbroken
  <2>3. QED BY <2>1, <2>2, SerialMoves
<1>11. CASE HostRefuses
  <2>1. HostRuns /\ ~disposed
    BY <1>11 DEF HostRefuses, Serial, Unbroken
  <2>2. handling = <<>> /\ jobs = <<>> /\ HandleRefusal
    BY <1>11, <2>1, NothingElseRuns DEF HostRefuses
  <2>3. UNCHANGED <<hostState, info, derived, overrides, immersive, handling, jobs, answering, disposed>>
    BY <1>11 DEF HostRefuses, endVars, viewVars, callVars
  <2>4. "refused" \in Failure /\ "refused" # "waiting"
    BY DEF Failure
  <2>5. CASE switchRefusal # None
    <3>1. /\ switchRefusal' = None /\ outcome' = Settled(outcome, switchRefusal, "refused")
          /\ UNCHANGED <<pending, pendingMode, requesting, timers, sessionState, mode>>
      BY <2>2, <2>5 DEF HandleRefusal, stateVars
    <3>2. switchRefusal \in Request /\ outcome[switchRefusal] = "waiting" /\ pending = None
      BY <2>5 DEF TypeOK, Serial, Asked
    <3>3. \A q \in Request : outcome'[q] # "waiting"
      BY <3>1, <3>2 DEF TypeOK, Serial, OneAtATime, Settled
    <3>4. OneAtATime' /\ Unbroken'
      BY <2>3, <3>3 DEF Serial, OneAtATime, Unbroken
    <3>5. Asked' /\ Shown'
      BY <2>3, <3>1, <3>2 DEF Serial, Asked, Shown
    <3>6. Told'
      BY <2>3, <2>2 DEF Serial, Told
    <3>7. QED BY <3>4, <3>5, <3>6 DEF Serial
  <2>6. CASE switchRefusal = None /\ pending # None
    <3>1. /\ pending' = None /\ requesting' = FALSE /\ timers' = timers \ {pending}
          /\ SetState("none") /\ outcome' = Settled(outcome, pending, "refused")
          /\ UNCHANGED switchRefusal
      BY <2>2, <2>6 DEF HandleRefusal
    <3>2. QED BY <2>2, <2>3, <2>4, <2>6, <3>1, SerialFails
  <2>7. CASE switchRefusal = None /\ pending = None
    <3>1. /\ UNCHANGED <<requesting, pending, pendingMode, timers, switchRefusal>>
          /\ UNCHANGED <<sessionState, mode, outcome>>
      BY <2>2, <2>7 DEF HandleRefusal, requestVars, stateVars
    <3>2. Told'
      BY <2>2, <2>3 DEF Serial, Told
    <3>3. QED BY <2>3, <3>1, <3>2, SerialKeeps
  <2>8. QED BY <2>5, <2>6, <2>7
<1>12. CASE UNCHANGED vars
  <2>1. /\ UNCHANGED <<hostState, info, answering, disposed, sessionState, mode, outcome>>
        /\ UNCHANGED <<requesting, pending, pendingMode, timers, switchRefusal>>
        /\ UNCHANGED <<handling, jobs, derived, overrides, immersive>>
    BY <1>12 DEF vars, hostVars, requestVars, stateVars, endVars, viewVars, callVars
  <2>2. Told'
    BY <2>1 DEF Serial, Told
  <2>3. QED BY <2>1, <2>2, SerialKeeps
<1>13. QED BY <1>1, <1>2, <1>3, <1>4, <1>5, <1>6, <1>7, <1>8, <1>9, <1>10, <1>11, <1>12
           DEF Next, App, Host, Engine

LEMMA SerialInit ==
  ASSUME Init
  PROVE  Serial
<1>1. TypeOK
  BY TypeInit
<1>2. OneAtATime /\ Unbroken /\ Told
  BY DEF Init, OneAtATime, Unbroken, Told
<1>3. hostState # "exiting"
  BY DEF Init
<1>4. sessionState = ToSessionState(info, FALSE) /\ info # "exiting" /\ info \in AnyHostState
  BY <1>1, <1>3 DEF Init, TypeOK
<1>5. /\ info \in Live => sessionState = "active"
      /\ info = "stopping" => sessionState = "ending"
      /\ info \in {"none", "idle"} => sessionState = "none"
  BY <1>4 DEF ToSessionState, Live
<1>6. sessionState # "requesting" /\ mode = None
  BY <1>4, <1>5 DEF Init, AnyHostState
<1>7. Shown
  BY <1>4, <1>5, <1>6 DEF Shown
<1>8. Asked
  BY <1>6 DEF Init, Asked
<1>9. QED BY <1>2, <1>7, <1>8 DEF Serial

LEMMA SerialAlways ==
  ASSUME Serially
  PROVE  Spec => [](TypeOK /\ Serial)
<1>1. TypeOK /\ Serial /\ [Next]_vars => Serial'
  BY SerialStep
<1>2. Init => Serial
  BY SerialInit
<1>3. QED BY <1>1, <1>2, TypeCorrect, PTL DEF Spec

(* Between tasks `immersive' is what the state says, but for overrides     *)
(* (native-runtime-adapter.ts:69), whatever the host does: of an app that  *)
(* makes one request at a time, on an engine that runs continuations       *)
(* before the next task.  Overlapping switches break it                    *)
(* (native_stale_timer).                                                   *)
THEOREM StateAndCapabilitiesAgree ==
  ASSUME Serially
  PROVE  Spec => []ImmersiveAgrees
<1>1. TypeOK /\ Serial => ImmersiveAgrees
  <2> SUFFICES ASSUME TypeOK, Serial, handling = <<>>, overrides = {}
               PROVE  immersive <=> sessionState = "active"
    BY DEF ImmersiveAgrees
  <2>1. immersive = (info \in Live)
    BY DEF Serial, Told
  <2>2. info \in Live => sessionState = "active"
    BY DEF Serial, Shown
  <2>3. info \notin Live => sessionState # "active"
    BY DEF TypeOK, AnyHostState, Serial, Shown
  <2>4. QED BY <2>1, <2>2, <2>3
<1>2. QED BY <1>1, SerialAlways, PTL

-----------------------------------------------------------------------------
(* The adapter keeps the contract: each of its steps is a step of          *)
(* SessionContract as the application sees it, or none.                    *)

SeenMode == IF sessionState = "active" THEN {mode} \ {None} ELSE {}
SeenOutcome == [r \in Request |-> IF outcome[r] \in Failure THEN "failed" ELSE outcome[r]]
ContractStep == [Contract!Next]_(Contract!vars)

(* The mode stays with the session, and one that begins has none.          *)
ModeGoes ==
  IF sessionState = "active" /\ sessionState' = "active" THEN mode' = mode
  ELSE sessionState' = "active" => mode' = None

LEMMA ModeIsKept == ModeGoes => Contract!KeepMode
BY DEF ModeGoes, Contract!KeepMode

LEMMA SeenSettles ==
  ASSUME TypeOK, NEW r \in Request, NEW x \in Promise, outcome' = [outcome EXCEPT ![r] = x]
  PROVE  SeenOutcome' = [SeenOutcome EXCEPT ![r] = IF x \in Failure THEN "failed" ELSE x]
<1>1. \A q \in Request : outcome'[q] = IF q = r THEN x ELSE outcome[q]
  BY DEF TypeOK
<1>2. QED BY <1>1 DEF SeenOutcome

LEMMA ContractStutters ==
  UNCHANGED <<sessionState, mode, outcome, ended>> => ContractStep
BY DEF ContractStep, Contract!vars

LEMMA ContractFails ==
  ASSUME TypeOK, NEW r \in Request, outcome[r] = "waiting", NEW result \in Failure,
         outcome' = Settled(outcome, r, result),
         \/ UNCHANGED <<sessionState, mode>> /\ sessionState # "requesting"
         \/ SetState("none") /\ sessionState # "active",
         ended' = ended
  PROVE  ContractStep
<1>1. outcome' = [outcome EXCEPT ![r] = result] /\ result \in Promise
  BY DEF Settled, Promise
<1>2. SeenOutcome' = [SeenOutcome EXCEPT ![r] = "failed"] /\ SeenOutcome[r] = "waiting"
  BY <1>1, SeenSettles DEF SeenOutcome, Failure
<1>3. /\ sessionState' \in {sessionState, "none"} \ {"requesting"}
      /\ sessionState = "active" => sessionState' = "active"
      /\ ModeGoes
  BY DEF SetState, ModeGoes
<1>4. Contract!Fail(r)
  BY <1>2, <1>3, ModeIsKept DEF Contract!Fail, SeenOutcome
<1>5. QED BY <1>4 DEF ContractStep, Contract!Next

LEMMA ContractAsksHost ==
  ASSUME TypeOK, NEW r \in Request, outcome[r] = "waiting", sessionState # "active",
         sessionState' = "requesting", UNCHANGED <<outcome, ended>>
  PROVE  ContractStep
<1>1. ModeGoes /\ SeenOutcome[r] = "waiting" /\ SeenOutcome' = SeenOutcome
  BY DEF ModeGoes, SeenOutcome, Failure
<1>2. Contract!AskHost(r)
  BY <1>1, ModeIsKept DEF Contract!AskHost, SeenOutcome
<1>3. QED BY <1>2 DEF ContractStep, Contract!Next

LEMMA ContractMoves ==
  ASSUME ModeGoes, sessionState' \in SessionState \ {"requesting"}, UNCHANGED <<outcome, ended>>
  PROVE  ContractStep
<1>1. SeenOutcome' = SeenOutcome
  BY DEF SeenOutcome
<1>2. Contract!SessionMoves
  BY <1>1, ModeIsKept DEF Contract!SessionMoves, Contract!SessionState, SessionState, SeenOutcome
<1>3. QED BY <1>2 DEF ContractStep, Contract!Next

LEMMA ContractGrants ==
  ASSUME TypeOK, NEW r \in Request, outcome[r] = "waiting", sessionState # "active",
         sessionState' = "active", mode' = ModeOf[r],
         outcome' = Settled(outcome, r, "ok"), ended' = ended
  PROVE  ContractStep
<1>1. outcome' = [outcome EXCEPT ![r] = "ok"] /\ "ok" \in Promise /\ "ok" \notin Failure
  BY DEF Settled, Promise, Failure
<1>2. SeenOutcome' = [SeenOutcome EXCEPT ![r] = "ok"] /\ SeenOutcome[r] = "waiting"
  BY <1>1, SeenSettles DEF SeenOutcome, Failure
<1>3. SeenMode' = {ModeOf[r]}
  BY NativeAssumption DEF SeenMode
<1>4. Contract!Grant(r)
  BY <1>2, <1>3 DEF Contract!Grant, SeenOutcome, SeenMode
<1>5. QED BY <1>4 DEF ContractStep, Contract!Next

LEMMA ContractRequests ==
  ASSUME TypeOK, NEW r \in Request, NEW x \in {"ok", "error", "waiting"}, outcome[r] = "idle",
         outcome' = [outcome EXCEPT ![r] = x], ended' = ended,
         \/ x = "ok" /\ sessionState = "active" /\ mode = ModeOf[r]
              /\ UNCHANGED <<sessionState, mode>>
         \/ x = "error" /\ UNCHANGED <<sessionState, mode>>
         \/ x = "waiting" /\ sessionState = "active" /\ UNCHANGED <<sessionState, mode>>
         \/ x = "waiting" /\ sessionState = "none" /\ sessionState' = "requesting"
  PROVE  ContractStep
<1>1. x \in Promise
  BY DEF Promise, Failure
<1>2. SeenOutcome' = [SeenOutcome EXCEPT ![r] = IF x \in Failure THEN "failed" ELSE x]
  BY <1>1, SeenSettles
<1>3. SeenOutcome[r] = "idle"
  BY DEF SeenOutcome, Failure
<1>4. CASE x = "ok"
  <2>1. SeenMode = {ModeOf[r]} /\ UNCHANGED <<sessionState, mode>>
    BY <1>4, NativeAssumption DEF SeenMode
  <2>2. SeenOutcome' = [SeenOutcome EXCEPT ![r] = "ok"]
    BY <1>2, <1>4 DEF Failure
  <2>3. SeenMode' = SeenMode
    BY <2>1 DEF SeenMode
  <2>4. Contract!AlreadyLive(r)
    BY <1>3, <1>4, <2>1, <2>2, <2>3 DEF Contract!AlreadyLive, SeenOutcome, SeenMode
  <2>5. QED BY <2>4 DEF ContractStep, Contract!Next
<1>5. CASE x = "error"
  <2>1. SeenOutcome' = [SeenOutcome EXCEPT ![r] = "failed"]
    BY <1>2, <1>5 DEF Failure
  <2>2. SeenMode' = SeenMode /\ sessionState' = sessionState
    BY <1>5 DEF SeenMode
  <2>3. Contract!Refuse(r)
    BY <1>3, <2>1, <2>2 DEF Contract!Refuse, SeenOutcome, SeenMode
  <2>4. QED BY <2>3 DEF ContractStep, Contract!Next
<1>6. CASE x = "waiting"
  <2>1. SeenOutcome' = [SeenOutcome EXCEPT ![r] = "waiting"]
    BY <1>2, <1>6 DEF Failure
  <2>2. ModeGoes
    BY <1>6 DEF ModeGoes
  <2>3. \/ sessionState = "active" /\ sessionState' = "active"
        \/ sessionState = "none" /\ sessionState' = "requesting"
    BY <1>6
  <2>4. Contract!Ask(r)
    BY <1>3, <2>1, <2>2, <2>3, ModeIsKept DEF Contract!Ask, SeenOutcome
  <2>5. QED BY <2>4 DEF ContractStep, Contract!Next
<1>7. QED BY <1>4, <1>5, <1>6

LEMMA ContractAsksEnd ==
  ASSUME NEW e \in End, ended[e] = "idle", UNCHANGED <<sessionState, mode, outcome>>,
         ended' = [ended EXCEPT ![e] = IF sessionState = "none" THEN "done" ELSE "waiting"]
  PROVE  ContractStep
<1>1. ModeGoes /\ SeenOutcome' = SeenOutcome
  BY DEF ModeGoes, SeenOutcome
<1>2. Contract!AskEnd(e)
  BY <1>1, ModeIsKept DEF Contract!AskEnd, SeenOutcome
<1>3. QED BY <1>2 DEF ContractStep, Contract!Next

(* Only an end() that was called is among the waiters.                     *)
EndsWereAsked == \A e \in End : Holds(endWaiters, e) => ended[e] # "idle"

LEMMA AppendedHolds ==
  ASSUME NEW S, NEW s \in Seq(S), NEW x \in S, NEW y, Holds(Append(s, x), y)
  PROVE  Holds(s, y) \/ y = x
<1>1. /\ Len(Append(s, x)) = Len(s) + 1 /\ Len(s) \in Nat
      /\ Append(s, x)[Len(s) + 1] = x
      /\ \A k \in 1 .. Len(s) : Append(s, x)[k] = s[k]
  BY AppendProperties, LenProperties
<1>2. PICK k \in 1 .. Len(s) + 1 : Append(s, x)[k] = y
  BY <1>1 DEF Holds
<1>3. CASE k = Len(s) + 1
  BY <1>1, <1>2, <1>3
<1>4. CASE k # Len(s) + 1
  BY <1>1, <1>2, <1>4 DEF Holds
<1>5. QED BY <1>3, <1>4

LEMMA EndsWereAskedStep ==
  ASSUME TypeOK, EndsWereAsked, [Next]_vars
  PROVE  EndsWereAsked'
<1>1. CASE SettleEndWaiters
  BY <1>1 DEF SettleEndWaiters, EndsWereAsked, Holds
<1>2. CASE UNCHANGED <<endWaiters, ended>>
  BY <1>2 DEF EndsWereAsked, Holds
<1>3. ASSUME NEW r \in Request, RequestWithSwitch(r) PROVE EndsWereAsked'
  <2>1. endWaiters' = Append(endWaiters, r) /\ ended' = ended
    BY <1>3 DEF RequestWithSwitch
  <2>2. endWaiters \in Seq(Request \cup End) /\ r \in Request \cup End
    BY DEF TypeOK
  <2>3. \A e \in End : Holds(endWaiters', e) => Holds(endWaiters, e)
    BY <2>1, <2>2, AppendedHolds, NativeAssumption
  <2>4. QED BY <2>1, <2>3 DEF EndsWereAsked
<1>4. ASSUME NEW e \in End, EndSession(e) PROVE EndsWereAsked'
  <2>1. endWaiters' = endWaiters \/ endWaiters' = Append(endWaiters, e)
    BY <1>4 DEF EndSession
  <2>2. ended'[e] # "idle" /\ \A d \in End : d # e => ended'[d] = ended[d]
    BY <1>4 DEF EndSession, TypeOK
  <2>3. endWaiters \in Seq(Request \cup End) /\ e \in Request \cup End
    BY DEF TypeOK
  <2>4. \A d \in End : Holds(endWaiters', d) => Holds(endWaiters, d) \/ d = e
    BY <2>1, <2>3, AppendedHolds
  <2>5. QED BY <2>2, <2>4 DEF EndsWereAsked
<1>5. QED
  BY <1>1, <1>2, <1>3, <1>4, HostModeType
  DEF Next, App, Host, Engine, RequestSameMode, RequestWhileBusy, RequestFresh,
      SwitchContinues, RequestTimeout, SetCapabilities, ClearCapabilityOverrides,
      RefreshCapabilities, Dispose, FinishSessionChange, HostMoves, HostRefuses, HostFrame,
      vars, endVars

(* When the session is gone every end() that waited resolves, for none of  *)
(* them was forgotten.                                                     *)
LEMMA ContractGone ==
  ASSUME TypeOK, NothingForgotten, EndsWereAsked, SettleEndWaiters, sessionState = "none",
         UNCHANGED <<sessionState, mode, outcome>>
  PROVE  ContractStep
<1>1. \A e \in End : ended'[e] = IF Holds(endWaiters, e) THEN "done" ELSE ended[e]
  BY DEF SettleEndWaiters, Holds
<1>2. \A e \in End : ended'[e] = IF ended[e] # "idle" THEN "done" ELSE ended[e]
  BY <1>1 DEF TypeOK, NothingForgotten, EndsWereAsked
<1>3. ended' = [e \in End |-> IF ended[e] # "idle" THEN "done" ELSE ended[e]]
  BY <1>2 DEF SettleEndWaiters
<1>4. ModeGoes /\ SeenOutcome' = SeenOutcome
  BY DEF ModeGoes, SeenOutcome
<1>5. Contract!Gone
  BY <1>3, <1>4, ModeIsKept DEF Contract!Gone, SeenOutcome
<1>6. QED BY <1>5 DEF ContractStep, Contract!Next

LEMMA ContractHostMoves ==
  ASSUME Serially, TypeOK, Serial, NEW s, HostMoves(s),
         s \in Live => info \in Live \cup {"none", "idle"}
  PROVE  ContractStep
<1>1. handling = <<>> /\ jobs = <<>> /\ ~disposed
  BY NothingElseRuns DEF HostMoves, Serial, Unbroken
<1>2. HandleSessionChange(s) /\ s \in AnyHostState /\ ended' = ended
  BY <1>1, NativeAssumption DEF HostMoves, endVars
<1> DEFINE next == ToSessionState(s, requesting)
<1>3. sessionState' = next /\ next \in SessionState
  BY <1>2, ToSessionStateType DEF HandleSessionChange, TypeOK
<1>4. CASE next = "active" /\ pending # None
  <2>1. outcome' = Settled(outcome, pending, "ok") /\ mode' = pendingMode
    BY <1>2, <1>4 DEF HandleSessionChange
  <2>2. /\ pending \in Request /\ outcome[pending] = "waiting"
        /\ pendingMode = ModeOf[pending]
    BY <1>4 DEF TypeOK, Serial, Asked
  <2>3. sessionState # "active"
    <3>1. info \in {"none", "idle", "exiting"}
      BY <1>4 DEF Serial, Asked
    <3>2. QED BY <3>1 DEF Serial, Shown
  <2>4. QED BY <1>2, <1>3, <1>4, <2>1, <2>2, <2>3, ContractGrants
<1>5. CASE ~(next = "active" /\ pending # None)
  <2>1. /\ outcome' = outcome
        /\ mode' = IF next = "none" /\ sessionState # "none" THEN None ELSE mode
    BY <1>2, <1>5 DEF HandleSessionChange
  <2>2. CASE next = "requesting"
    <3>1. pending # None /\ pending \in Request
      <4>1. requesting
        BY <1>2, <2>2 DEF ToSessionState, AnyHostState, Live
      <4>2. QED BY <4>1 DEF TypeOK, Serial, Asked
    <3>2. outcome[pending] = "waiting" /\ sessionState # "active"
      BY <3>1 DEF Serial, Asked, Shown
    <3>3. QED BY <1>2, <1>3, <2>1, <2>2, <3>1, <3>2, ContractAsksHost
  <2>3. CASE next # "requesting"
    <3>1. ModeGoes
      <4>1. CASE next = "active" /\ sessionState = "active"
        BY <1>3, <2>1, <4>1 DEF ModeGoes
      <4>2. CASE next = "active" /\ sessionState # "active"
        <5>1. s \in Live /\ pending = None
          BY <1>2, <1>5, <4>2 DEF ToSessionState, AnyHostState
        <5>2. mode = None
          BY <4>2, <5>1 DEF Serial, Shown
        <5>3. QED BY <1>3, <2>1, <4>2, <5>2 DEF ModeGoes
      <4>3. CASE next # "active"
        BY <1>3, <4>3 DEF ModeGoes
      <4>4. QED BY <4>1, <4>2, <4>3
    <3>2. QED BY <1>2, <1>3, <2>1, <2>3, <3>1, ContractMoves
  <2>4. QED BY <2>2, <2>3
<1>6. QED BY <1>4, <1>5

LEMMA ContractHolds ==
  ASSUME Serially, TypeOK, NothingForgotten, EndsWereAsked, Serial, [Next]_vars
  PROVE  ContractStep
<1>1. ASSUME NEW r \in Request, RequestSameMode(r) PROVE ContractStep
  BY <1>1, ContractRequests DEF RequestSameMode, MayRequest, stateVars, endVars
<1>2. ASSUME NEW r \in Request, RequestWhileBusy(r) PROVE ContractStep
  BY <1>2, ContractRequests DEF RequestWhileBusy, MayRequest, stateVars, endVars
<1>3. ASSUME NEW r \in Request, RequestFresh(r) PROVE ContractStep
  BY <1>3, ContractRequests DEF RequestFresh, MayRequest, BeginRequest, SetState, endVars
<1>4. ASSUME NEW r \in Request, RequestWithSwitch(r) PROVE ContractStep
  BY <1>4, ContractRequests DEF RequestWithSwitch, MayRequest, stateVars
<1>5. CASE SwitchContinues
  <2>1. jobs # <<>> /\ UNCHANGED <<outcome, ended>>
    BY <1>5 DEF SwitchContinues
  <2>2. sessionState # "active"
    BY <2>1 DEF Serial, Told, Shown
  <2>3. CASE Head(jobs) \in Request /\ outcome[Head(jobs)] = "waiting"
    <3>1. sessionState' = "requesting"
      BY <1>5, <2>3 DEF SwitchContinues, BeginRequest, SetState
    <3>2. QED BY <2>1, <2>2, <2>3, <3>1, ContractAsksHost
  <2>4. CASE ~(Head(jobs) \in Request /\ outcome[Head(jobs)] = "waiting")
    BY <1>5, <2>1, <2>4, ContractStutters DEF SwitchContinues, stateVars
  <2>5. QED BY <2>3, <2>4
<1>6. ASSUME NEW r \in Request, RequestTimeout(r) PROVE ContractStep
  <2>1. r = pending /\ pending # None
    BY <1>6, NativeAssumption DEF RequestTimeout, TypeOK, Serial, Asked
  <2>2. outcome[r] = "waiting" /\ info \in {"none", "idle", "exiting"}
    BY <2>1 DEF Serial, Asked
  <2>3. sessionState # "active" /\ "timeout" \in Failure
    BY <2>2 DEF Serial, Shown, Failure
  <2>4. outcome' = Settled(outcome, r, "timeout") /\ SetState("none") /\ ended' = ended
    BY <1>6 DEF RequestTimeout, endVars
  <2>5. QED BY <2>2, <2>3, <2>4, ContractFails
<1>7. ASSUME NEW e \in End, EndSession(e) PROVE ContractStep
  <2>1. ended[e] = "idle" /\ UNCHANGED <<sessionState, mode, outcome>>
    BY <1>7 DEF EndSession, stateVars
  <2>2. ended' = [ended EXCEPT ![e] = IF sessionState = "none" THEN "done" ELSE "waiting"]
    BY <1>7 DEF EndSession
  <2>3. QED BY <2>1, <2>2, ContractAsksEnd
<1>8. CASE SetCapabilities \/ ClearCapabilityOverrides \/ RefreshCapabilities \/ HostFrame
  BY <1>8, ContractStutters
     DEF SetCapabilities, ClearCapabilityOverrides, RefreshCapabilities, HostFrame,
         stateVars, endVars
<1>9. CASE Dispose
  BY <1>9 DEF Dispose, Serially
<1>10. CASE FinishSessionChange
  <2>1. UNCHANGED <<sessionState, mode, outcome>> /\ Head(handling).state = sessionState
    BY <1>10 DEF FinishSessionChange, stateVars, Serial, Told
  <2>2. CASE sessionState = "none"
    <3>1. SettleEndWaiters
      BY <1>10, <2>1, <2>2 DEF FinishSessionChange
    <3>2. QED BY <2>1, <2>2, <3>1, ContractGone
  <2>3. CASE sessionState # "none"
    BY <1>10, <2>1, <2>3, ContractStutters DEF FinishSessionChange, endVars
  <2>4. QED BY <2>2, <2>3
<1>11. CASE HostBegins
  <2>1. HostMoves("ready") /\ info \in {"none", "idle"}
    BY <1>11 DEF HostBegins, Serial, Unbroken
  <2>2. QED BY <2>1, ContractHostMoves
<1>12. CASE HostChanges
  <2>1. PICK s : HostMoves(s) /\ (s \in Live => hostState \in Live)
    BY <1>12 DEF HostChanges, Live
  <2>2. QED BY <2>1, ContractHostMoves DEF Serial, Unbroken
<1>13. CASE HostEnds
  <2>1. PICK s : HostMoves(s) /\ s \notin Live
    BY <1>13 DEF HostEnds, Live
  <2>2. QED BY <2>1, ContractHostMoves
<1>14. CASE HostRefuses
  <2>1. ended' = ended /\ HandleRefusal
    BY <1>14 DEF HostRefuses, endVars, Serial, Unbroken
  <2>2. "refused" \in Failure
    BY DEF Failure
  <2>3. CASE switchRefusal # None
    <3>1. /\ switchRefusal \in Request /\ outcome[switchRefusal] = "waiting"
          /\ sessionState # "requesting"
      BY <2>3 DEF TypeOK, Serial, Asked
    <3>2. /\ outcome' = Settled(outcome, switchRefusal, "refused")
          /\ UNCHANGED <<sessionState, mode>>
      BY <2>1, <2>3 DEF HandleRefusal, stateVars
    <3>3. QED BY <2>1, <2>2, <3>1, <3>2, ContractFails
  <2>4. CASE switchRefusal = None /\ pending # None
    <3>1. /\ pending \in Request /\ outcome[pending] = "waiting"
          /\ info \in {"none", "idle", "exiting"}
      BY <2>4 DEF TypeOK, Serial, Asked
    <3>2. sessionState # "active"
      BY <3>1 DEF Serial, Shown
    <3>3. outcome' = Settled(outcome, pending, "refused") /\ SetState("none")
      BY <2>1, <2>4 DEF HandleRefusal
    <3>4. QED BY <2>1, <2>2, <3>1, <3>2, <3>3, ContractFails
  <2>5. CASE switchRefusal = None /\ pending = None
    BY <2>1, <2>5, ContractStutters DEF HandleRefusal, stateVars
  <2>6. QED BY <2>3, <2>4, <2>5
<1>15. CASE UNCHANGED vars
  BY <1>15, ContractStutters DEF vars, stateVars, endVars
<1>16. QED BY <1>1, <1>2, <1>3, <1>4, <1>5, <1>6, <1>7, <1>8, <1>9, <1>10, <1>11, <1>12, <1>13,
              <1>14, <1>15
           DEF Next, App, Host, Engine

LEMMA ContractStarts ==
  ASSUME Init
  PROVE  Contract!Init
<1>1. TypeOK /\ Serial
  BY TypeInit, SerialInit
<1>2. sessionState \in SessionState \ {"requesting"} /\ mode = None
  BY <1>1 DEF Init, TypeOK, Serial, Asked
<1>3. SeenOutcome = [r \in Request |-> "idle"] /\ SeenMode = {}
  BY <1>2 DEF Init, SeenOutcome, SeenMode, Failure
<1>4. QED BY <1>2, <1>3 DEF Init, Contract!Init, Contract!SessionState, SessionState,
                            SeenOutcome, SeenMode

(* The adapter keeps the contract of runtime-adapter.ts: a session that    *)
(* goes live while a request is at the host answers it, a request that     *)
(* fails never takes a live session with it, and end() resolves when the   *)
(* session is gone (native-runtime-adapter.ts 281-345, 370-447) - of an    *)
(* app that makes one request at a time, whatever the host does.           *)
THEOREM NativeKeepsTheContract ==
  ASSUME Serially
  PROVE  Spec => ContractKept
<1>1. Init => EndsWereAsked
  BY DEF Init, EndsWereAsked, Holds
<1>2. TypeOK /\ EndsWereAsked /\ [Next]_vars => EndsWereAsked'
  BY EndsWereAskedStep
<1>3. TypeOK /\ NothingForgotten /\ EndsWereAsked /\ Serial /\ [Next]_vars => ContractStep
  BY ContractHolds
<1>4. Init => Contract!Init
  BY ContractStarts
<1>5. QED BY <1>1, <1>2, <1>3, <1>4, TypeCorrect, NoPromiseIsForgotten, SerialAlways, PTL
          DEF Spec, ContractKept, Contract!Spec, ContractStep
=============================================================================
