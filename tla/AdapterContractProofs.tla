----------------------- MODULE AdapterContractProofs -----------------------
(***************************************************************************)
(* Calm use of every adapter implements SessionContract, for any number of *)
(* calls and modes: each step of an adapter is a step of the contract or   *)
(* leaves what the contract speaks of alone.  Calm is one call at a time,  *)
(* over a host that does as it is asked; what fails otherwise the runs     *)
(* show.                                                                   *)
(***************************************************************************)
EXTENDS AdapterProofs

USE DEF Three!Call, Three!Session, Three!Effective, Three!hostVars, Three!sessionVars,
        Three!capabilityVars, Three!focusVars, Three!callVars, Three!vars,
        Babylon!Call, Babylon!Session, Babylon!Effective, Babylon!hostVars, Babylon!sessionVars,
        Babylon!capabilityVars, Babylon!focusVars, Babylon!callVars, Babylon!vars,
        IWSDK!Call, IWSDK!Session, IWSDK!Effective, IWSDK!hostVars, IWSDK!sessionVars,
        IWSDK!capabilityVars, IWSDK!focusVars, IWSDK!callVars, IWSDK!vars,
        Mock!Call, Mock!Session, Mock!Effective, Mock!hostVars, Mock!sessionVars,
        Mock!capabilityVars, Mock!focusVars, Mock!callVars, Mock!vars,
        Call, Session, Effective, hostVars, sessionVars, capabilityVars, focusVars, callVars, vars

(* A mode is something. *)
ModesAreSome == \A r \in Request : ModeOf[r] # None

-----------------------------------------------------------------------------
(* Steps of the contract, said of the adapters' state *)

InFlight(c) == phase[c] \notin {"idle", "done"}

(* A call that is over, or was never made, waits for nothing; of the others *)
(* there is one.                                                            *)
CallsCalm ==
  /\ phase \in [Call -> Jobs \cup Awaits]
  /\ outcome \in [Request -> {"idle", "waiting", "ok", "failed"}]
  /\ ended \in [End -> {"idle", "waiting", "done"}]
  /\ \A c, d \in Call : InFlight(c) /\ InFlight(d) => c = d
  /\ \A r \in Request : /\ phase[r] = "idle" => outcome[r] = "idle"
                        /\ phase[r] = "done" => outcome[r] # "waiting"
                        /\ InFlight(r) => outcome[r] = "waiting"
  /\ \A e \in End : /\ phase[e] = "idle" => ended[e] = "idle"
                    /\ phase[e] = "done" => ended[e] = "done"
                    /\ InFlight(e) => ended[e] = "waiting"

(* The mode goes with the session. *)
ModeGoes ==
  /\ sessionState = "active" /\ sessionState' = "active" => mode' = mode
  /\ sessionState # "active" /\ sessionState' = "active" => mode' = None

LEMMA ModeIsKept == ModeGoes => Contract!KeepMode
  BY DEF ModeGoes, Contract!KeepMode

LEMMA Asks ==
  ASSUME NEW r \in Request, outcome[r] = "idle", outcome' = [outcome EXCEPT ![r] = "waiting"], ended' = ended,
         \/ sessionState = "active" /\ sessionState' \in {"active", "ending", "requesting"}
         \/ sessionState = "none" /\ sessionState' = "requesting",
         ModeGoes
  PROVE  Contract!Next
  BY ModeIsKept DEF Contract!Next, Contract!Ask

LEMMA AsksHost ==
  ASSUME NEW r \in Request, outcome[r] = "waiting", UNCHANGED <<outcome, ended>>,
         sessionState # "active", sessionState' = "requesting"
  PROVE  Contract!Next
  BY ModeIsKept DEF Contract!Next, Contract!AskHost, ModeGoes

LEMMA IsLive ==
  ASSUME NEW r \in Request, ModesAreSome, outcome[r] = "idle", outcome' = [outcome EXCEPT ![r] = "ok"],
         sessionState = "active", mode = ModeOf[r], UNCHANGED <<sessionState, mode, ended>>
  PROVE  Contract!Next
  BY DEF Contract!Next, Contract!AlreadyLive, ModesAreSome

LEMMA Refuses ==
  ASSUME NEW r \in Request, outcome[r] = "idle", outcome' = [outcome EXCEPT ![r] = "failed"],
         UNCHANGED <<sessionState, ended>>, sessionState = "active" => mode' = mode
  PROVE  Contract!Next
  BY DEF Contract!Next, Contract!Refuse

LEMMA Grants ==
  ASSUME NEW r \in Request, ModesAreSome, outcome[r] = "waiting", outcome' = [outcome EXCEPT ![r] = "ok"],
         sessionState = "active" => mode = None, sessionState' = "active", mode' = ModeOf[r], ended' = ended
  PROVE  Contract!Next
  BY DEF Contract!Next, Contract!Grant, ModesAreSome

LEMMA Fails ==
  ASSUME NEW r \in Request, outcome[r] = "waiting", outcome' = [outcome EXCEPT ![r] = "failed"],
         sessionState' = (IF sessionState = "requesting" THEN "none" ELSE sessionState),
         ModeGoes, ended' = ended
  PROVE  Contract!Next
  BY ModeIsKept DEF Contract!Next, Contract!Fail

LEMMA AsksEnd ==
  ASSUME NEW e \in End, ended[e] = "idle",
         ended' = [ended EXCEPT ![e] = IF sessionState = "none" THEN "done" ELSE "waiting"],
         sessionState' = sessionState \/ (sessionState = "active" /\ sessionState' = "ending"),
         ModeGoes, outcome' = outcome
  PROVE  Contract!Next
  BY ModeIsKept DEF Contract!Next, Contract!AskEnd

LEMMA EndsAtOnce ==
  ASSUME NEW e \in End, ended[e] = "idle", ended' = [ended EXCEPT ![e] = "done"],
         sessionState' = "none", outcome' = outcome
  PROVE  Contract!Next
  BY ModeIsKept DEF Contract!Next, Contract!EndAtOnce, ModeGoes

(* The session moves by itself, or a switch learns that it has gone. *)
LEMMA Moves ==
  ASSUME UNCHANGED <<outcome, ended>>, ModeGoes,
         \/ sessionState' = "none" \/ sessionState' = "active"
         \/ sessionState' = "ending" /\ sessionState # "requesting"
         \/ sessionState' = "requesting" /\ \A r \in Request : outcome[r] # "waiting"
  PROVE  Contract!Next
  BY ModeIsKept DEF Contract!Next, Contract!SessionMoves, Contract!SessionState

(* end() resolves, and nobody else waits for it. *)
LEMMA IsGone ==
  ASSUME CallsCalm, NEW e \in End, InFlight(e), sessionState' = "none", outcome' = outcome,
         ended' = [d \in End |-> IF d = e THEN "done" ELSE ended[d]]
  PROVE  Contract!Next
PROOF
  <1>1. ended' = [d \in End |-> IF ended[d] # "idle" THEN "done" ELSE ended[d]]
    <2>1. ASSUME NEW d \in End, d # e PROVE ended[d] \in {"idle", "done"}
      BY <2>1 DEF CallsCalm, InFlight, Call
    <2>2. ended[e] = "waiting"
      BY DEF CallsCalm
    <2> QED
      BY <2>1, <2>2
  <1> QED
    BY <1>1, ModeIsKept DEF Contract!Next, Contract!Gone, ModeGoes
-----------------------------------------------------------------------------
(* How calls move on *)

(* A request goes on, alone. *)
LEMMA RequestMoves ==
  ASSUME Distinct, CallsCalm, NEW r \in Request, InFlight(r) \/ \A c \in Call : ~InFlight(c),
         NEW p \in (Jobs \cup Awaits) \ {"idle"}, phase' = [phase EXCEPT ![r] = p],
         NEW o \in {"waiting", "ok", "failed"}, outcome' = [outcome EXCEPT ![r] = o],
         p # "done" => o = "waiting", p = "done" => o # "waiting", ended' = ended
  PROVE  CallsCalm'
PROOF
  <1>1. r \in Call /\ r \notin End
    BY DEF Distinct
  <1>2. \A c \in Call : c # r => phase'[c] = phase[c]
    BY DEF CallsCalm
  <1>3. phase'[r] = p /\ outcome'[r] = o
    BY <1>1 DEF CallsCalm
  <1>4. phase' \in [Call -> Jobs \cup Awaits] /\ outcome' \in [Request -> {"idle", "waiting", "ok", "failed"}]
        /\ ended' \in [End -> {"idle", "waiting", "done"}]
    BY <1>1 DEF CallsCalm
  <1>5. \A c \in Call : c # r => ~InFlight(c) /\ ~InFlight(c)'
    BY <1>1, <1>2 DEF CallsCalm, InFlight
  <1>6. \A q \in Request : q # r => outcome'[q] = outcome[q]
    BY DEF CallsCalm
  <1>7. \A q \in Request : /\ phase'[q] = "idle" => outcome'[q] = "idle"
                           /\ InFlight(q)' => outcome'[q] = "waiting"
    BY <1>2, <1>3, <1>5, <1>6 DEF CallsCalm, InFlight
  <1>8. \A e \in End : /\ phase'[e] = "idle" => ended'[e] = "idle"
                       /\ phase'[e] = "done" => ended'[e] = "done"
                       /\ InFlight(e)' => ended'[e] = "waiting"
    BY <1>1, <1>2 DEF CallsCalm, InFlight
  <1>9. \A c, d \in Call : InFlight(c)' /\ InFlight(d)' => c = d
    BY <1>5
  <1> QED
    BY <1>4, <1>7, <1>8, <1>9 DEF CallsCalm

(* An end goes on, alone. *)
LEMMA EndMoves ==
  ASSUME Distinct, CallsCalm, NEW e \in End, InFlight(e) \/ \A c \in Call : ~InFlight(c),
         NEW p \in (Jobs \cup Awaits) \ {"idle"}, phase' = [phase EXCEPT ![e] = p],
         ended' \in [End -> {"idle", "waiting", "done"}],
         \A d \in End : ended'[d] = IF d # e THEN ended[d] ELSE IF p = "done" THEN "done" ELSE "waiting",
         outcome' = outcome
  PROVE  CallsCalm'
PROOF
  <1>1. e \in Call /\ e \notin Request
    BY DEF Distinct
  <1>2. \A c \in Call : c # e => phase'[c] = phase[c]
    BY DEF CallsCalm
  <1>3. phase'[e] = p
    BY <1>1 DEF CallsCalm
  <1>4. phase' \in [Call -> Jobs \cup Awaits] /\ outcome' \in [Request -> {"idle", "waiting", "ok", "failed"}]
    BY <1>1 DEF CallsCalm
  <1>5. \A c \in Call : c # e => ~InFlight(c) /\ ~InFlight(c)'
    BY <1>1, <1>2 DEF CallsCalm, InFlight
  <1>6. \A q \in Request : /\ phase'[q] = "idle" => outcome'[q] = "idle"
                           /\ phase'[q] = "done" => outcome'[q] # "waiting"
                           /\ InFlight(q)' => outcome'[q] = "waiting"
    BY <1>1, <1>2 DEF CallsCalm, InFlight
  <1>7. \A d \in End : /\ phase'[d] = "idle" => ended'[d] = "idle"
                       /\ phase'[d] = "done" => ended'[d] = "done"
                       /\ InFlight(d)' => ended'[d] = "waiting"
    BY <1>2, <1>3 DEF CallsCalm, InFlight
  <1>8. \A c, d \in Call : InFlight(c)' /\ InFlight(d)' => c = d
    BY <1>5
  <1> QED
    BY <1>4, <1>6, <1>7, <1>8 DEF CallsCalm

(* A request begins to wait. *)
LEMMA RequestBegins ==
  ASSUME Distinct, CallsCalm, NEW r \in Request, InFlight(r) \/ \A c \in Call : ~InFlight(c),
         NEW p \in (Jobs \cup Awaits) \ {"idle", "done"}, phase' = [phase EXCEPT ![r] = p],
         outcome' = [outcome EXCEPT ![r] = "waiting"], ended' = ended
  PROVE  CallsCalm'
  BY RequestMoves

(* A request in flight awaits something else. *)
LEMMA RequestWaits ==
  ASSUME Distinct, CallsCalm, NEW r \in Request, InFlight(r), UNCHANGED <<outcome, ended>>,
         NEW p \in (Jobs \cup Awaits) \ {"idle", "done"}, phase' = [phase EXCEPT ![r] = p]
  PROVE  CallsCalm'
PROOF
  <1>1. outcome[r] = "waiting" /\ outcome' = [outcome EXCEPT ![r] = "waiting"]
    BY DEF CallsCalm
  <1> QED
    BY <1>1, RequestBegins

LEMMA CallsStay == ASSUME CallsCalm, UNCHANGED <<phase, outcome, ended>> PROVE CallsCalm'
  BY DEF CallsCalm, InFlight

(* Calm calls are made when nothing is in flight. *)
LEMMA CalmCall ==
  ASSUME calm, NEW c \in Call, Three!MayCall(c) \/ Babylon!MayCall(c) \/ IWSDK!MayCall(c) \/ Mock!MayCall(c)
  PROVE  /\ phase[c] = "idle" /\ \A d \in Call : ~InFlight(d)
         /\ sessionState \in {"none", "active"}
  BY DEF Three!MayCall, Babylon!MayCall, IWSDK!MayCall, Mock!MayCall,
         Three!Waiting, Babylon!Waiting, IWSDK!Waiting, Mock!Waiting, InFlight

(* What a calm step of an adapter is to the contract. *)
ContractStep == Contract!Next \/ UNCHANGED Contract!vars

LEMMA Stutters == UNCHANGED <<sessionState, mode, outcome, ended>> => ContractStep
  BY DEF ContractStep, Contract!vars

-----------------------------------------------------------------------------
(* three.js: the session the renderer presents is bound, and the state says *)
(* so; a session that is being set is the only one.                         *)

(* A session that is not there has no mode. *)
ModeOfSession == sessionState \in {"none", "requesting"} => mode = None

BoundIsActive ==
  /\ hostSession = bound
  /\ bound # None => bound \in live
  /\ bound # None <=> sessionState \in {"active", "ending"}
  /\ sessionState \in {"none", "requesting", "active", "ending"}

ThreeRequests ==
  \A r \in Request : /\ phase[r] = "resume" => sessionState = "none"
                     /\ phase[r] \in {"asking", "opening"} => bound = None
                     /\ phase[r] = "setting" => live = {r} /\ mode = None /\ sessionState # "ending"

ThreeEnding == \A c \in Call : phase[c] = "ending" => sessionState \in {"ending", "none"}

ThreeCalm == ~disposed /\ ModeOfSession /\ BoundIsActive /\ ThreeRequests /\ ThreeEnding

(* The one request in flight is where the session lets it be. *)
LEMMA ThreeOneMoves ==
  ASSUME Distinct, CallsCalm, CallsCalm', NEW r \in Request, InFlight(r) \/ \A c \in Call : ~InFlight(c),
         NEW p \in (Jobs \cup Awaits) \ {"idle"}, phase' = [phase EXCEPT ![r] = p],
         p = "resume" => sessionState' = "none",
         p \in {"asking", "opening"} => bound' = None,
         p = "setting" => live' = {r} /\ mode' = None /\ sessionState' # "ending",
         p = "ending" => sessionState' \in {"ending", "none"}
  PROVE  ThreeRequests' /\ ThreeEnding'
PROOF
  <1>1. \A c \in Call : c # r => phase'[c] \in {"idle", "done"}
    BY DEF CallsCalm, InFlight
  <1>2. phase'[r] = p
    BY DEF CallsCalm
  <1> QED
    BY <1>1, <1>2 DEF ThreeRequests, ThreeEnding

LEMMA ThreeBegins ==
  ASSUME Distinct, ModesAreSome, calm, CallsCalm, ThreeCalm, NEW r \in Request, sessionState = "none",
         InFlight(r) \/ \A c \in Call : ~InFlight(c),
         phase[r] = "idle" \/ phase[r] = "resume",
         Three!Begin(r), UNCHANGED <<hostSession, live, bound, disposed, ended>>
  PROVE  CallsCalm' /\ ThreeCalm' /\ ContractStep
PROOF
  <1>1. bound = None /\ mode = None
    BY DEF ThreeCalm, BoundIsActive, ModeOfSession
  <1>2. (phase[r] = "idle" => outcome[r] = "idle") /\ (phase[r] = "resume" => outcome[r] = "waiting")
    BY DEF CallsCalm, InFlight
  <1>3. CASE "enter" \notin offers
    <2>1. /\ phase' = [phase EXCEPT ![r] = "done"] /\ outcome' = [outcome EXCEPT ![r] = "failed"]
          /\ UNCHANGED <<sessionState, mode>>
      BY <1>3 DEF Three!Begin
    <2>2. CallsCalm'
      BY <2>1, RequestMoves DEF Jobs, Awaits
    <2>3. ThreeRequests' /\ ThreeEnding'
      BY <2>1, <2>2, ThreeOneMoves DEF Jobs, Awaits
    <2>4. ThreeCalm'
      BY <2>1, <2>3 DEF ThreeCalm, BoundIsActive, ModeOfSession
    <2>5. Contract!Next
      BY <1>2, <2>1, Refuses, Fails DEF ModeGoes
    <2> QED
      BY <2>2, <2>4, <2>5 DEF ContractStep
  <1>4. CASE "enter" \in offers
    <2>1. /\ phase' = [phase EXCEPT ![r] = "asking"] /\ outcome' = [outcome EXCEPT ![r] = "waiting"]
          /\ sessionState' = "requesting" /\ mode' = None
      BY <1>1, <1>4 DEF Three!Begin, Three!SetSessionState
    <2>2. CallsCalm'
      BY <2>1, RequestBegins DEF Jobs, Awaits
    <2>3. ThreeRequests' /\ ThreeEnding'
      BY <1>1, <2>1, <2>2, ThreeOneMoves DEF Jobs, Awaits
    <2>4. ThreeCalm'
      BY <1>1, <2>1, <2>3 DEF ThreeCalm, BoundIsActive, ModeOfSession
    <2>5. ASSUME phase[r] = "idle" PROVE ContractStep
      BY <1>2, <2>1, <2>5, Asks DEF ModeGoes, ContractStep
    <2>6. ASSUME phase[r] = "resume" PROVE ContractStep
      <3>1. outcome' = outcome
        BY <1>2, <2>1, <2>6 DEF CallsCalm
      <3> QED
        BY <1>2, <2>1, <2>6, <3>1, AsksHost DEF ContractStep
    <2> QED
      BY <2>2, <2>4, <2>5, <2>6
  <1> QED
    BY <1>3, <1>4

LEMMA ThreeRequestsCalmly ==
  ASSUME Distinct, ModesAreSome, calm, CallsCalm, ThreeCalm, NEW r \in Request,
         Three!RequestSameMode(r) \/ Three!RequestWithSwitch(r) \/ Three!RequestFresh(r) \/ Three!SwitchContinues(r)
  PROVE  CallsCalm' /\ ThreeCalm' /\ ContractStep
PROOF
  <1>1. CASE Three!RequestSameMode(r)
    <2>1. /\ phase[r] = "idle" /\ \A d \in Call : ~InFlight(d)
          /\ sessionState = "active" /\ mode = ModeOf[r]
          /\ phase' = [phase EXCEPT ![r] = "done"] /\ outcome' = [outcome EXCEPT ![r] = "ok"]
          /\ UNCHANGED <<hostSession, live, bound, sessionState, mode, disposed, ended>>
      BY <1>1, CalmCall DEF Three!RequestSameMode
    <2>2. CallsCalm'
      BY <2>1, RequestMoves DEF Jobs, Awaits
    <2>3. ThreeRequests' /\ ThreeEnding'
      BY <2>1, <2>2, ThreeOneMoves DEF Jobs, Awaits
    <2>4. ThreeCalm'
      BY <2>1, <2>3 DEF ThreeCalm, BoundIsActive, ModeOfSession
    <2>5. outcome[r] = "idle"
      BY <2>1 DEF CallsCalm
    <2> QED
      BY <2>1, <2>2, <2>4, <2>5, IsLive DEF ContractStep
  <1>2. CASE Three!RequestWithSwitch(r)
    <2>1. /\ phase[r] = "idle" /\ \A d \in Call : ~InFlight(d) /\ sessionState = "active"
          /\ outcome' = [outcome EXCEPT ![r] = "waiting"]
          /\ UNCHANGED <<hostSession, live, bound, disposed, ended>>
      BY <1>2, CalmCall DEF Three!RequestWithSwitch
    <2>2. bound # None
      BY <2>1 DEF ThreeCalm, BoundIsActive
    <2>3. sessionState' = "ending" /\ mode' = mode /\ phase' = [phase EXCEPT ![r] = "ending"]
      BY <1>2, <2>2 DEF Three!RequestWithSwitch, Three!SetSessionState
    <2>4. CallsCalm'
      BY <2>1, <2>3, RequestBegins DEF Jobs, Awaits
    <2>5. ThreeRequests' /\ ThreeEnding'
      BY <2>1, <2>3, <2>4, ThreeOneMoves DEF Jobs, Awaits
    <2>6. ThreeCalm'
      BY <2>1, <2>2, <2>3, <2>5 DEF ThreeCalm, BoundIsActive, ModeOfSession
    <2>7. outcome[r] = "idle"
      BY <2>1 DEF CallsCalm
    <2> QED
      BY <2>1, <2>3, <2>4, <2>6, <2>7, Asks DEF ContractStep, ModeGoes
  <1>3. CASE Three!RequestFresh(r)
    <2>1. phase[r] = "idle" /\ (\A d \in Call : ~InFlight(d)) /\ sessionState = "none"
      BY <1>3, CalmCall DEF Three!RequestFresh
    <2> QED
      BY <1>3, <2>1, ThreeBegins DEF Three!RequestFresh
  <1>4. CASE Three!SwitchContinues(r)
    <2>1. phase[r] = "resume" /\ InFlight(r) /\ sessionState = "none"
      BY <1>4 DEF Three!SwitchContinues, InFlight, ThreeCalm, ThreeRequests
    <2> QED
      BY <1>4, <2>1, ThreeBegins DEF Three!SwitchContinues
  <1> QED
    BY <1>1, <1>2, <1>3, <1>4

(* openSession: what fails takes no session with it, and what goes live has *)
(* the mode that was asked for.                                             *)
LEMMA ThreeOpensCalmly ==
  ASSUME Distinct, ModesAreSome, calm, CallsCalm, ThreeCalm, NEW r \in Request,
         Three!HostSupports(r) \/ Three!HostOpens(r) \/ Three!HostFails(r) \/ Three!SessionIsSet(r)
  PROVE  CallsCalm' /\ ThreeCalm' /\ ContractStep
PROOF
  <1>1. phase[r] \in {"asking", "opening", "setting"} /\ InFlight(r) /\ outcome[r] = "waiting"
    BY DEF Three!HostSupports, Three!HostOpens, Three!HostFails, Three!SessionIsSet, InFlight, CallsCalm
  <1>2. bound = None => sessionState \in {"none", "requesting"}
    BY DEF ThreeCalm, BoundIsActive
  <1>3. CASE Three!HostSupports(r)
    <2>1. /\ phase[r] = "asking" /\ phase' = [phase EXCEPT ![r] = "opening"]
          /\ UNCHANGED <<hostSession, live, bound, sessionState, mode, disposed, outcome, ended>>
      BY <1>3 DEF Three!HostSupports
    <2>2. CallsCalm'
      BY <1>1, <2>1, RequestWaits DEF Jobs, Awaits
    <2>3. bound' = None
      BY <2>1 DEF ThreeCalm, ThreeRequests
    <2>4. ThreeRequests' /\ ThreeEnding'
      BY <1>1, <2>1, <2>2, <2>3, ThreeOneMoves DEF Jobs, Awaits
    <2> QED
      BY <2>1, <2>2, <2>4, Stutters DEF ThreeCalm, BoundIsActive, ModeOfSession
  <1>4. CASE Three!HostOpens(r)
    <2>1. /\ phase[r] = "opening" /\ phase' = [phase EXCEPT ![r] = "setting"] /\ live' = {r}
          /\ UNCHANGED <<hostSession, bound, sessionState, mode, disposed, outcome, ended>>
      BY <1>4 DEF Three!HostOpens
    <2>2. CallsCalm'
      BY <1>1, <2>1, RequestWaits DEF Jobs, Awaits
    <2>3. bound' = None /\ sessionState' \in {"none", "requesting"} /\ mode' = None
      BY <1>2, <2>1 DEF ThreeCalm, ThreeRequests, ModeOfSession
    <2>4. ThreeRequests' /\ ThreeEnding'
      BY <1>1, <2>1, <2>2, <2>3, ThreeOneMoves DEF Jobs, Awaits
    <2> QED
      BY <2>1, <2>2, <2>3, <2>4, Stutters DEF ThreeCalm, BoundIsActive, ModeOfSession
  <1>5. CASE Three!HostFails(r)
    <2>1. bound = None /\ sessionState \in {"none", "requesting"} /\ mode = None
      <3>1. CASE phase[r] \in {"asking", "opening"}
        BY <1>2, <3>1 DEF ThreeCalm, ThreeRequests, ModeOfSession
      <3>2. CASE phase[r] = "setting"
        <4>1. hostSession # r
          BY <1>5, <3>2 DEF Three!HostFails
        <4>2. live = {r} /\ bound # r
          BY <3>2, <4>1 DEF ThreeCalm, ThreeRequests, BoundIsActive
        <4> QED
          BY <1>2, <4>2 DEF ThreeCalm, BoundIsActive, ModeOfSession
      <3> QED
        BY <1>1, <3>1, <3>2
    <2>2. /\ phase' = [phase EXCEPT ![r] = "done"] /\ outcome' = [outcome EXCEPT ![r] = "failed"]
          /\ sessionState' = "none" /\ mode' = None
          /\ UNCHANGED <<hostSession, live, bound, disposed, ended>>
      BY <1>1, <1>5, <2>1 DEF Three!HostFails, Three!SetSessionState
    <2>3. CallsCalm'
      BY <1>1, <2>2, RequestMoves DEF Jobs, Awaits
    <2>4. ThreeRequests' /\ ThreeEnding'
      BY <1>1, <2>2, <2>3, ThreeOneMoves DEF Jobs, Awaits
    <2>5. ThreeCalm'
      BY <2>1, <2>2, <2>4 DEF ThreeCalm, BoundIsActive, ModeOfSession
    <2> QED
      BY <1>1, <2>1, <2>2, <2>3, <2>5, Fails DEF ContractStep, ModeGoes
  <1>6. CASE Three!SessionIsSet(r)
    <2>1. /\ phase[r] = "setting" /\ phase' = [phase EXCEPT ![r] = "done"]
          /\ outcome' = [outcome EXCEPT ![r] = "ok"]
          /\ sessionState' = "active" /\ mode' = ModeOf[r]
          /\ hostSession' = r /\ bound' = r /\ r \in live
          /\ UNCHANGED <<live, disposed, ended>>
      BY <1>1, <1>6 DEF Three!SessionIsSet, Three!AttachSession
    <2>2. CallsCalm'
      BY <1>1, <2>1, RequestMoves DEF Jobs, Awaits
    <2>3. ThreeRequests' /\ ThreeEnding'
      BY <1>1, <2>1, <2>2, ThreeOneMoves DEF Jobs, Awaits
    <2>4. r # None /\ mode = None
      BY <2>1 DEF Distinct, ThreeCalm, ThreeRequests
    <2>5. ThreeCalm'
      BY <2>1, <2>3, <2>4 DEF ThreeCalm, BoundIsActive, ModeOfSession
    <2> QED
      BY <1>1, <2>1, <2>2, <2>4, <2>5, Grants DEF ContractStep
  <1> QED
    BY <1>3, <1>4, <1>5, <1>6

(* Once handled, an end leaves no session, no mode and no state. *)
LEMMA ThreeEnded ==
  ASSUME ModeOfSession, Three!HandleSessionEnd
  PROVE  bound' = None /\ sessionState' = "none" /\ mode' = None
  BY DEF ModeOfSession, Three!HandleSessionEnd, Three!SetSessionState

(* One call that waited for the end of the session goes on. *)
LEMMA EndingMoves ==
  ASSUME Distinct, CallsCalm, NEW c \in Call, InFlight(c), outcome' = outcome,
         NEW p \in (Jobs \cup Awaits) \ {"idle", "done"},
         phase' = [phase EXCEPT ![c] = IF c \in Request THEN p ELSE "done"],
         ended' = [e \in End |-> IF e = c THEN "done" ELSE ended[e]],
         sessionState' = "none"
  PROVE  CallsCalm' /\ ContractStep
PROOF
  <1>1. CASE c \in Request
    <2>1. ended' = ended
      BY <1>1 DEF Distinct, CallsCalm
    <2>2. CallsCalm'
      BY <1>1, <2>1, RequestWaits
    <2> QED
      BY <2>1, <2>2, Moves DEF ContractStep, ModeGoes
  <1>2. CASE c \in End /\ c \notin Request
    <2>1. CallsCalm'
      <3>1. /\ phase' = [phase EXCEPT ![c] = "done"] /\ "done" \in (Jobs \cup Awaits) \ {"idle"}
            /\ ended' \in [End -> {"idle", "waiting", "done"}]
            /\ \A d \in End : ended'[d] = IF d = c THEN "done" ELSE ended[d]
        BY <1>2 DEF CallsCalm, Jobs, Awaits
      <3> QED
        BY <1>2, <3>1, EndMoves
    <2> QED
      BY <1>2, <2>1, IsGone DEF ContractStep
  <1> QED
    BY <1>1, <1>2

(* session.end *)
LEMMA ThreeEndsCalmly ==
  ASSUME Distinct, calm, CallsCalm, ThreeCalm, ThreeInv
  PROVE  /\ \A e \in End : Three!EndSession(e) => CallsCalm' /\ ThreeCalm' /\ ContractStep
         /\ \A c \in Call : Three!EndSettles(c) => CallsCalm' /\ ThreeCalm' /\ ContractStep
PROOF
  <1>1. ASSUME NEW e \in End, Three!EndSession(e) PROVE CallsCalm' /\ ThreeCalm' /\ ContractStep
    <2>1. /\ phase[e] = "idle" /\ \A d \in Call : ~InFlight(d)
          /\ sessionState \in {"none", "active"} /\ e \notin Request
          /\ UNCHANGED <<hostSession, live, bound, disposed, outcome>>
      BY <1>1, CalmCall DEF Three!EndSession, Distinct
    <2>2. ended[e] = "idle"
      BY <2>1 DEF CallsCalm
    <2>3. CASE bound = None
      <3>1. /\ sessionState = "none" /\ ended' = [ended EXCEPT ![e] = "done"]
            /\ phase' = [phase EXCEPT ![e] = "done"] /\ UNCHANGED <<sessionState, mode>>
        BY <1>1, <2>1, <2>3 DEF Three!EndSession, ThreeCalm, BoundIsActive
      <3>2. CallsCalm'
        BY <2>1, <3>1, EndMoves DEF Jobs, Awaits, CallsCalm
      <3>3. ThreeRequests' /\ ThreeEnding'
        BY <2>1, <3>1 DEF ThreeRequests, ThreeEnding, CallsCalm, InFlight
      <3> QED
        BY <2>1, <2>2, <3>1, <3>2, <3>3, AsksEnd DEF ContractStep, ModeGoes, ThreeCalm, BoundIsActive, ModeOfSession
    <2>4. CASE bound # None
      <3>1. /\ sessionState = "active" /\ ended' = [ended EXCEPT ![e] = "waiting"]
            /\ phase' = [phase EXCEPT ![e] = "ending"] /\ sessionState' = "ending" /\ mode' = mode
        BY <1>1, <2>1, <2>4 DEF Three!EndSession, ThreeCalm, BoundIsActive, Three!SetSessionState
      <3>2. CallsCalm'
        <4>1. /\ "ending" \in (Jobs \cup Awaits) \ {"idle"} /\ "ending" # "done"
              /\ ended' \in [End -> {"idle", "waiting", "done"}]
              /\ \A d \in End : ended'[d] = IF d = e THEN "waiting" ELSE ended[d]
          BY <3>1 DEF CallsCalm, Awaits
        <4> QED
          BY <2>1, <3>1, <4>1, EndMoves
      <3>3. ThreeRequests' /\ ThreeEnding'
        BY <2>1, <3>1 DEF ThreeRequests, ThreeEnding, CallsCalm, InFlight
      <3>4. ThreeCalm'
        BY <2>1, <2>4, <3>1, <3>3 DEF ThreeCalm, BoundIsActive, ModeOfSession
      <3> QED
        BY <2>2, <2>1, <3>1, <3>2, <3>4, AsksEnd DEF ContractStep, ModeGoes
    <2> QED
      BY <2>3, <2>4
  <1>2. ASSUME NEW c \in Call, Three!EndSettles(c) PROVE CallsCalm' /\ ThreeCalm' /\ ContractStep
    <2>1. /\ phase[c] = "ending" /\ InFlight(c) /\ live = {}
          /\ UNCHANGED <<hostSession, live, disposed, outcome>>
      BY <1>2 DEF Three!EndSettles, InFlight
    <2>2. bound' = None /\ sessionState' = "none" /\ mode' = None /\ waiters' = {}
      BY <1>2, ThreeEnded, ThreeEndLeavesNobody DEF Three!EndSettles, ThreeCalm
    <2>3. /\ phase' = [phase EXCEPT ![c] = IF c \in Request THEN "resume" ELSE "done"]
          /\ ended' = [e \in End |-> IF e = c THEN "done" ELSE ended[e]]
      BY <1>2, <2>2 DEF Three!EndSettles
    <2>4. CallsCalm' /\ ContractStep
      BY <2>1, <2>2, <2>3, EndingMoves DEF Jobs, Awaits
    <2>5. \A d \in Call : d # c => phase'[d] \in {"idle", "done"}
      BY <2>1, <2>3 DEF CallsCalm, InFlight
    <2>6. ThreeRequests' /\ ThreeEnding'
      BY <2>2, <2>3, <2>5 DEF ThreeRequests, ThreeEnding, CallsCalm
    <2>7. hostSession' = None
      BY <2>1 DEF ThreeCalm, BoundIsActive
    <2> QED
      BY <2>1, <2>2, <2>4, <2>6, <2>7 DEF ThreeCalm, BoundIsActive, ModeOfSession
  <1> QED
    BY <1>1, <1>2

(* Where no call is in flight, only the session can be out of step. *)
LEMMA ThreeNobodyCalls ==
  ASSUME \A c \in Call : ~InFlight(c), phase' = phase
  PROVE  ThreeRequests' /\ ThreeEnding'
  BY DEF ThreeRequests, ThreeEnding, InFlight

(* The page, the renderer and the host *)
LEMMA ThreeHostCalmly ==
  ASSUME Distinct, calm, CallsCalm, ThreeCalm,
         \/ \E r \in Request : Three!ManagerStarts(r)
         \/ Three!PageOpens \/ Three!ManagerChanges \/ Three!SessionEnds \/ Three!VisibilityChanges
  PROVE  CallsCalm' /\ ThreeCalm' /\ ContractStep
PROOF
  <1>1. ASSUME NEW r \in Request, Three!ManagerStarts(r) PROVE CallsCalm' /\ ThreeCalm' /\ ContractStep
    <2>1. /\ phase[r] = "setting" /\ hostSession # r /\ r \in live
          /\ hostSession' = r /\ bound' = r /\ sessionState' = "active" /\ mode' = mode
          /\ UNCHANGED <<live, disposed, phase, outcome, ended>>
      BY <1>1 DEF Three!ManagerStarts, ThreeCalm, Three!HandleSessionStart, Three!AttachSession, Three!SetSessionState
    <2>2. mode = None /\ live = {r} /\ r # None
      BY <2>1 DEF ThreeCalm, ThreeRequests, Distinct
    <2>3. \A c \in Call : phase[c] \in {"resume", "asking", "opening", "setting", "ending"} => c = r
      BY <2>1 DEF CallsCalm, InFlight
    <2>4. ThreeRequests' /\ ThreeEnding'
      BY <2>1, <2>2, <2>3 DEF ThreeRequests, ThreeEnding
    <2>5. ContractStep
      BY <2>1, <2>2, Moves DEF ContractStep, ModeGoes
    <2> QED
      BY <2>1, <2>2, <2>4, <2>5, CallsStay DEF ThreeCalm, BoundIsActive, ModeOfSession
  <1>2. CASE Three!PageOpens
    <2>1. /\ live = {} /\ \A c \in Call : ~InFlight(c)
          /\ live' = {App} /\ hostSession' = App /\ bound' = App /\ sessionState' = "active" /\ mode' = mode
          /\ UNCHANGED <<disposed, phase, outcome, ended>>
      BY <1>2 DEF Three!PageOpens, ThreeCalm, Three!HandleSessionStart, Three!AttachSession, Three!SetSessionState,
                  Three!Waiting, InFlight
    <2>2. App # None /\ mode = None
      BY <2>1 DEF Distinct, ThreeCalm, BoundIsActive, ModeOfSession
    <2>3. ThreeRequests' /\ ThreeEnding'
      BY <2>1, ThreeNobodyCalls
    <2>4. ContractStep
      BY <2>1, <2>2, Moves DEF ContractStep, ModeGoes
    <2> QED
      BY <2>1, <2>2, <2>3, <2>4, CallsStay DEF ThreeCalm, BoundIsActive, ModeOfSession
  <1>3. CASE Three!ManagerChanges \/ Three!VisibilityChanges
    <2>1. UNCHANGED <<hostSession, live, bound, sessionState, mode, disposed, phase, outcome, ended>>
      BY <1>3 DEF Three!ManagerChanges, Three!VisibilityChanges
    <2> QED
      BY <2>1, CallsStay, Stutters DEF ThreeCalm, BoundIsActive, ModeOfSession, ThreeRequests, ThreeEnding
  <1>4. CASE Three!SessionEnds
    <2>1. PICK s \in live :
            /\ s \in Request => phase[s] = "done"
            /\ live' = live \ {s} /\ hostSession' = IF hostSession = s THEN None ELSE hostSession
            /\ IF bound = s THEN Three!HandleSessionEnd
               ELSE Three!HandleSessionEnd \/ UNCHANGED sessionVars
            /\ bound # s => hostSession # s
      BY <1>4 DEF Three!SessionEnds, Three!MayEnd, ThreeCalm, BoundIsActive
    <2>2. UNCHANGED <<disposed, phase, outcome, ended>>
      BY <1>4 DEF Three!SessionEnds
    <2>3. \A r \in Request : phase[r] # "setting"
      BY <2>1 DEF ThreeCalm, ThreeRequests
    <2>4. CASE bound = s
      <3>1. bound' = None /\ sessionState' = "none" /\ mode' = None
        BY <2>1, <2>4, ThreeEnded DEF ThreeCalm
      <3>2. ThreeRequests' /\ ThreeEnding'
        BY <2>2, <2>3, <3>1 DEF ThreeRequests, ThreeEnding
      <3>3. hostSession' = None
        BY <2>1, <2>4 DEF ThreeCalm, BoundIsActive
      <3>4. ContractStep
        BY <2>2, <3>1, Moves DEF ContractStep, ModeGoes
      <3> QED
        BY <2>2, <3>1, <3>2, <3>3, <3>4, CallsStay DEF ThreeCalm, BoundIsActive, ModeOfSession
    <2>5. CASE bound # s
      <3>1. UNCHANGED <<bound, sessionState, mode>>
        BY <1>4, <2>1, <2>5 DEF Three!SessionEnds, ThreeCalm, BoundIsActive
      <3> QED
        BY <2>1, <2>2, <2>3, <2>5, <3>1, CallsStay, Stutters
           DEF ThreeCalm, BoundIsActive, ModeOfSession, ThreeRequests, ThreeEnding
    <2> QED
      BY <2>4, <2>5
  <1> QED
    BY <1>1, <1>2, <1>3, <1>4

LEMMA ThreePageCalmly ==
  ASSUME Distinct, calm, CallsCalm, ThreeCalm,
         \/ Three!StartLoop \/ Three!StopLoop \/ Three!Tick
         \/ Three!RefreshCapabilities \/ Three!SetCapabilities \/ Three!ClearCapabilityOverrides
  PROVE  CallsCalm' /\ ThreeCalm' /\ ContractStep
PROOF
  <1>1. UNCHANGED <<hostSession, live, disposed, phase, outcome, ended>>
    BY DEF Three!StartLoop, Three!StopLoop, Three!Tick, Three!RefreshCapabilities, Three!SetCapabilities,
           Three!ClearCapabilityOverrides
  <1>2. UNCHANGED <<bound, sessionState, mode>>
    BY DEF Three!StartLoop, Three!StopLoop, Three!Tick, Three!RefreshCapabilities, Three!SetCapabilities,
           Three!ClearCapabilityOverrides, Three!AttachSession, ThreeCalm, BoundIsActive
  <1> QED
    BY <1>1, <1>2, CallsStay, Stutters DEF ThreeCalm, BoundIsActive, ModeOfSession, ThreeRequests, ThreeEnding

(* Whatever a calm three.js page does is what the contract allows. *)
LEMMA ThreeKeepsContract ==
  ASSUME Distinct, ModesAreSome, calm, CallsCalm, ThreeCalm, ThreeInv, Three!Next
  PROVE  CallsCalm' /\ ThreeCalm' /\ ContractStep
PROOF
  <1>1. \A r \in Request : ~Three!RequestTimeout(r)
    BY DEF Three!RequestTimeout
  <1>2. ~Three!Dispose
    BY DEF Three!Dispose
  <1> QED
    BY <1>1, <1>2, ThreeRequestsCalmly, ThreeOpensCalmly, ThreeEndsCalmly, ThreeHostCalmly, ThreePageCalmly
       DEF Three!Next, Three!Settles, Three!Continues, Three!TimesOut, Three!Answers

-----------------------------------------------------------------------------
(* Babylon.js: where the helper reports its state, the session's follows it. *)

FollowsHelper ==
  /\ bound = hostSession /\ (hostSession # None => hostSession \in live)
  /\ xrState \in {"out", "entering", "in", "exiting"}
  /\ xrState = "out" => hostSession = None /\ live = {} /\ sessionState \in {"none", "requesting"}
  /\ xrState = "entering" => sessionState = IF hostSession = None THEN "requesting" ELSE "active"
  /\ xrState = "in" => hostSession # None /\ sessionState = "active"
  /\ xrState = "exiting" => hostSession # None /\ sessionState = "ending"

(* Where the helper is while a call awaits p. *)
HelperAwaited(c, p) ==
  /\ p # "exited"
  /\ p = "ending" => xrState \in {"exiting", "out"}
  /\ p = "asking" => xrState = "out"
  /\ p = "opening" => xrState = "entering" /\ live = {}
  /\ p = "setting" => c \in Request /\ hostSession = c /\ xrState \in {"entering", "in"}

BabylonAwaited(c, p) ==
  /\ p = "resume" => sessionState = "none"
  /\ p \in {"asking", "opening", "setting"} => "enter" \in offers /\ mode = None
  /\ p \in {"asking", "opening", "setting"} /\ "events" \notin offers => sessionState \in {"none", "requesting"}
  /\ "events" \in offers => HelperAwaited(c, p)

BabylonCalls == \A c \in Call : BabylonAwaited(c, phase[c])

BabylonCalm ==
  /\ ~disposed
  /\ ModeOfSession
  /\ "enter" \notin offers => sessionState = "none"
  /\ "events" \in offers => FollowsHelper
  /\ BabylonCalls

LEMMA BabylonAloneMoves ==
  ASSUME Distinct, CallsCalm, NEW c \in Call, InFlight(c) \/ \A d \in Call : ~InFlight(d),
         NEW p, phase' = [phase EXCEPT ![c] = p], BabylonAwaited(c, p)'
  PROVE  BabylonCalls'
PROOF
  <1>1. ASSUME NEW d \in Call, d # c PROVE BabylonAwaited(d, phase[d])'
    <2>1. phase'[d] \in {"idle", "done"}
      BY <1>1 DEF CallsCalm, InFlight
    <2> QED
      BY <2>1 DEF BabylonAwaited, HelperAwaited
  <1>2. phase'[c] = p
    BY DEF CallsCalm
  <1> QED
    BY <1>1, <1>2 DEF BabylonCalls

LEMMA BabylonNobodyCalls ==
  ASSUME \A c \in Call : ~InFlight(c), phase' = phase
  PROVE  BabylonCalls'
  BY DEF BabylonCalls, BabylonAwaited, HelperAwaited, InFlight

LEMMA BabylonEnded ==
  ASSUME ModeOfSession, Babylon!HandleSessionEnd
  PROVE  bound' = None /\ sessionState' = "none" /\ mode' = None
  BY DEF ModeOfSession, Babylon!HandleSessionEnd, Babylon!SetSessionState

LEMMA BabylonBegins ==
  ASSUME Distinct, ModesAreSome, calm, CallsCalm, BabylonCalm, NEW r \in Request, sessionState = "none",
         InFlight(r) \/ \A c \in Call : ~InFlight(c),
         phase[r] = "idle" \/ phase[r] = "resume",
         Babylon!Begin(r), UNCHANGED <<offers, hostSession, live, bound, xrState, disposed, ended>>
  PROVE  CallsCalm' /\ BabylonCalm' /\ ContractStep
PROOF
  <1>1. mode = None /\ ("events" \in offers => xrState = "out")
    BY DEF BabylonCalm, FollowsHelper, ModeOfSession
  <1>2. (phase[r] = "idle" => outcome[r] = "idle") /\ (phase[r] = "resume" => outcome[r] = "waiting")
    BY DEF CallsCalm, InFlight
  <1>3. CASE "enter" \notin offers
    <2>1. /\ phase' = [phase EXCEPT ![r] = "done"] /\ outcome' = [outcome EXCEPT ![r] = "failed"]
          /\ UNCHANGED <<sessionState, mode>>
      BY <1>3 DEF Babylon!Begin
    <2>2. CallsCalm'
      BY <2>1, RequestMoves DEF Jobs, Awaits
    <2>3. BabylonCalls'
      BY <2>1, BabylonAloneMoves DEF BabylonAwaited, HelperAwaited
    <2>4. BabylonCalm'
      BY <2>1, <2>3 DEF BabylonCalm, FollowsHelper, ModeOfSession
    <2>5. Contract!Next
      BY <1>2, <2>1, Refuses, Fails DEF ModeGoes
    <2> QED
      BY <2>2, <2>4, <2>5 DEF ContractStep
  <1>4. CASE "enter" \in offers
    <2>1. /\ phase' = [phase EXCEPT ![r] = "asking"] /\ outcome' = [outcome EXCEPT ![r] = "waiting"]
          /\ sessionState' = "requesting" /\ mode' = None
      BY <1>1, <1>4 DEF Babylon!Begin, Babylon!SetSessionState
    <2>2. CallsCalm'
      BY <2>1, RequestBegins DEF Jobs, Awaits
    <2>3. BabylonAwaited(r, "asking")'
      BY <1>1, <1>4, <2>1 DEF BabylonAwaited, HelperAwaited
    <2>4. BabylonCalls'
      BY <2>1, <2>3, BabylonAloneMoves
    <2>5. BabylonCalm'
      BY <1>1, <1>4, <2>1, <2>4 DEF BabylonCalm, FollowsHelper, ModeOfSession
    <2>6. ASSUME phase[r] = "idle" PROVE ContractStep
      BY <1>2, <2>1, <2>6, Asks DEF ModeGoes, ContractStep
    <2>7. ASSUME phase[r] = "resume" PROVE ContractStep
      <3>1. outcome' = outcome
        BY <1>2, <2>1, <2>7 DEF CallsCalm
      <3> QED
        BY <1>2, <2>1, <2>7, <3>1, AsksHost DEF ContractStep
    <2> QED
      BY <2>2, <2>5, <2>6, <2>7
  <1> QED
    BY <1>3, <1>4

(* endSession up to its wait: a calm helper that reports its state is in a  *)
(* session.                                                                 *)
LEMMA BabylonExits ==
  ASSUME Distinct, calm, CallsCalm, BabylonCalm, NEW c \in Call, \A d \in Call : ~InFlight(d),
         sessionState = "active", xrState # "entering",
         Babylon!Exit(c), UNCHANGED <<offers, hostSession, live, disposed>>
  PROVE  /\ BabylonCalm' /\ sessionState' = "ending" /\ mode' = mode
         /\ phase' = [phase EXCEPT ![c] = "ending"] \/ phase' = [phase EXCEPT ![c] = "exited"]
PROOF
  <1>1. sessionState' = "ending" /\ mode' = mode /\ bound' = bound
    BY DEF Babylon!Exit, Babylon!SetSessionState
  <1>2. CASE xrState = "in"
    <2>1. phase' = [phase EXCEPT ![c] = "ending"] /\ xrState' = "exiting"
      BY <1>2 DEF Babylon!Exit
    <2>2. BabylonCalls'
      BY <2>1, BabylonAloneMoves DEF BabylonAwaited, HelperAwaited
    <2> QED
      BY <1>1, <1>2, <2>1, <2>2 DEF BabylonCalm, FollowsHelper, ModeOfSession
  <1>3. CASE xrState # "in"
    <2>1. phase' = [phase EXCEPT ![c] = "exited"] /\ xrState' = xrState
      BY <1>3 DEF Babylon!Exit
    <2>2. "events" \notin offers
      BY <1>3 DEF BabylonCalm, FollowsHelper
    <2>3. BabylonCalls'
      BY <2>1, <2>2, BabylonAloneMoves DEF BabylonAwaited, HelperAwaited
    <2> QED
      BY <1>1, <2>1, <2>2, <2>3 DEF BabylonCalm, ModeOfSession
  <1> QED
    BY <1>2, <1>3

LEMMA BabylonRequestsCalmly ==
  ASSUME Distinct, ModesAreSome, calm, CallsCalm, BabylonCalm, NEW r \in Request,
         \/ Babylon!RequestSameMode(r) \/ Babylon!RequestWithSwitch(r)
         \/ Babylon!RequestFresh(r) \/ Babylon!SwitchContinues(r)
  PROVE  CallsCalm' /\ BabylonCalm' /\ ContractStep
PROOF
  <1>1. CASE Babylon!RequestSameMode(r)
    <2>1. /\ phase[r] = "idle" /\ \A d \in Call : ~InFlight(d)
          /\ sessionState = "active" /\ mode = ModeOf[r]
          /\ phase' = [phase EXCEPT ![r] = "done"] /\ outcome' = [outcome EXCEPT ![r] = "ok"]
          /\ UNCHANGED <<offers, hostSession, live, bound, xrState, sessionState, mode, disposed, ended>>
      BY <1>1, CalmCall DEF Babylon!RequestSameMode, Babylon!MayAsk
    <2>2. CallsCalm'
      BY <2>1, RequestMoves DEF Jobs, Awaits
    <2>3. BabylonCalls'
      BY <2>1, BabylonAloneMoves DEF BabylonAwaited, HelperAwaited
    <2>4. BabylonCalm'
      BY <2>1, <2>3 DEF BabylonCalm, FollowsHelper, ModeOfSession
    <2>5. outcome[r] = "idle"
      BY <2>1 DEF CallsCalm
    <2> QED
      BY <2>1, <2>2, <2>4, <2>5, IsLive DEF ContractStep
  <1>2. CASE Babylon!RequestWithSwitch(r)
    <2>1. /\ phase[r] = "idle" /\ \A d \in Call : ~InFlight(d)
          /\ sessionState = "active" /\ xrState # "entering" /\ Babylon!Exit(r)
          /\ outcome' = [outcome EXCEPT ![r] = "waiting"]
          /\ UNCHANGED <<offers, hostSession, live, disposed, ended>>
      BY <1>2, CalmCall DEF Babylon!RequestWithSwitch, Babylon!MayAsk
    <2>2. /\ BabylonCalm' /\ sessionState' = "ending" /\ mode' = mode
          /\ phase' = [phase EXCEPT ![r] = "ending"] \/ phase' = [phase EXCEPT ![r] = "exited"]
      BY <2>1, BabylonExits
    <2>3. CallsCalm'
      BY <2>1, <2>2, RequestBegins DEF Jobs, Awaits
    <2>4. outcome[r] = "idle"
      BY <2>1 DEF CallsCalm
    <2> QED
      BY <2>1, <2>2, <2>3, <2>4, Asks DEF ContractStep, ModeGoes
  <1>3. CASE Babylon!RequestFresh(r)
    <2>1. phase[r] = "idle" /\ (\A d \in Call : ~InFlight(d)) /\ sessionState = "none"
      BY <1>3, CalmCall DEF Babylon!RequestFresh, Babylon!MayAsk
    <2> QED
      BY <1>3, <2>1, BabylonBegins DEF Babylon!RequestFresh
  <1>4. CASE Babylon!SwitchContinues(r)
    <2>1. phase[r] = "resume" /\ InFlight(r) /\ sessionState = "none"
      BY <1>4 DEF Babylon!SwitchContinues, InFlight, BabylonCalm, BabylonCalls, BabylonAwaited
    <2> QED
      BY <1>4, <2>1, BabylonBegins DEF Babylon!SwitchContinues
  <1> QED
    BY <1>1, <1>2, <1>3, <1>4

(* openSession up to enterXRAsync *)
LEMMA BabylonAsksCalmly ==
  ASSUME Distinct, ModesAreSome, calm, CallsCalm, BabylonCalm, NEW r \in Request,
         Babylon!IsSupported(r) \/ Babylon!NotSupported(r)
  PROVE  CallsCalm' /\ BabylonCalm' /\ ContractStep
PROOF
  <1>1. /\ phase[r] = "asking" /\ InFlight(r) /\ outcome[r] = "waiting"
        /\ UNCHANGED <<offers, hostSession, live, disposed, ended>>
    BY DEF Babylon!IsSupported, Babylon!NotSupported, InFlight, CallsCalm
  <1>2. /\ sessionState \in {"none", "requesting"} /\ mode = None /\ "enter" \in offers
        /\ "events" \in offers => xrState = "out" /\ hostSession = None /\ live = {}
    BY <1>1 DEF BabylonCalm, BabylonCalls, BabylonAwaited, HelperAwaited, FollowsHelper
  <1>3. CASE Babylon!IsSupported(r)
    <2>1. phase' = [phase EXCEPT ![r] = "opening"] /\ outcome' = outcome
      BY <1>3 DEF Babylon!IsSupported
    <2>2. CallsCalm'
      BY <1>1, <2>1, RequestWaits DEF Jobs, Awaits
    <2>3. CASE "events" \in offers
      <3>1. xrState' = "entering" /\ sessionState' = "requesting" /\ mode' = None /\ bound' = bound
        BY <1>2, <1>3, <2>3 DEF Babylon!IsSupported, Babylon!HandleStateChange, Babylon!Observed,
                               Babylon!SetSessionState, BabylonCalm
      <3>2. BabylonCalls'
        BY <1>1, <1>2, <2>1, <2>3, <3>1, BabylonAloneMoves DEF BabylonAwaited, HelperAwaited
      <3>3. BabylonCalm'
        BY <1>1, <1>2, <3>1, <3>2 DEF BabylonCalm, FollowsHelper, ModeOfSession
      <3> QED
        BY <1>1, <1>2, <2>1, <2>2, <3>1, <3>3, AsksHost DEF ContractStep
    <2>4. CASE "events" \notin offers
      <3>1. UNCHANGED <<sessionState, mode>>
        BY <1>3, <2>4 DEF Babylon!IsSupported, Babylon!HandleStateChange, Babylon!Observed
      <3>2. BabylonCalls'
        BY <1>1, <1>2, <2>1, <2>4, <3>1, BabylonAloneMoves DEF BabylonAwaited
      <3> QED
        BY <1>1, <2>1, <2>2, <2>4, <3>1, <3>2, Stutters DEF BabylonCalm, ModeOfSession
    <2> QED
      BY <2>3, <2>4
  <1>4. CASE Babylon!NotSupported(r)
    <2>1. /\ phase' = [phase EXCEPT ![r] = "done"] /\ outcome' = [outcome EXCEPT ![r] = "failed"]
          /\ sessionState' = "none" /\ mode' = None /\ UNCHANGED <<bound, xrState>>
      BY <1>1, <1>2, <1>4 DEF Babylon!NotSupported, Babylon!SetSessionState
    <2>2. CallsCalm'
      BY <1>1, <2>1, RequestMoves DEF Jobs, Awaits
    <2>3. BabylonCalls'
      BY <1>1, <2>1, BabylonAloneMoves DEF BabylonAwaited, HelperAwaited
    <2>4. BabylonCalm'
      BY <1>1, <1>2, <2>1, <2>3 DEF BabylonCalm, FollowsHelper, ModeOfSession
    <2> QED
      BY <1>1, <1>2, <2>1, <2>2, <2>4, Fails DEF ContractStep, ModeGoes
  <1> QED
    BY <1>3, <1>4

(* enterXRAsync rejects, or resolves. *)
LEMMA BabylonEntersCalmly ==
  ASSUME Distinct, ModesAreSome, calm, CallsCalm, BabylonCalm, NEW r \in Request,
         Babylon!EnterFails(r) \/ Babylon!EnterSucceeds(r)
  PROVE  CallsCalm' /\ BabylonCalm' /\ ContractStep
PROOF
  <1>1. /\ phase[r] \in {"opening", "setting"} /\ InFlight(r) /\ outcome[r] = "waiting"
        /\ UNCHANGED <<offers, hostSession, live, disposed, ended>>
    BY DEF Babylon!EnterFails, Babylon!EnterSucceeds, InFlight, CallsCalm
  <1>2. mode = None /\ "enter" \in offers
    BY <1>1 DEF BabylonCalm, BabylonCalls, BabylonAwaited
  <1>3. CASE Babylon!EnterFails(r)
    <2>1. /\ sessionState \in {"none", "requesting"}
          /\ "events" \in offers => hostSession = None /\ live = {}
      <3>1. CASE "events" \in offers
        <4>1. phase[r] # "setting"
          BY <1>3, <3>1 DEF Babylon!EnterFails, BabylonCalm, BabylonCalls, BabylonAwaited, HelperAwaited,
                           FollowsHelper, Distinct
        <4>2. xrState = "entering" /\ live = {}
          BY <1>1, <3>1, <4>1 DEF BabylonCalm, BabylonCalls, BabylonAwaited, HelperAwaited
        <4> QED
          BY <3>1, <4>2 DEF BabylonCalm, FollowsHelper
      <3>2. CASE "events" \notin offers
        BY <1>1, <3>2 DEF BabylonCalm, BabylonCalls, BabylonAwaited
      <3> QED
        BY <3>1, <3>2
    <2>2. /\ phase' = [phase EXCEPT ![r] = "done"] /\ outcome' = [outcome EXCEPT ![r] = "failed"]
          /\ xrState' = "out"
      BY <1>1, <1>3 DEF Babylon!EnterFails
    <2>3. sessionState' = "none" /\ mode' = None /\ ("events" \in offers => bound' = None)
      <3>1. CASE "events" \in offers
        BY <1>3, <3>1, BabylonEnded DEF Babylon!EnterFails, Babylon!Observed, BabylonCalm
      <3>2. CASE "events" \notin offers
        BY <1>1, <1>2, <1>3, <2>1, <3>2 DEF Babylon!EnterFails, Babylon!Observed, Babylon!SetSessionState
      <3> QED
        BY <3>1, <3>2
    <2>4. CallsCalm'
      BY <1>1, <2>2, RequestMoves DEF Jobs, Awaits
    <2>5. BabylonCalls'
      BY <1>1, <2>2, BabylonAloneMoves DEF BabylonAwaited, HelperAwaited
    <2>6. BabylonCalm'
      BY <1>1, <1>2, <2>1, <2>2, <2>3, <2>5 DEF BabylonCalm, FollowsHelper, ModeOfSession
    <2> QED
      BY <1>1, <2>1, <2>2, <2>3, <2>4, <2>6, Fails DEF ContractStep, ModeGoes
  <1>4. CASE Babylon!EnterSucceeds(r)
    <2>1. /\ phase' = [phase EXCEPT ![r] = "done"] /\ outcome' = [outcome EXCEPT ![r] = "ok"]
          /\ sessionState' = "active" /\ mode' = ModeOf[r] /\ xrState' = xrState
          /\ bound' = IF hostSession = None THEN bound ELSE hostSession
      BY <1>1, <1>4 DEF Babylon!EnterSucceeds, Babylon!AttachSession
    <2>2. CallsCalm'
      BY <1>1, <2>1, RequestMoves DEF Jobs, Awaits
    <2>3. BabylonCalls'
      BY <1>1, <2>1, BabylonAloneMoves DEF BabylonAwaited, HelperAwaited
    <2>4. "events" \in offers => hostSession = r /\ r # None /\ xrState \in {"entering", "in"}
      BY <1>4 DEF Babylon!EnterSucceeds, BabylonCalm, BabylonCalls, BabylonAwaited, HelperAwaited, Distinct
    <2>5. BabylonCalm'
      BY <1>1, <1>2, <2>1, <2>3, <2>4 DEF BabylonCalm, FollowsHelper, ModeOfSession
    <2> QED
      BY <1>1, <1>2, <2>1, <2>2, <2>5, Grants DEF ContractStep
  <1> QED
    BY <1>3, <1>4

(* session.end *)
LEMMA BabylonEndsCalmly ==
  ASSUME Distinct, calm, CallsCalm, BabylonCalm
  PROVE  /\ \A e \in End : Babylon!EndSession(e) => CallsCalm' /\ BabylonCalm' /\ ContractStep
         /\ \A c \in Call : Babylon!EndSettles(c) => CallsCalm' /\ BabylonCalm' /\ ContractStep
PROOF
  <1>1. ASSUME NEW e \in End, Babylon!EndSession(e) PROVE CallsCalm' /\ BabylonCalm' /\ ContractStep
    <2>1. /\ phase[e] = "idle" /\ \A d \in Call : ~InFlight(d)
          /\ sessionState \in {"none", "active"} /\ e \notin Request /\ xrState # "entering"
          /\ UNCHANGED <<offers, hostSession, live, disposed, outcome>>
      BY <1>1, CalmCall DEF Babylon!EndSession, Babylon!MayAsk, Distinct
    <2>2. ended[e] = "idle"
      BY <2>1 DEF CallsCalm
    <2>3. CASE sessionState = "none"
      <3>1. /\ ended' = [ended EXCEPT ![e] = "done"]
            /\ phase' = [phase EXCEPT ![e] = "done"] /\ UNCHANGED <<bound, sessionState, mode, xrState>>
        BY <1>1, <2>3 DEF Babylon!EndSession
      <3>2. CallsCalm'
        BY <2>1, <3>1, EndMoves DEF Jobs, Awaits, CallsCalm
      <3>3. BabylonCalls'
        BY <2>1, <3>1, BabylonAloneMoves DEF BabylonAwaited, HelperAwaited
      <3>4. BabylonCalm'
        BY <2>1, <3>1, <3>3 DEF BabylonCalm, FollowsHelper, ModeOfSession
      <3> QED
        BY <2>1, <2>2, <2>3, <3>1, <3>2, <3>4, AsksEnd DEF ContractStep, ModeGoes
    <2>4. CASE sessionState = "active"
      <3>1. Babylon!Exit(e) /\ ended' = [ended EXCEPT ![e] = "waiting"]
        BY <1>1, <2>4 DEF Babylon!EndSession, BabylonCalm
      <3>2. /\ BabylonCalm' /\ sessionState' = "ending" /\ mode' = mode
            /\ phase' = [phase EXCEPT ![e] = "ending"] \/ phase' = [phase EXCEPT ![e] = "exited"]
        BY <2>1, <2>4, <3>1, BabylonExits
      <3>3. CallsCalm'
        <4>1. /\ "ending" \in (Jobs \cup Awaits) \ {"idle"} /\ "ending" # "done"
              /\ "exited" \in (Jobs \cup Awaits) \ {"idle"} /\ "exited" # "done"
              /\ ended' \in [End -> {"idle", "waiting", "done"}]
              /\ \A d \in End : ended'[d] = IF d = e THEN "waiting" ELSE ended[d]
          BY <3>1 DEF CallsCalm, Jobs, Awaits
        <4>2. phase' = [phase EXCEPT ![e] = "ending"] => CallsCalm'
          BY <2>1, <4>1, EndMoves
        <4>3. phase' = [phase EXCEPT ![e] = "exited"] => CallsCalm'
          BY <2>1, <4>1, EndMoves
        <4> QED
          BY <3>2, <4>2, <4>3
      <3> QED
        BY <2>1, <2>2, <2>4, <3>1, <3>2, <3>3, AsksEnd DEF ContractStep, ModeGoes
    <2> QED
      BY <2>1, <2>3, <2>4
  <1>2. ASSUME NEW c \in Call, Babylon!EndSettles(c) PROVE CallsCalm' /\ BabylonCalm' /\ ContractStep
    <2>1. /\ phase[c] \in {"exited", "ending"} /\ InFlight(c) /\ (phase[c] = "ending" => live = {})
          /\ UNCHANGED <<offers, hostSession, live, xrState, disposed, outcome>>
      BY <1>2 DEF Babylon!EndSettles, InFlight
    <2>2. bound' = None /\ sessionState' = "none" /\ mode' = None
      BY <1>2, BabylonEnded DEF Babylon!EndSettles, BabylonCalm
    <2>3. CallsCalm' /\ ContractStep /\ BabylonCalls'
      <3>1. CASE c \in waiters'
        <4>1. phase' = [phase EXCEPT ![c] = "unsettled"] /\ ended' = ended
          BY <1>2, <3>1 DEF Babylon!EndSettles, CallsCalm
        <4>2. CallsCalm'
          <5>1. CASE c \in Request
            BY <2>1, <4>1, <5>1, RequestWaits DEF Awaits
          <5>2. CASE c \in End
            <6>1. /\ "unsettled" \in (Jobs \cup Awaits) \ {"idle"} /\ "unsettled" # "done"
                  /\ ended' \in [End -> {"idle", "waiting", "done"}]
                  /\ \A d \in End : ended'[d] = IF d = c THEN "waiting" ELSE ended[d]
              BY <2>1, <4>1, <5>2 DEF CallsCalm, Awaits
            <6> QED
              BY <2>1, <4>1, <5>2, <6>1, EndMoves
          <5> QED
            BY <5>1, <5>2
        <4>3. BabylonCalls'
          BY <2>1, <4>1, BabylonAloneMoves DEF BabylonAwaited, HelperAwaited
        <4> QED
          BY <2>1, <2>2, <4>1, <4>2, <4>3, Moves DEF ContractStep, ModeGoes
      <3>2. CASE c \notin waiters'
        <4>1. /\ phase' = [phase EXCEPT ![c] = IF c \in Request THEN "resume" ELSE "done"]
              /\ ended' = [e \in End |-> IF e = c THEN "done" ELSE ended[e]]
          BY <1>2, <3>2 DEF Babylon!EndSettles
        <4>2. CallsCalm' /\ ContractStep
          BY <2>1, <2>2, <4>1, EndingMoves DEF Jobs, Awaits
        <4>3. BabylonAwaited(c, "resume")' /\ BabylonAwaited(c, "done")'
          BY <2>2 DEF BabylonAwaited, HelperAwaited
        <4>4. phase' = [phase EXCEPT ![c] = "resume"] \/ phase' = [phase EXCEPT ![c] = "done"]
          BY <4>1
        <4>5. BabylonCalls'
          BY <2>1, <4>3, <4>4, BabylonAloneMoves
        <4> QED
          BY <4>2, <4>5
      <3> QED
        BY <3>1, <3>2
    <2>4. "events" \in offers => hostSession = None /\ xrState = "out" /\ live = {}
      BY <2>1 DEF BabylonCalm, BabylonCalls, BabylonAwaited, HelperAwaited, FollowsHelper
    <2> QED
      BY <2>1, <2>2, <2>3, <2>4 DEF BabylonCalm, FollowsHelper, ModeOfSession
  <1> QED
    BY <1>1, <1>2

(* The button of the app: nobody is in a call. *)
LEMMA BabylonButtonCalmly ==
  ASSUME Distinct, calm, CallsCalm, BabylonCalm, Babylon!AppEnters \/ Babylon!AppExits
  PROVE  CallsCalm' /\ BabylonCalm' /\ ContractStep
PROOF
  <1>1. /\ \A c \in Call : ~InFlight(c)
        /\ UNCHANGED <<offers, hostSession, disposed, phase, outcome, ended>>
    BY DEF Babylon!AppEnters, Babylon!AppExits, Babylon!Waiting, InFlight
  <1>2. CallsCalm' /\ BabylonCalls'
    BY <1>1, CallsStay, BabylonNobodyCalls
  <1>3. CASE Babylon!AppEnters
    <2>1. /\ "enter" \in offers /\ "events" \in offers /\ xrState = "out" /\ live = {}
          /\ xrState' = "entering" /\ live' = {App} /\ sessionState' = "requesting" /\ mode' = mode /\ bound' = bound
      BY <1>3 DEF Babylon!AppEnters, Babylon!HandleStateChange, Babylon!Observed, Babylon!SetSessionState, BabylonCalm
    <2>2. hostSession = None /\ mode = None
      BY <2>1 DEF BabylonCalm, FollowsHelper, ModeOfSession
    <2>3. \A r \in Request : outcome[r] # "waiting"
      BY <1>1 DEF CallsCalm, InFlight
    <2>4. BabylonCalm'
      BY <1>1, <1>2, <2>1, <2>2 DEF BabylonCalm, FollowsHelper, ModeOfSession
    <2> QED
      BY <1>1, <1>2, <2>1, <2>3, <2>4, Moves DEF ContractStep, ModeGoes
  <1>4. CASE Babylon!AppExits
    <2>1. xrState = "in" /\ xrState' = "exiting" /\ live' = live
      BY <1>4 DEF Babylon!AppExits
    <2>2. CASE "events" \in offers
      <3>1. /\ sessionState' = "ending" /\ mode' = mode /\ bound' = bound
            /\ sessionState = "active"
        BY <1>4, <2>1, <2>2 DEF Babylon!AppExits, Babylon!HandleStateChange, Babylon!Observed,
                               Babylon!SetSessionState, BabylonCalm, FollowsHelper
      <3>2. BabylonCalm'
        BY <1>1, <1>2, <2>1, <3>1 DEF BabylonCalm, FollowsHelper, ModeOfSession
      <3> QED
        BY <1>1, <1>2, <3>1, <3>2, Moves DEF ContractStep, ModeGoes
    <2>3. CASE "events" \notin offers
      <3>1. UNCHANGED <<sessionState, mode>>
        BY <1>4, <2>3 DEF Babylon!AppExits, Babylon!HandleStateChange, Babylon!Observed
      <3> QED
        BY <1>1, <1>2, <2>3, <3>1, Stutters DEF BabylonCalm, ModeOfSession
    <2> QED
      BY <2>2, <2>3
  <1> QED
    BY <1>3, <1>4

(* A session the helper opens, and the one it turns the app down. *)
LEMMA BabylonStartsCalmly ==
  ASSUME Distinct, calm, CallsCalm, BabylonCalm,
         Babylon!AppIsRefused \/ Babylon!SessionInit \/ Babylon!EntersXR
  PROVE  CallsCalm' /\ BabylonCalm' /\ ContractStep
PROOF
  <1>1. /\ xrState = "entering" /\ UNCHANGED <<offers, disposed, outcome, ended>>
        /\ \A c \in Call : phase[c] \notin Jobs
    BY DEF Babylon!AppIsRefused, Babylon!SessionInit, Babylon!EntersXR, Babylon!Quiet, Babylon!Jobs, Jobs
  <1>2. CASE Babylon!AppIsRefused
    <2>1. /\ live = {App} /\ hostSession = None /\ xrState' = "out" /\ live' = {}
          /\ UNCHANGED <<hostSession, phase>>
      BY <1>2 DEF Babylon!AppIsRefused
    <2>2. CallsCalm'
      BY <1>1, <2>1, CallsStay
    <2>3. CASE "events" \in offers
      <3>1. bound' = None /\ sessionState' = "none" /\ mode' = None
        BY <1>2, <2>3, BabylonEnded DEF Babylon!AppIsRefused, Babylon!HandleStateChange, Babylon!Observed, BabylonCalm
      <3>2. \A c \in Call : phase[c] \notin {"asking", "opening", "setting", "exited", "ending"}
        BY <1>1, <2>1, <2>3 DEF BabylonCalm, BabylonCalls, BabylonAwaited, HelperAwaited, Distinct
      <3>3. BabylonCalls'
        BY <2>1, <3>1, <3>2 DEF BabylonCalls, BabylonAwaited, HelperAwaited
      <3>4. ContractStep
        BY <1>1, <3>1, Moves DEF ContractStep, ModeGoes
      <3> QED
        BY <1>1, <2>1, <2>2, <3>1, <3>3, <3>4 DEF BabylonCalm, FollowsHelper, ModeOfSession
    <2>4. CASE "events" \notin offers
      <3>1. UNCHANGED <<sessionState, mode>>
        BY <1>2, <2>4 DEF Babylon!AppIsRefused, Babylon!HandleStateChange, Babylon!Observed
      <3> QED
        BY <1>1, <2>1, <2>2, <2>4, <3>1, Stutters DEF BabylonCalm, ModeOfSession, BabylonCalls, BabylonAwaited
    <2> QED
      BY <2>3, <2>4
  <1>3. CASE Babylon!SessionInit
    <2>1. PICK s \in Session :
            /\ IF s = App THEN live = {App} ELSE live = {} /\ phase[s] = "opening"
            /\ live' = {s} /\ hostSession' = s
            /\ phase' = IF s = App THEN phase ELSE [phase EXCEPT ![s] = "setting"]
            /\ IF Babylon!Observed THEN Babylon!HandleSessionStart(s)
               ELSE UNCHANGED <<sessionVars, derived, immersive, focusVars>>
      BY <1>3 DEF Babylon!SessionInit
    <2>2. hostSession = None /\ xrState' = xrState /\ s # None
      BY <1>3 DEF Babylon!SessionInit, Distinct
    <2>3. CASE s # App
      <3>1. s \in Request /\ phase[s] = "opening" /\ live = {} /\ InFlight(s)
            /\ phase' = [phase EXCEPT ![s] = "setting"]
        BY <2>1, <2>3 DEF InFlight
      <3>2. CallsCalm'
        BY <1>1, <3>1, RequestWaits DEF Awaits
      <3>3. mode = None /\ "enter" \in offers
            /\ ("events" \notin offers => sessionState \in {"none", "requesting"})
        BY <3>1 DEF BabylonCalm, BabylonCalls, BabylonAwaited
      <3>4. CASE "events" \in offers
        <4>1. bound' = s /\ sessionState' = "active" /\ mode' = None
          BY <2>1, <3>3, <3>4 DEF Babylon!Observed, Babylon!HandleSessionStart, Babylon!AttachSession,
                                  Babylon!SetSessionState, BabylonCalm
        <4>2. BabylonAwaited(s, "setting")'
          BY <1>1, <2>1, <2>2, <3>1, <3>3, <3>4, <4>1 DEF BabylonAwaited, HelperAwaited
        <4>3. BabylonCalls'
          BY <3>1, <4>2, BabylonAloneMoves
        <4>4. BabylonCalm'
          BY <1>1, <2>1, <2>2, <3>3, <4>1, <4>3 DEF BabylonCalm, FollowsHelper, ModeOfSession
        <4> QED
          BY <1>1, <3>2, <3>3, <4>1, <4>4, Moves DEF ContractStep, ModeGoes
      <3>5. CASE "events" \notin offers
        <4>1. UNCHANGED <<sessionState, mode>>
          BY <2>1, <3>5 DEF Babylon!Observed
        <4>2. BabylonAwaited(s, "setting")'
          BY <1>1, <3>3, <3>5, <4>1 DEF BabylonAwaited
        <4>3. BabylonCalls'
          BY <3>1, <4>2, BabylonAloneMoves
        <4> QED
          BY <1>1, <3>2, <3>5, <4>1, <4>3, Stutters DEF BabylonCalm, ModeOfSession
      <3> QED
        BY <3>4, <3>5
    <2>4. CASE s = App
      <3>1. live = {App} /\ phase' = phase
        BY <2>1, <2>4
      <3>2. CallsCalm'
        BY <1>1, <3>1, CallsStay
      <3>3. CASE "events" \in offers
        <4>1. sessionState = "requesting" /\ mode = None /\ "enter" \in offers
          BY <1>1, <2>2, <3>3 DEF BabylonCalm, FollowsHelper, ModeOfSession
        <4>2. bound' = s /\ sessionState' = "active" /\ mode' = None
          BY <2>1, <3>3, <4>1 DEF Babylon!Observed, Babylon!HandleSessionStart, Babylon!AttachSession,
                                  Babylon!SetSessionState, BabylonCalm
        <4>3. \A c \in Call : phase[c] \notin {"resume", "asking", "opening", "setting", "exited", "ending"}
          BY <1>1, <2>2, <3>1, <3>3
             DEF BabylonCalm, BabylonCalls, BabylonAwaited, HelperAwaited, Distinct, Jobs
        <4>4. BabylonCalls'
          BY <3>1, <4>3 DEF BabylonCalls, BabylonAwaited, HelperAwaited
        <4>5. BabylonCalm'
          BY <1>1, <2>1, <2>2, <4>1, <4>2, <4>4 DEF BabylonCalm, FollowsHelper, ModeOfSession
        <4> QED
          BY <1>1, <3>2, <4>1, <4>2, <4>5, Moves DEF ContractStep, ModeGoes
      <3>4. CASE "events" \notin offers
        <4>1. UNCHANGED <<sessionState, mode>>
          BY <2>1, <3>4 DEF Babylon!Observed
        <4> QED
          BY <1>1, <3>1, <3>2, <3>4, <4>1, Stutters DEF BabylonCalm, ModeOfSession, BabylonCalls, BabylonAwaited
      <3> QED
        BY <3>3, <3>4
    <2> QED
      BY <2>3, <2>4
  <1>4. CASE Babylon!EntersXR
    <2>1. hostSession # None /\ xrState' = "in" /\ UNCHANGED <<live, hostSession, phase>>
      BY <1>4 DEF Babylon!EntersXR
    <2>2. CallsCalm'
      BY <1>1, <2>1, CallsStay
    <2>3. CASE "events" \in offers
      <3>1. sessionState = "active" /\ sessionState' = "active" /\ bound' = hostSession /\ mode' = mode
        BY <1>1, <1>4, <2>1, <2>3
           DEF Babylon!EntersXR, Babylon!HandleStateChange, Babylon!Observed, Babylon!HandleSessionStart,
               Babylon!AttachSession, Babylon!SetSessionState, BabylonCalm, FollowsHelper
      <3>2. \A c \in Call : phase[c] \notin {"resume", "asking", "opening", "exited", "ending"}
        BY <1>1, <2>1, <2>3 DEF BabylonCalm, BabylonCalls, BabylonAwaited, HelperAwaited, FollowsHelper, Jobs
      <3>3. BabylonCalls'
        BY <1>1, <2>1, <2>3, <3>1, <3>2 DEF BabylonCalm, BabylonCalls, BabylonAwaited, HelperAwaited
      <3>4. BabylonCalm'
        BY <1>1, <2>1, <3>1, <3>3 DEF BabylonCalm, FollowsHelper, ModeOfSession
      <3> QED
        BY <1>1, <2>2, <3>1, <3>4, Moves DEF ContractStep, ModeGoes
    <2>4. CASE "events" \notin offers
      <3>1. UNCHANGED <<sessionState, mode>>
        BY <1>4, <2>4 DEF Babylon!EntersXR, Babylon!HandleStateChange, Babylon!Observed
      <3> QED
        BY <1>1, <2>1, <2>2, <2>4, <3>1, Stutters DEF BabylonCalm, ModeOfSession, BabylonCalls, BabylonAwaited
    <2> QED
      BY <2>3, <2>4
  <1> QED
    BY <1>2, <1>3, <1>4

(* The host takes the session away, and what only reads. *)
LEMMA BabylonHostCalmly ==
  ASSUME Distinct, calm, CallsCalm, BabylonCalm,
         \/ Babylon!SessionEnds \/ Babylon!VisibilityChanges
         \/ Babylon!StartLoop \/ Babylon!StopLoop \/ Babylon!Tick
         \/ Babylon!RefreshCapabilities \/ Babylon!SetCapabilities \/ Babylon!ClearCapabilityOverrides
  PROVE  CallsCalm' /\ BabylonCalm' /\ ContractStep
PROOF
  <1>1. UNCHANGED <<offers, disposed, phase, outcome, ended>>
    BY DEF Babylon!SessionEnds, Babylon!VisibilityChanges, Babylon!StartLoop, Babylon!StopLoop, Babylon!Tick,
           Babylon!RefreshCapabilities, Babylon!SetCapabilities, Babylon!ClearCapabilityOverrides
  <1>2. CallsCalm'
    BY <1>1, CallsStay
  <1>3. CASE Babylon!SessionEnds
    <2>1. /\ hostSession # None /\ (hostSession \in Request => phase[hostSession] = "done")
          /\ live' = {} /\ hostSession' = None /\ xrState' = "out"
          /\ \A c \in Call : phase[c] \notin Jobs
      BY <1>3 DEF Babylon!SessionEnds, Babylon!MayEnd, Babylon!Quiet, Babylon!Jobs, Jobs
    <2>2. CASE Babylon!HandleSessionEnd
      <3>1. bound' = None /\ sessionState' = "none" /\ mode' = None
        BY <2>2, BabylonEnded DEF BabylonCalm
      <3>2. "events" \in offers => \A c \in Call : phase[c] \notin {"asking", "opening", "setting", "exited"}
        BY <2>1 DEF BabylonCalm, BabylonCalls, BabylonAwaited, HelperAwaited, FollowsHelper
      <3>3. BabylonCalls'
        BY <1>1, <2>1, <3>1, <3>2 DEF BabylonCalm, BabylonCalls, BabylonAwaited, HelperAwaited
      <3>4. BabylonCalm'
        BY <1>1, <2>1, <3>1, <3>3 DEF BabylonCalm, FollowsHelper, ModeOfSession
      <3> QED
        BY <1>1, <1>2, <3>1, <3>4, Moves DEF ContractStep, ModeGoes
    <2>3. CASE ~Babylon!HandleSessionEnd
      <3>1. UNCHANGED <<sessionState, mode>> /\ "events" \notin offers
        BY <1>3, <2>3 DEF Babylon!SessionEnds, Babylon!Observed, BabylonCalm
      <3> QED
        BY <1>1, <1>2, <3>1, Stutters DEF BabylonCalm, ModeOfSession, BabylonCalls, BabylonAwaited
    <2> QED
      BY <2>2, <2>3
  <1>4. CASE Babylon!RefreshCapabilities
    <2>1. UNCHANGED <<live, hostSession, xrState>>
      BY <1>4 DEF Babylon!RefreshCapabilities
    <2>2. CASE UNCHANGED <<sessionState, mode>> /\ ("events" \in offers => bound' = bound)
      BY <1>1, <1>2, <2>1, <2>2, Stutters
         DEF BabylonCalm, FollowsHelper, ModeOfSession, BabylonCalls, BabylonAwaited, HelperAwaited
    <2>3. CASE Babylon!HandleSessionEnd /\ "events" \notin offers
      <3>1. bound' = None /\ sessionState' = "none" /\ mode' = None
        BY <2>3, BabylonEnded DEF BabylonCalm
      <3>2. BabylonCalm'
        BY <1>1, <2>3, <3>1 DEF BabylonCalm, ModeOfSession, BabylonCalls, BabylonAwaited
      <3> QED
        BY <1>1, <1>2, <3>1, <3>2, Moves DEF ContractStep, ModeGoes
    <2>4. \/ UNCHANGED <<sessionState, mode>> /\ ("events" \in offers => bound' = bound)
          \/ Babylon!HandleSessionEnd /\ "events" \notin offers
      BY <1>4 DEF Babylon!RefreshCapabilities, Babylon!AttachSession, BabylonCalm, FollowsHelper
    <2> QED
      BY <2>2, <2>3, <2>4
  <1>5. CASE ~(Babylon!SessionEnds \/ Babylon!RefreshCapabilities)
    <2>1. UNCHANGED <<live, hostSession, xrState, bound, sessionState, mode>>
      BY <1>5 DEF Babylon!VisibilityChanges, Babylon!StartLoop, Babylon!StopLoop, Babylon!Tick,
                  Babylon!SetCapabilities, Babylon!ClearCapabilityOverrides
    <2> QED
      BY <1>1, <1>2, <2>1, Stutters
         DEF BabylonCalm, FollowsHelper, ModeOfSession, BabylonCalls, BabylonAwaited, HelperAwaited
  <1> QED
    BY <1>3, <1>4, <1>5

(* Whatever a calm Babylon.js app does is what the contract allows. *)
LEMMA BabylonKeepsContract ==
  ASSUME Distinct, ModesAreSome, calm, CallsCalm, BabylonCalm, Babylon!Next
  PROVE  CallsCalm' /\ BabylonCalm' /\ ContractStep
PROOF
  <1>1. \A r \in Request : ~Babylon!RequestTimeout(r)
    BY DEF Babylon!RequestTimeout
  <1>2. ~Babylon!Dispose
    BY DEF Babylon!Dispose
  <1> QED
    BY <1>1, <1>2, BabylonRequestsCalmly, BabylonAsksCalmly, BabylonEntersCalmly, BabylonEndsCalmly,
       BabylonButtonCalmly, BabylonStartsCalmly, BabylonHostCalmly
       DEF Babylon!Next, Babylon!Settles, Babylon!Continues, Babylon!TimesOut

-----------------------------------------------------------------------------
(* IWSDK: the state is kept by the call in flight, and followed between      *)
(* calls.                                                                    *)

IWSDKCalm ==
  /\ sessionState \in {"none", "requesting", "active", "ending"}
  /\ sessionState = "none" => mode = None
  /\ \A c \in Call : /\ phase[c] = "resume" => sessionState = "none"
                     /\ phase[c] \in {"opening", "started"} => sessionState = "requesting"
                     /\ phase[c] # "missed"

(* The one call in flight is where the state lets it be. *)
LEMMA IWSDKAloneMoves ==
  ASSUME Distinct, CallsCalm, NEW c \in Call, InFlight(c) \/ \A d \in Call : ~InFlight(d),
         NEW p, phase' = [phase EXCEPT ![c] = p], p # "missed",
         sessionState' \in {"none", "requesting", "active", "ending"},
         p = "resume" => sessionState' = "none",
         p \in {"opening", "started"} => sessionState' = "requesting",
         sessionState' = "none" => mode' = None
  PROVE  IWSDKCalm'
PROOF
  <1>1. \A d \in Call : d # c => phase'[d] \in {"idle", "done"}
    BY DEF CallsCalm, InFlight
  <1>2. phase'[c] = p
    BY DEF CallsCalm
  <1> QED
    BY <1>1, <1>2 DEF IWSDKCalm

LEMMA IWSDKLaunches ==
  ASSUME Distinct, ModesAreSome, calm, CallsCalm, IWSDKCalm, NEW r \in Request, sessionState = "none",
         InFlight(r) \/ \A c \in Call : ~InFlight(c),
         phase[r] = "idle" \/ phase[r] = "resume",
         IWSDK!Launch(r), ended' = ended
  PROVE  CallsCalm' /\ IWSDKCalm' /\ ContractStep
PROOF
  <1>1. (phase[r] = "idle" => outcome[r] = "idle") /\ (phase[r] = "resume" => outcome[r] = "waiting") /\ mode = None
    BY DEF CallsCalm, InFlight, IWSDKCalm
  <1>2. CASE outcome' = [outcome EXCEPT ![r] = "waiting"] /\ sessionState' = "requesting"
             /\ (phase' = [phase EXCEPT ![r] = "started"] \/ phase' = [phase EXCEPT ![r] = "opening"])
    <2>1. CallsCalm'
      BY <1>2, RequestBegins DEF Jobs, Awaits
    <2>2. IWSDKCalm'
      BY <1>2, IWSDKAloneMoves
    <2>3. ASSUME phase[r] = "idle" PROVE ContractStep
      BY <1>1, <1>2, <2>3, Asks DEF ModeGoes, ContractStep
    <2>4. ASSUME phase[r] = "resume" PROVE ContractStep
      <3>1. outcome' = outcome
        BY <1>1, <1>2, <2>4 DEF CallsCalm
      <3> QED
        BY <1>1, <1>2, <2>4, <3>1, AsksHost DEF ContractStep
    <2> QED
      BY <2>1, <2>2, <2>3, <2>4
  <1>3. CASE /\ outcome' = [outcome EXCEPT ![r] = "failed"] /\ sessionState' = "none" /\ mode' = None
             /\ phase' = [phase EXCEPT ![r] = "done"]
    <2>1. CallsCalm'
      BY <1>3, RequestMoves DEF Jobs, Awaits
    <2>2. IWSDKCalm'
      BY <1>3, IWSDKAloneMoves
    <2>3. Contract!Next
      BY <1>1, <1>3, Refuses, Fails DEF ModeGoes
    <2> QED
      BY <2>1, <2>2, <2>3 DEF ContractStep
  <1> QED
    BY <1>1, <1>2, <1>3 DEF IWSDK!Launch, IWSDK!SetSessionState

(* endSession up to its wait, of a call that is the only one. *)
LEMMA IWSDKExits ==
  ASSUME Distinct, CallsCalm, NEW c \in Call, \A d \in Call : ~InFlight(d), IWSDK!Exit(c)
  PROVE  /\ IWSDKCalm' /\ sessionState' = "ending" /\ mode' = mode
         /\ phase' = [phase EXCEPT ![c] = "ending"] \/ phase' = [phase EXCEPT ![c] = "over"]
PROOF
  <1>1. sessionState' = "ending" /\ mode' = mode
        /\ (phase' = [phase EXCEPT ![c] = "ending"] \/ phase' = [phase EXCEPT ![c] = "over"])
    BY DEF IWSDK!Exit, IWSDK!SetSessionState
  <1> QED
    BY <1>1, IWSDKAloneMoves

LEMMA IWSDKRequestsCalmly ==
  ASSUME Distinct, ModesAreSome, calm, CallsCalm, IWSDKCalm, NEW r \in Request,
         \/ IWSDK!RequestSameMode(r) \/ IWSDK!RequestWithSwitch(r)
         \/ IWSDK!RequestFresh(r) \/ IWSDK!SwitchContinues(r)
  PROVE  CallsCalm' /\ IWSDKCalm' /\ ContractStep
PROOF
  <1>1. CASE IWSDK!RequestSameMode(r)
    <2>1. /\ phase[r] = "idle" /\ \A d \in Call : ~InFlight(d)
          /\ sessionState = "active" /\ mode = ModeOf[r]
          /\ phase' = [phase EXCEPT ![r] = "done"] /\ outcome' = [outcome EXCEPT ![r] = "ok"]
          /\ UNCHANGED <<sessionState, mode, ended>>
      BY <1>1, CalmCall DEF IWSDK!RequestSameMode
    <2>2. CallsCalm'
      BY <2>1, RequestMoves DEF Jobs, Awaits
    <2>3. IWSDKCalm'
      BY <2>1, IWSDKAloneMoves
    <2>4. outcome[r] = "idle"
      BY <2>1 DEF CallsCalm
    <2> QED
      BY <2>1, <2>2, <2>3, <2>4, IsLive DEF ContractStep
  <1>2. CASE IWSDK!RequestWithSwitch(r)
    <2>1. phase[r] = "idle" /\ (\A d \in Call : ~InFlight(d)) /\ sessionState = "active" /\ ended' = ended
      BY <1>2, CalmCall DEF IWSDK!RequestWithSwitch
    <2>2. outcome[r] = "idle"
      BY <2>1 DEF CallsCalm
    <2>3. CASE "exit" \in offers
      <3>1. IWSDK!Exit(r) /\ outcome' = [outcome EXCEPT ![r] = "waiting"]
        BY <1>2, <2>3 DEF IWSDK!RequestWithSwitch
      <3>2. /\ IWSDKCalm' /\ sessionState' = "ending" /\ mode' = mode
            /\ phase' = [phase EXCEPT ![r] = "ending"] \/ phase' = [phase EXCEPT ![r] = "over"]
        BY <2>1, <3>1, IWSDKExits
      <3>3. CallsCalm'
        BY <2>1, <3>1, <3>2, RequestBegins DEF Jobs, Awaits
      <3> QED
        BY <2>1, <2>2, <3>1, <3>2, <3>3, Asks DEF ContractStep, ModeGoes
    <2>4. CASE "exit" \notin offers
      <3>1. /\ phase' = [phase EXCEPT ![r] = "done"] /\ outcome' = [outcome EXCEPT ![r] = "failed"]
            /\ UNCHANGED <<sessionState, mode>>
        BY <1>2, <2>4 DEF IWSDK!RequestWithSwitch
      <3>2. CallsCalm'
        BY <2>1, <3>1, RequestMoves DEF Jobs, Awaits
      <3>3. IWSDKCalm'
        BY <2>1, <3>1, IWSDKAloneMoves
      <3> QED
        BY <2>1, <2>2, <3>1, <3>2, <3>3, Refuses DEF ContractStep
    <2> QED
      BY <2>3, <2>4
  <1>3. CASE IWSDK!RequestFresh(r)
    <2>1. phase[r] = "idle" /\ (\A d \in Call : ~InFlight(d)) /\ sessionState = "none"
      BY <1>3, CalmCall DEF IWSDK!RequestFresh
    <2> QED
      BY <1>3, <2>1, IWSDKLaunches DEF IWSDK!RequestFresh
  <1>4. CASE IWSDK!SwitchContinues(r)
    <2>1. phase[r] = "resume" /\ InFlight(r) /\ sessionState = "none"
      BY <1>4 DEF IWSDK!SwitchContinues, InFlight, IWSDKCalm
    <2> QED
      BY <1>4, <2>1, IWSDKLaunches DEF IWSDK!SwitchContinues
  <1> QED
    BY <1>1, <1>2, <1>3, <1>4

(* The session that was waited for has come. *)
LEMMA IWSDKStartsCalmly ==
  ASSUME Distinct, ModesAreSome, CallsCalm, IWSDKCalm, NEW r \in Request, IWSDK!Started(r)
  PROVE  CallsCalm' /\ IWSDKCalm' /\ ContractStep
PROOF
  <1>1. /\ InFlight(r) /\ outcome[r] = "waiting" /\ sessionState = "requesting"
        /\ sessionState' = "active" /\ mode' = ModeOf[r]
        /\ phase' = [phase EXCEPT ![r] = "done"] /\ outcome' = [outcome EXCEPT ![r] = "ok"] /\ ended' = ended
    BY DEF IWSDK!Started, InFlight, CallsCalm, IWSDKCalm
  <1>2. CallsCalm'
    BY <1>1, RequestMoves DEF Jobs, Awaits
  <1>3. IWSDKCalm'
    BY <1>1, IWSDKAloneMoves
  <1> QED
    BY <1>1, <1>2, <1>3, Grants DEF ContractStep

(* session.end *)
LEMMA IWSDKEndsCalmly ==
  ASSUME Distinct, calm, CallsCalm, IWSDKCalm
  PROVE  /\ \A e \in End : IWSDK!EndSession(e) => CallsCalm' /\ IWSDKCalm' /\ ContractStep
         /\ \A c \in Call : IWSDK!EndIsOver(c) => CallsCalm' /\ IWSDKCalm' /\ ContractStep
PROOF
  <1>1. ASSUME NEW e \in End, IWSDK!EndSession(e) PROVE CallsCalm' /\ IWSDKCalm' /\ ContractStep
    <2>1. /\ phase[e] = "idle" /\ \A d \in Call : ~InFlight(d)
          /\ sessionState \in {"none", "active"} /\ e \notin Request /\ outcome' = outcome
      BY <1>1, CalmCall DEF IWSDK!EndSession, Distinct
    <2>2. ended[e] = "idle"
      BY <2>1 DEF CallsCalm
    <2>3. CASE sessionState = "none"
      <3>1. /\ ended' = [ended EXCEPT ![e] = "done"]
            /\ phase' = [phase EXCEPT ![e] = "done"] /\ UNCHANGED <<sessionState, mode>>
        BY <1>1, <2>3 DEF IWSDK!EndSession
      <3>2. CallsCalm'
        BY <2>1, <3>1, EndMoves DEF Jobs, Awaits, CallsCalm
      <3>3. mode' = None
        BY <2>3, <3>1 DEF IWSDKCalm
      <3>4. IWSDKCalm'
        BY <2>1, <3>1, <3>3, IWSDKAloneMoves
      <3> QED
        BY <2>1, <2>2, <2>3, <3>1, <3>2, <3>4, AsksEnd DEF ContractStep, ModeGoes
    <2>4. CASE sessionState = "active"
      <3>1. IWSDK!Exit(e) /\ ended' = [ended EXCEPT ![e] = "waiting"]
        BY <1>1, <2>4 DEF IWSDK!EndSession
      <3>2. /\ IWSDKCalm' /\ sessionState' = "ending" /\ mode' = mode
            /\ phase' = [phase EXCEPT ![e] = "ending"] \/ phase' = [phase EXCEPT ![e] = "over"]
        BY <2>1, <3>1, IWSDKExits
      <3>3. CallsCalm'
        <4>1. /\ "ending" \in (Jobs \cup Awaits) \ {"idle"} /\ "ending" # "done"
              /\ "over" \in (Jobs \cup Awaits) \ {"idle"} /\ "over" # "done"
              /\ ended' \in [End -> {"idle", "waiting", "done"}]
              /\ \A d \in End : ended'[d] = IF d = e THEN "waiting" ELSE ended[d]
          BY <3>1 DEF CallsCalm, Jobs, Awaits
        <4>2. phase' = [phase EXCEPT ![e] = "ending"] => CallsCalm'
          BY <2>1, <4>1, EndMoves
        <4>3. phase' = [phase EXCEPT ![e] = "over"] => CallsCalm'
          BY <2>1, <4>1, EndMoves
        <4> QED
          BY <3>2, <4>2, <4>3
      <3> QED
        BY <2>1, <2>2, <2>4, <3>1, <3>2, <3>3, AsksEnd DEF ContractStep, ModeGoes
    <2> QED
      BY <2>1, <2>3, <2>4
  <1>2. ASSUME NEW c \in Call, IWSDK!EndIsOver(c) PROVE CallsCalm' /\ IWSDKCalm' /\ ContractStep
    <2>1. /\ InFlight(c) /\ sessionState' = "none" /\ mode' = None /\ outcome' = outcome
          /\ phase' = [phase EXCEPT ![c] = IF c \in Request THEN "resume" ELSE "done"]
          /\ ended' = [e \in End |-> IF e = c THEN "done" ELSE ended[e]]
      BY <1>2 DEF IWSDK!EndIsOver, IWSDK!SetSessionState, InFlight, IWSDKCalm
    <2>2. CallsCalm' /\ ContractStep
      BY <2>1, EndingMoves DEF Jobs, Awaits
    <2>3. phase' = [phase EXCEPT ![c] = "resume"] \/ phase' = [phase EXCEPT ![c] = "done"]
      BY <2>1
    <2>4. IWSDKCalm'
      BY <2>1, <2>3, IWSDKAloneMoves
    <2> QED
      BY <2>2, <2>4
  <1> QED
    BY <1>1, <1>2

(* The waits that have what they waited for go on together. *)
LEMMA WaitsSettleCalmly ==
  ASSUME CallsCalm, IWSDKCalm, IWSDK!SettleWaits(IWSDK!Reached, TRUE), UNCHANGED <<outcome, ended>>,
         sessionState = "requesting" => sessionState' = "requesting",
         sessionState' = "none" => mode' = None, sessionState' \in {"none", "requesting", "active", "ending"},
         \A c \in Call : phase[c] # "resume"
  PROVE  CallsCalm' /\ IWSDKCalm'
PROOF
  <1>1. phase' = [c \in Call |-> IF c \notin IWSDK!Reached THEN phase[c]
                                 ELSE IF phase[c] = "ending" THEN "over" ELSE "started"]
    BY DEF IWSDK!SettleWaits
  <1>2. \A c \in IWSDK!Reached : c \in Call /\ phase[c] \in {"opening", "ending"}
    BY DEF IWSDK!Reached
  <1>3. ASSUME NEW c \in Call
        PROVE  /\ phase'[c] \in Jobs \cup Awaits
               /\ InFlight(c)' <=> InFlight(c)
               /\ phase[c] = "idle" <=> phase'[c] = "idle"
               /\ phase[c] = "done" <=> phase'[c] = "done"
    BY <1>1, <1>2 DEF CallsCalm, InFlight, Jobs
  <1>4. CallsCalm'
    <2>1. phase' \in [Call -> Jobs \cup Awaits]
      BY <1>1, <1>3
    <2> QED
      BY <1>3, <2>1 DEF CallsCalm
  <1>5. \A c \in Call : /\ phase'[c] # "resume" /\ phase'[c] # "missed"
                        /\ phase'[c] \in {"opening", "started"} => phase[c] \in {"opening", "started"}
    BY <1>1, <1>2 DEF IWSDKCalm
  <1>6. IWSDKCalm'
    BY <1>5 DEF IWSDKCalm
  <1> QED
    BY <1>4, <1>6

(* The polls, the world and the visibility signal *)
LEMMA IWSDKHostCalmly ==
  ASSUME calm, CallsCalm, IWSDKCalm,
         IWSDK!CheckWaits \/ IWSDK!SessionAppears \/ IWSDK!SessionGoes \/ IWSDK!HandleVisibilityChange
  PROVE  CallsCalm' /\ IWSDKCalm' /\ ContractStep
PROOF
  <1>1. UNCHANGED <<outcome, ended>>
    BY DEF IWSDK!CheckWaits, IWSDK!SessionAppears, IWSDK!SessionGoes, IWSDK!HandleVisibilityChange
  <1>2. CASE IWSDK!CheckWaits
    <2>1. /\ UNCHANGED <<sessionState, mode>> /\ IWSDK!SettleWaits(IWSDK!Reached, TRUE)
          /\ \A c \in Call : phase[c] # "resume"
      BY <1>2 DEF IWSDK!CheckWaits, IWSDK!Quiet, IWSDK!Jobs
    <2>2. CallsCalm' /\ IWSDKCalm'
      BY <1>1, <2>1, WaitsSettleCalmly DEF IWSDKCalm
    <2> QED
      BY <1>1, <2>1, <2>2, Stutters
  <1>3. CASE IWSDK!SessionAppears \/ IWSDK!SessionGoes
    <2>1. UNCHANGED <<sessionState, mode, phase>>
      BY <1>3 DEF IWSDK!SessionAppears, IWSDK!SessionGoes
    <2> QED
      BY <1>1, <2>1, CallsStay, Stutters DEF IWSDKCalm
  <1>4. CASE IWSDK!HandleVisibilityChange
    <2>1. /\ IWSDK!SyncSessionState /\ IWSDK!SettleWaits(IWSDK!Reached, TRUE)
          /\ \A c \in Call : phase[c] # "resume"
      BY <1>4 DEF IWSDK!HandleVisibilityChange, IWSDK!Quiet, IWSDK!Jobs
    <2>2. \/ UNCHANGED <<sessionState, mode>>
          \/ /\ sessionState \notin {"requesting", "ending"} /\ sessionState' \in {"active", "none"}
             /\ mode' = IF sessionState' = "none" /\ sessionState # "none" THEN None ELSE mode
      BY <2>1 DEF IWSDK!SyncSessionState, IWSDK!SetSessionState
    <2>3. CallsCalm' /\ IWSDKCalm'
      <3>1. /\ sessionState = "requesting" => sessionState' = "requesting"
            /\ sessionState' = "none" => mode' = None
            /\ sessionState' \in {"none", "requesting", "active", "ending"}
        BY <2>2 DEF IWSDKCalm
      <3> QED
        BY <1>1, <2>1, <3>1, WaitsSettleCalmly
    <2>4. CASE UNCHANGED <<sessionState, mode>>
      BY <1>1, <2>3, <2>4, Stutters
    <2>5. CASE /\ sessionState \notin {"requesting", "ending"} /\ sessionState' \in {"active", "none"}
               /\ mode' = IF sessionState' = "none" /\ sessionState # "none" THEN None ELSE mode
      <3>1. CASE sessionState' = "none"
        BY <1>1, <2>3, <3>1, Moves DEF ContractStep, ModeGoes
      <3>2. CASE sessionState' = "active" /\ sessionState = "active"
        BY <1>1, <2>3, <2>5, <3>2, Stutters
      <3>3. CASE sessionState' = "active" /\ sessionState = "none"
        BY <1>1, <2>3, <2>5, <3>3, Moves DEF ContractStep, ModeGoes, IWSDKCalm
      <3>4. sessionState \in {"active", "none"}
        BY <2>5 DEF IWSDKCalm
      <3> QED
        BY <2>5, <3>1, <3>2, <3>3, <3>4
    <2> QED
      BY <2>2, <2>4, <2>5
  <1> QED
    BY <1>2, <1>3, <1>4

LEMMA IWSDKPageCalmly ==
  ASSUME CallsCalm, IWSDKCalm,
         IWSDK!Update \/ IWSDK!RefreshCapabilities \/ IWSDK!SetCapabilities \/ IWSDK!ClearCapabilityOverrides
  PROVE  CallsCalm' /\ IWSDKCalm' /\ ContractStep
PROOF
  <1>1. UNCHANGED <<sessionState, mode, phase, outcome, ended>>
    BY DEF IWSDK!Update, IWSDK!RefreshCapabilities, IWSDK!SetCapabilities, IWSDK!ClearCapabilityOverrides
  <1> QED
    BY <1>1, CallsStay, Stutters DEF IWSDKCalm

(* Whatever a calm IWSDK world does is what the contract allows. *)
LEMMA IWSDKKeepsContract ==
  ASSUME Distinct, ModesAreSome, calm, CallsCalm, IWSDKCalm, IWSDK!Next
  PROVE  CallsCalm' /\ IWSDKCalm' /\ ContractStep
PROOF
  <1>1. \A c \in Call : ~IWSDK!WaitTimesOut(c)
    BY DEF IWSDK!WaitTimesOut
  <1>2. ~IWSDK!Dispose /\ \A r \in Request : ~IWSDK!Missed(r)
    BY DEF IWSDK!Dispose, IWSDK!Missed, IWSDKCalm
  <1> QED
    BY <1>1, <1>2, IWSDKRequestsCalmly, IWSDKStartsCalmly, IWSDKEndsCalmly, IWSDKHostCalmly, IWSDKPageCalmly
       DEF IWSDK!Next, IWSDK!Settles, IWSDK!Continues, IWSDK!TimesOut

-----------------------------------------------------------------------------
(* The mock: its pending request is the one in flight. *)

MockCalm ==
  /\ \A c \in Call : InFlight(c) => c = pendingRequest
  /\ pendingRequest # None =>
       /\ pendingRequest \in Request /\ InFlight(pendingRequest)
       /\ sessionState \in {"requesting", "none"} /\ requestedMode = ModeOf[pendingRequest]

LEMMA MockKeepsContract ==
  ASSUME Distinct, ModesAreSome, calm, CallsCalm, MockCalm, Mock!Next
  PROVE  CallsCalm' /\ MockCalm' /\ ContractStep
PROOF
  <1>1. CASE Mock!SimulateSessionStart
    <2>1. /\ pendingRequest \in Request /\ InFlight(pendingRequest) /\ outcome[pendingRequest] = "waiting"
          /\ sessionState # "active" /\ requestedMode = ModeOf[pendingRequest] /\ requestedMode # None
      BY <1>1 DEF Mock!SimulateSessionStart, MockCalm, ModesAreSome, CallsCalm
    <2>2. /\ sessionState' = "active" /\ mode' = ModeOf[pendingRequest] /\ pendingRequest' = None
          /\ phase' = [phase EXCEPT ![pendingRequest] = "done"]
          /\ outcome' = [outcome EXCEPT ![pendingRequest] = "ok"] /\ ended' = ended
      BY <1>1, <2>1 DEF Mock!SimulateSessionStart, Mock!SetSessionState, Distinct
    <2>3. CallsCalm'
      BY <2>1, <2>2, RequestMoves DEF Jobs, Awaits
    <2>4. \A c \in Call : ~InFlight(c)'
      BY <2>1, <2>2 DEF MockCalm, CallsCalm, InFlight
    <2> QED
      BY <2>1, <2>2, <2>3, <2>4, Grants DEF ContractStep, MockCalm
  <1>2. CASE Mock!SimulateSessionEnd
    <2>1. /\ sessionState' = "none" /\ mode' = mode
          /\ UNCHANGED <<pendingRequest, requestedMode, phase, outcome, ended>>
      BY <1>2 DEF Mock!SimulateSessionEnd, Mock!SetSessionState, Mock!mockVars
    <2> QED
      BY <2>1, CallsStay, Moves DEF ContractStep, ModeGoes, MockCalm, InFlight
  <1>3. ASSUME NEW r \in Request, Mock!RequestSameMode(r) \/ Mock!RequestSession(r)
        PROVE  CallsCalm' /\ MockCalm' /\ ContractStep
    <2>1. phase[r] = "idle" /\ (\A d \in Call : ~InFlight(d)) /\ sessionState \in {"none", "active"}
      BY <1>3, CalmCall DEF Mock!RequestSameMode, Mock!RequestSession
    <2>2. outcome[r] = "idle" /\ pendingRequest = None
      BY <2>1 DEF CallsCalm, MockCalm
    <2>3. CASE Mock!RequestSameMode(r)
      <3>1. /\ sessionState = "active" /\ mode = ModeOf[r]
            /\ phase' = [phase EXCEPT ![r] = "done"] /\ outcome' = [outcome EXCEPT ![r] = "ok"]
            /\ UNCHANGED <<sessionState, mode, ended, pendingRequest>>
        BY <2>3 DEF Mock!RequestSameMode, Mock!mockVars
      <3>2. CallsCalm'
        BY <2>1, <3>1, RequestMoves DEF Jobs, Awaits
      <3>3. \A c \in Call : ~InFlight(c)'
        BY <2>1, <3>1 DEF CallsCalm, InFlight
      <3> QED
        BY <2>2, <3>1, <3>2, <3>3, IsLive DEF ContractStep, MockCalm
    <2>4. CASE Mock!RequestSession(r)
      <3>1. /\ sessionState' = "requesting" /\ pendingRequest' = r /\ requestedMode' = ModeOf[r]
            /\ phase' = [phase EXCEPT ![r] = "opening"] /\ outcome' = [outcome EXCEPT ![r] = "waiting"]
            /\ ended' = ended
        BY <2>4 DEF Mock!RequestSession, Mock!SetSessionState
      <3>2. CallsCalm'
        BY <2>1, <3>1, RequestBegins DEF Jobs, Awaits
      <3>3. InFlight(r)' /\ \A c \in Call : InFlight(c)' => c = r
        BY <2>1, <3>1 DEF CallsCalm, InFlight
      <3>4. MockCalm'
        BY <3>1, <3>3 DEF MockCalm, InFlight
      <3> QED
        BY <2>1, <2>2, <3>1, <3>2, <3>4, Asks DEF ContractStep, ModeGoes
    <2> QED
      BY <1>3, <2>3, <2>4
  <1>4. ASSUME NEW e \in End, Mock!EndSession(e) PROVE CallsCalm' /\ MockCalm' /\ ContractStep
    <2>1. /\ phase[e] = "idle" /\ (\A d \in Call : ~InFlight(d)) /\ e \notin Request
          /\ sessionState' = "none" /\ phase' = [phase EXCEPT ![e] = "done"]
          /\ ended' = [ended EXCEPT ![e] = "done"] /\ UNCHANGED <<outcome, pendingRequest>>
      BY <1>4, CalmCall DEF Mock!EndSession, Mock!SetSessionState, Mock!mockVars, Distinct
    <2>2. ended[e] = "idle" /\ pendingRequest = None
      BY <2>1 DEF CallsCalm, MockCalm
    <2>3. CallsCalm'
      BY <2>1, EndMoves DEF Jobs, Awaits, CallsCalm
    <2>4. \A c \in Call : ~InFlight(c)'
      BY <2>1 DEF CallsCalm, InFlight
    <2> QED
      BY <2>1, <2>2, <2>3, <2>4, EndsAtOnce DEF ContractStep, MockCalm
  <1>5. \A r \in Request : ~Mock!RequestTimeout(r)
    BY DEF Mock!RequestTimeout
  <1> QED
    BY <1>1, <1>2, <1>3, <1>4, <1>5 DEF Mock!Next, Mock!TimesOut

-----------------------------------------------------------------------------
(* Calm use stays calm. *)
LEMMA CalmIsFixed == Three!Next \/ Babylon!Next \/ IWSDK!Next \/ Mock!Next => calm' = calm
PROOF
  <1>1. Three!Next => calm' = calm
    BY DEF Three!Answers, Three!ClearCapabilityOverrides, Three!Continues, Three!Dispose, Three!EndSession,
           Three!EndSettles, Three!HostFails, Three!HostOpens, Three!HostSupports, Three!ManagerChanges,
           Three!ManagerStarts, Three!Next, Three!PageOpens, Three!RefreshCapabilities, Three!RequestFresh,
           Three!RequestSameMode, Three!RequestTimeout, Three!RequestWithSwitch, Three!SessionEnds,
           Three!SessionIsSet, Three!SetCapabilities, Three!Settles, Three!StartLoop, Three!StopLoop,
           Three!SwitchContinues, Three!Tick, Three!TimesOut, Three!VisibilityChanges
  <1>2. Babylon!Next => calm' = calm
    BY DEF Babylon!AppEnters, Babylon!AppExits, Babylon!AppIsRefused, Babylon!ClearCapabilityOverrides,
           Babylon!Continues, Babylon!Dispose, Babylon!EndSession, Babylon!EndSettles, Babylon!EnterFails,
           Babylon!EnterSucceeds, Babylon!EntersXR, Babylon!IsSupported, Babylon!Next,
           Babylon!NotSupported, Babylon!RefreshCapabilities, Babylon!RequestFresh,
           Babylon!RequestSameMode, Babylon!RequestTimeout, Babylon!RequestWithSwitch, Babylon!SessionEnds,
           Babylon!SessionInit, Babylon!SetCapabilities, Babylon!Settles, Babylon!StartLoop,
           Babylon!StopLoop, Babylon!SwitchContinues, Babylon!Tick, Babylon!TimesOut,
           Babylon!VisibilityChanges
  <1>3. IWSDK!Next => calm' = calm
    BY DEF IWSDK!CheckWaits, IWSDK!ClearCapabilityOverrides, IWSDK!Continues, IWSDK!Dispose,
           IWSDK!EndIsOver, IWSDK!EndSession, IWSDK!HandleVisibilityChange, IWSDK!Missed, IWSDK!Next,
           IWSDK!RefreshCapabilities, IWSDK!RequestFresh, IWSDK!RequestSameMode, IWSDK!RequestWithSwitch,
           IWSDK!SessionAppears, IWSDK!SessionGoes, IWSDK!SetCapabilities, IWSDK!Settles, IWSDK!Started,
           IWSDK!SwitchContinues, IWSDK!TimesOut, IWSDK!Update, IWSDK!WaitTimesOut
  <1>4. Mock!Next => calm' = calm
    BY DEF Mock!EndSession, Mock!Next, Mock!RequestSameMode, Mock!RequestSession, Mock!RequestTimeout,
           Mock!SimulateSessionEnd, Mock!SimulateSessionStart, Mock!TimesOut, Mock!engineVars
  <1> QED
    BY <1>1, <1>2, <1>3, <1>4

(* What calm use keeps to, whichever adapter it is of. *)
Calm ==
  calm => /\ CallsCalm
          /\ which = "three" => ThreeCalm
          /\ which = "babylon" => BabylonCalm
          /\ which = "iwsdk" => IWSDKCalm
          /\ which = "mock" => MockCalm

LEMMA CalmStarts == ASSUME Distinct PROVE Init => Calm /\ (calm => Contract!Init)
PROOF
  <1> SUFFICES ASSUME Init, calm PROVE Calm /\ Contract!Init
    BY DEF Calm
  <1>1. \E session \in {None, App} : StartsWith(session)
    BY DEF Init, Three!Init, Babylon!Init, IWSDK!Init, Mock!Init, Three!StartsWith, Babylon!StartsWith,
           IWSDK!StartsWith, Mock!StartsWith, StartsWith
  <1>2. PICK session \in {None, App} : StartsWith(session)
    BY <1>1
  <1>3. CallsCalm /\ \A c \in Call : phase[c] = "idle"
    BY <1>2 DEF StartsWith, CallsCalm, InFlight, Jobs, Awaits
  <1>4. Contract!Init
    BY <1>2 DEF StartsWith, Contract!Init, Contract!SessionState
  <1>5. which = "three" => ThreeCalm
    BY <1>2, <1>3 DEF StartsWith, ThreeCalm, ModeOfSession, BoundIsActive, ThreeRequests, ThreeEnding
  <1>6. which = "babylon" => BabylonCalm
    <2>1. ASSUME which = "babylon" PROVE FollowsHelper /\ ("enter" \notin offers => sessionState = "none")
      <3>1. \/ StartsWith(None) /\ xrState = "out"
            \/ StartsWith(App) /\ "enter" \in offers /\ xrState = "in"
        BY <2>1 DEF Init, Babylon!Init, Babylon!StartsWith, StartsWith
      <3> QED
        BY <3>1 DEF StartsWith, FollowsHelper, Distinct
    <2>2. BabylonCalls
      BY <1>3 DEF BabylonCalls, BabylonAwaited, HelperAwaited
    <2> QED
      BY <1>2, <2>1, <2>2 DEF StartsWith, BabylonCalm, ModeOfSession
  <1>7. which = "iwsdk" => IWSDKCalm
    BY <1>2, <1>3 DEF StartsWith, IWSDKCalm
  <1>8. which = "mock" => MockCalm
    <2>1. which = "mock" => pendingRequest = None
      BY DEF Init, Mock!Init
    <2> QED
      BY <1>3, <2>1 DEF MockCalm, InFlight
  <1> QED
    BY <1>3, <1>4, <1>5, <1>6, <1>7, <1>8 DEF Calm

LEMMA CalmSteps ==
  ASSUME Distinct, ModesAreSome, IInv, Calm, [Step]_allVars
  PROVE  Calm' /\ (calm => ContractStep)
PROOF
  <1>1. CASE UNCHANGED allVars
    <2>1. UNCHANGED <<vars, ownVars>>
      BY <1>1 DEF allVars
    <2>2. calm => CallsCalm' /\ ContractStep
      BY <2>1, CallsStay, Stutters DEF Calm
    <2>3. Calm'
      BY <2>1, <2>2 DEF Calm, ownVars, ThreeCalm, ModeOfSession, BoundIsActive, ThreeRequests, ThreeEnding,
         BabylonCalm, BabylonCalls, BabylonAwaited, HelperAwaited, FollowsHelper, IWSDKCalm, MockCalm, InFlight
    <2> QED
      BY <2>2, <2>3
  <1>2. CASE which = "three" /\ Three!Next /\ UNCHANGED ownVars
    <2>1. which' = "three" /\ calm' = calm
      BY <1>2, CalmIsFixed DEF ownVars
    <2> QED
      BY <1>2, <2>1, ThreeKeepsContract DEF Calm, IInv
  <1>3. CASE which = "babylon" /\ Babylon!Next /\ UNCHANGED <<which, pendingRequest, requestedMode>>
    <2>1. which' = "babylon" /\ calm' = calm
      BY <1>3, CalmIsFixed
    <2> QED
      BY <1>3, <2>1, BabylonKeepsContract DEF Calm
  <1>4. CASE which = "iwsdk" /\ IWSDK!Next /\ UNCHANGED ownVars
    <2>1. which' = "iwsdk" /\ calm' = calm
      BY <1>4, CalmIsFixed DEF ownVars
    <2> QED
      BY <1>4, <2>1, IWSDKKeepsContract DEF Calm
  <1>5. CASE which = "mock" /\ Mock!Next /\ UNCHANGED <<which, xrState>>
    <2>1. which' = "mock" /\ calm' = calm
      BY <1>5, CalmIsFixed
    <2> QED
      BY <1>5, <2>1, MockKeepsContract DEF Calm
  <1> QED
    BY <1>1, <1>2, <1>3, <1>4, <1>5 DEF Step

(* One call at a time, on a host that does as it is asked: whatever is     *)
(* requested, switched, refused, ended or taken away, what getState(),     *)
(* getMode() and the promises of request() and end() show is what          *)
(* SessionFacet allows, on every adapter.                                  *)
THEOREM AdaptersKeepTheContract ==
  ASSUME Distinct, ModesAreSome PROVE Adapters => ImplementsContract
PROOF
  <1>1. Init => Calm /\ (calm => Contract!Init)
    BY CalmStarts
  <1>2. IInv /\ Calm /\ [Step]_allVars => Calm' /\ [calm => Contract!Next]_(Contract!vars)
    BY CalmSteps DEF ContractStep
  <1> QED
    BY <1>1, <1>2, Invariant, PTL DEF Adapters, ImplementsContract
=============================================================================
