-------------------------- MODULE SessionContract --------------------------
(***************************************************************************)
(* What a runtime adapter promises about its session                       *)
(* (packages/service-framework/src/runtime-adapter.ts, SessionFacet, and   *)
(* the session cases of contract-cases.ts), seen through getState(),       *)
(* getMode() and the promises of request() and end().                      *)
(***************************************************************************)
CONSTANTS
  Request,  \* calls of session.request
  End,      \* calls of session.end
  Mode,     \* session modes
  ModeOf    \* the mode a call asks for

VARIABLES
  state,    \* getState()
  mode,     \* {getMode()}, or {} for null
  outcome,  \* of each request
  ended     \* of each end

vars == <<state, mode, outcome, ended>>

SessionState == {"none", "requesting", "active", "ending"}
Outcome == {"idle", "waiting", "ok", "failed"}

ContractTypeOK ==
  /\ state \in SessionState
  /\ mode \subseteq Mode
  /\ outcome \in [Request -> Outcome]
  /\ ended \in [End -> {"idle", "waiting", "done"}]

(* The app may be running in a session it did not ask this facet for, and  *)
(* then the mode is null.                                                  *)
Init ==
  /\ state \in SessionState \ {"requesting"}
  /\ mode = {}
  /\ outcome = [r \in Request |-> "idle"]
  /\ ended = [e \in End |-> "idle"]

(* The mode goes with the session. *)
KeepMode == mode' = IF state = "active" /\ state' = "active" THEN mode ELSE {}

(* A request goes to the host, at once or, when a session has to end       *)
(* first, later.                                                           *)
Ask(r) ==
  /\ outcome[r] = "idle"
  /\ outcome' = [outcome EXCEPT ![r] = "waiting"]
  /\ \/ state = "active" /\ state' \in {"active", "ending", "requesting"}
     \/ state = "none" /\ state' = "requesting"
  /\ KeepMode
  /\ UNCHANGED ended

AskHost(r) ==
  /\ outcome[r] = "waiting"
  /\ state # "active"
  /\ state' = "requesting"
  /\ KeepMode
  /\ UNCHANGED <<outcome, ended>>

(* The session asked for is the live one already. *)
AlreadyLive(r) ==
  /\ outcome[r] = "idle"
  /\ state = "active" /\ mode = {ModeOf[r]}
  /\ outcome' = [outcome EXCEPT ![r] = "ok"]
  /\ UNCHANGED <<state, mode, ended>>

(* It is turned down before anything happens. *)
Refuse(r) ==
  /\ outcome[r] = "idle"
  /\ outcome' = [outcome EXCEPT ![r] = "failed"]
  /\ UNCHANGED <<state, mode, ended>>

(* A session that goes live answers a request, and has its mode. *)
Grant(r) ==
  /\ outcome[r] = "waiting"
  /\ state = "active" => mode = {}
  /\ state' = "active"
  /\ mode' = {ModeOf[r]}
  /\ outcome' = [outcome EXCEPT ![r] = "ok"]
  /\ UNCHANGED ended

(* Only a request that is not live can give up, and it takes no live       *)
(* session with it.                                                        *)
Fail(r) ==
  /\ outcome[r] = "waiting"
  /\ outcome' = [outcome EXCEPT ![r] = "failed"]
  /\ state' \in {state, "none"} \ {"requesting"}
  /\ state = "active" => state' = "active"
  /\ KeepMode
  /\ UNCHANGED ended

AskEnd(e) ==
  /\ ended[e] = "idle"
  /\ ended' = [ended EXCEPT ![e] = IF state = "none" THEN "done" ELSE "waiting"]
  /\ state' \in {state} \cup (IF state = "active" THEN {"ending"} ELSE {})
  /\ KeepMode
  /\ UNCHANGED outcome

(* The session moves by itself: one that was not asked for is adopted, one *)
(* the host takes away is going or gone, even while it is asked for one.   *)
(* The state may show the host's answer to a request before the request's  *)
(* promise does.                                                           *)
SessionMoves ==
  /\ \/ state' \in SessionState \ {"requesting"}
     \/ state' = "requesting" /\ \A r \in Request : outcome[r] # "waiting"
  /\ KeepMode
  /\ UNCHANGED <<outcome, ended>>

(* end() resolves when there is no session left. *)
Gone ==
  /\ state' = "none"
  /\ ended' = [e \in End |-> IF ended[e] # "idle" THEN "done" ELSE ended[e]]
  /\ KeepMode
  /\ UNCHANGED outcome

(* A host in memory ends at once. *)
EndAtOnce(e) ==
  /\ ended[e] = "idle"
  /\ state' = "none"
  /\ ended' = [ended EXCEPT ![e] = "done"]
  /\ KeepMode
  /\ UNCHANGED outcome

Next ==
  \/ \E r \in Request : \/ Ask(r) \/ AskHost(r) \/ AlreadyLive(r) \/ Refuse(r)
                        \/ Grant(r) \/ Fail(r)
  \/ \E e \in End : AskEnd(e) \/ EndAtOnce(e)
  \/ SessionMoves \/ Gone

Spec == Init /\ [][Next]_vars
=============================================================================
