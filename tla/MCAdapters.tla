----------------------------- MODULE MCAdapters -----------------------------
(***************************************************************************)
(* The four adapters over one state, one of them at a time: two requests   *)
(* for two modes and one end.                                              *)
(***************************************************************************)
EXTENDS AdapterState

VARIABLES
  which,            \* the adapter
  xrState,          \* BabylonAdapter's
  pendingRequest, requestedMode   \* MockAdapter's

Three == INSTANCE WebXRAdapter
Babylon == INSTANCE BabylonAdapter
IWSDK == INSTANCE IWSDKAdapter
Mock == INSTANCE MockAdapter

Requests == {"r1", "r2"}
Ends == {"e"}
Modes == {"vr", "ar"}
ModeTable == [r \in Requests |-> IF r = "r1" THEN "vr" ELSE "ar"]
ForcedOn == {TRUE}

ownVars == <<which, xrState, pendingRequest, requestedMode>>
allVars == <<vars, ownVars>>

NoMock == pendingRequest = None /\ requestedMode = None

Init ==
  \/ which = "three" /\ Three!Init /\ "exit" \notin offers /\ xrState = "out" /\ NoMock
  \/ which = "babylon" /\ Babylon!Init /\ "exit" \notin offers /\ NoMock
  \/ which = "iwsdk" /\ IWSDK!Init /\ xrState = "out" /\ NoMock
  \/ which = "mock" /\ Mock!Init /\ xrState = "out"

(* Bound: a page with a frame loop asks for one session and forces no       *)
(* capability, and only there does the visibility change.                   *)
Bound ==
  IF "frames" \in offers
  THEN overrides' = {} /\ outcome'["r2"] = "idle"
  ELSE visible' = TRUE /\ ~looping' /\ focused' = {}

Step ==
  \/ which = "three" /\ Three!Next /\ UNCHANGED ownVars
  \/ which = "babylon" /\ Babylon!Next /\ UNCHANGED <<which, pendingRequest, requestedMode>>
  \/ which = "iwsdk" /\ IWSDK!Next /\ UNCHANGED ownVars
  \/ which = "mock" /\ Mock!Next /\ UNCHANGED <<which, xrState>>

Next == Step /\ Bound

Spec == Init /\ [][Next]_allVars

(* The timers of the engine run out, its promises settle, and what is due  *)
(* runs.                                                                   *)
Due == \/ which = "three" /\ (Three!Continues \/ Three!Settles) /\ UNCHANGED ownVars
       \/ which = "iwsdk" /\ IWSDK!Continues /\ UNCHANGED ownVars
TimesOut == \/ which = "three" /\ Three!TimesOut /\ UNCHANGED ownVars
            \/ which = "iwsdk" /\ IWSDK!TimesOut /\ UNCHANGED ownVars
            \/ which = "mock" /\ Mock!TimesOut /\ UNCHANGED <<which, xrState>>
FairSpec == Spec /\ WF_allVars(Due) /\ WF_allVars(TimesOut)

-----------------------------------------------------------------------------
(* end() cannot be forgotten: a call that waits for the end of a session is *)
(* settled when the host's own promise is, and every waiter is one of a     *)
(* call still in flight (endSession's fallback and handleSessionEnd in the  *)
(* three.js adapter, settleWait in IWSDK's).                                *)
EndsAreSettled ==
  which \in {"three", "iwsdk"} =>
    /\ \A c \in Call : phase[c] # "unsettled"
    /\ \A c \in waiters : phase[c] = "ending"

(* The service manager of a page is paused only by a session the adapter is *)
(* still bound to: back in 2D the page runs again (handleSessionEnd).       *)
PausedBySession ==
  which \in {"three", "babylon"} /\ paused => focused = {FALSE} /\ (disposed \/ bound # None)

(* A promise that was given is settled, by the host or by the timer,        *)
(* whatever else is asked of the adapter meanwhile (requestSession's race,  *)
(* waitFor's timer; the three.js, IWSDK and mock adapters).                 *)
CallsAreAnswered ==
  ~calm /\ which # "babylon"
    => /\ \A r \in Request : outcome[r] = "waiting" ~> outcome[r] # "waiting"
       /\ \A e \in End : ended[e] = "waiting" ~> ended[e] = "done"

(* The fallback of endSession settles end() on an experience that raises no *)
(* signals.                                                                 *)
EndFallbackSettles == \A c \in Call : phase[c] # "unsettled"
=============================================================================
