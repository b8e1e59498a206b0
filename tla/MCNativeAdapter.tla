-------------------------- MODULE MCNativeAdapter --------------------------
(***************************************************************************)
(* Small configurations of NativeAdapter: requests for two modes, one or   *)
(* two ends, a host of one or two live states.                             *)
(***************************************************************************)
EXTENDS NativeAdapter

TwoRequests == {"r1", "r2"}
ThreeRequests == {"r1", "r2", "r3"}
OneEnd == {"e"}
NoEnd == {}
Modes == {"vr", "ar"}
TwoModeOf == [r \in TwoRequests |-> IF r = "r1" THEN "vr" ELSE "ar"]
ThreeModeOf == [r \in ThreeRequests |-> IF r = "r2" THEN "ar" ELSE "vr"]

PlainStates == {"none", "idle", "ready", "stopping"}
NoOverride == {}
ForcedOn == {TRUE}
EveryKind == {"none", "idle", "exiting", "ready", "focused", "stopping"}
=============================================================================
