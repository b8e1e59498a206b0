-------------------------- MODULE RenderLoopBridge --------------------------
(***************************************************************************)
(* The render loop bridges of the three.js and Babylon packages beside the *)
(* runtime adapter of the same package, which drives the same loop from    *)
(* the same host.  A three.js renderer has one animation loop, a Babylon   *)
(* engine a set of callbacks.                                              *)
(***************************************************************************)
EXTENDS RenderLoopBridgeState

CONSTANTS
  Gap,       \* milliseconds between two frames
  MaxClock   \* bound: milliseconds of the page

vars == <<engine, callbacks, bound, clock, drawn, lastTimestamp, ticks>>

Owner == {"bridge", "adapter"}

BridgeTypeOK ==
  /\ engine \in {"three", "babylon"}
  /\ callbacks \subseteq Owner /\ bound \subseteq Owner
  /\ {clock, drawn, lastTimestamp} \subseteq Nat
  /\ ticks \in [sum : Nat, first : Nat]

Init ==
  /\ engine \in {"three", "babylon"}
  /\ callbacks = {} /\ bound = {}
  /\ clock = 1 /\ drawn = 0 /\ lastTimestamp = 0
  /\ ticks = [sum |-> 0, first |-> 0]

(* setAnimationLoop(callback) takes the loop from its owner. *)
Start(o) ==
  /\ o \notin bound
  /\ bound' = bound \cup {o}
  /\ callbacks' = IF engine = "three" THEN {o} ELSE callbacks \cup {o}
  /\ UNCHANGED <<engine, clock, drawn, lastTimestamp, ticks>>

(* setAnimationLoop(null) stops the loop, whoever owns it. *)
Stop(o) ==
  /\ o \in bound
  /\ bound' = bound \ {o}
  /\ callbacks' = IF engine = "three" THEN {} ELSE callbacks \ {o}
  /\ UNCHANGED <<engine, clock, drawn, lastTimestamp, ticks>>

\* Mutant of Delta: every frame is a first frame.
DeltaOfNothing(timestamp) == FirstFrameDelta

Delta(timestamp) == IF lastTimestamp = 0 THEN FirstFrameDelta ELSE timestamp - lastTimestamp

(* The bridge's callback. *)
HostFrame ==
  \E gap \in Gap :
    /\ clock + gap <= MaxClock
    /\ clock' = clock + gap
    /\ IF "bridge" \in callbacks
       THEN /\ ticks' = [sum |-> ticks.sum + Delta(clock'),
                         first |-> IF drawn = 0 THEN clock' ELSE ticks.first]
            /\ drawn' = drawn + 1 /\ lastTimestamp' = clock'
       ELSE UNCHANGED <<drawn, lastTimestamp, ticks>>
    /\ UNCHANGED <<engine, callbacks, bound>>

Next == HostFrame \/ \E o \in Owner : Start(o) \/ Stop(o)

Spec == Init /\ [][Next]_vars

=============================================================================
