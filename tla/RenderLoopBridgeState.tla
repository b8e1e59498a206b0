------------------------ MODULE RenderLoopBridgeState -----------------------
(***************************************************************************)
(* A render loop bridge, the host it draws on, and the time it gives an    *)
(* application.                                                            *)
(***************************************************************************)
EXTENDS Integers

VARIABLES
  engine,          \* "three" or "babylon"
  callbacks,       \* what the host calls on a frame
  bound,           \* the owners that believe they are called
  clock,           \* the host's
  drawn, lastTimestamp,   \* frames and time of the bridge
  ticks            \* of the bridge: the sum of their deltas and the first timestamp

FirstFrameDelta == 16

(* The time an application is given adds up to the time that passed, over   *)
(* stops, starts and frames another owner took (the delta of each frame).   *)
DeltasAddUp ==
  drawn > 0 => ticks.sum = FirstFrameDelta + lastTimestamp - ticks.first
=============================================================================
