----------------------------- MODULE MCScheduler -----------------------------
(***************************************************************************)
(* Small configurations of Scheduler: two handlers of one timed channel    *)
(* and one each of startup, renderTick and dispose.                        *)
(***************************************************************************)
EXTENDS Scheduler

Handlers == {"tick1", "tick2", "start", "render", "dispose"}
ChannelTable ==
  [h \in Handlers |-> CASE h \in {"tick1", "tick2"} -> "tick"
                       [] h = "start" -> "startup"
                       [] h = "render" -> "renderTick"
                       [] h = "dispose" -> "dispose"]

Channels == {"startup", "tick", "renderTick", "pauseChange", "dispose"}
AnyChannel == Channel
NoChannel == {}

\* Every handler may do anything.
Anything == Channel \X Operation
\* A renderTick handler restarts the scheduler.
Restarts == {"renderTick"} \X {"start", "stop"}
=============================================================================
