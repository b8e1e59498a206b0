------------------------ MODULE TelemetryGatewayState ------------------------
(***************************************************************************)
(* The sensor gateway and the collector of its records, and what the sink  *)
(* can be told from.                                                       *)
(***************************************************************************)
EXTENDS Integers, Sequences

CONSTANTS
  DeviceOrder,     \* the devices, in the order they are polled
  MaxQueue         \* capacity of the ring

Device == {DeviceOrder[i] : i \in DOMAIN DeviceOrder}

ASSUME DevicesInOrder ==
  /\ DeviceOrder \in Seq(Device)
  /\ \A i, j \in DOMAIN DeviceOrder : DeviceOrder[i] = DeviceOrder[j] => i = j
ASSUME QueueHasRoom == MaxQueue \in Nat \ {0}

VARIABLES
  gateway,       \* the manager: "none", "live", or "failed" when a service did not start
  telemetry,     \* the collector is given to the manager
  calibrated,    \* the deployment has its calibration profile
  backgrounded,
  listening,     \* the collector listens to the scheduler
  maxBatch,
  ring, head, tail, size, seq, dropped,
  written,       \* what the sinks were handed
  sinceFlush,    \* frames since the last write the interval made
  waited,        \* frames since the last poll
  poll,          \* the polls so far
  connected, retryIn,   \* of each device; polls until the next attempt
  window         \* of each device: its last samples

(* The collector, as a value: log and flush are called several times in one *)
(* frame.                                                                   *)
Collector == [ring |-> ring, head |-> head, tail |-> tail, size |-> size, seq |-> seq,
              dropped |-> dropped, written |-> written]

(* The records of the ring, oldest first. *)
Queued(c) == [i \in 1..c.size |-> c.ring[(c.head + i - 1) % MaxQueue]]

(* Every record is in the sink, in the ring or counted as dropped, and the  *)
(* ring holds the newest: a gap in the sequence of the sink is proof of     *)
(* exactly the records that were dropped (log, flush).                      *)
RecordsAreAccountedFor ==
  /\ Len(written) + size + dropped = seq
  /\ \A i \in 1..size : Queued(Collector)[i].seq = seq - size + i
  /\ \A i, j \in DOMAIN written : i < j => written[i].seq < written[j].seq
  /\ written # <<>> /\ size > 0 => written[Len(written)].seq <= seq - size

(* What the records tell of a device, by the polls in their payloads.  An   *)
(* operator drops it after a poll, so the next one is its first without it. *)
Records == written \o Queued(Collector)
Disconnects(r, d) == r.device = {d} /\ r.name \in {"disconnected", "forced"}
Reconnects(r, d) == r.device = {d} /\ r.name = "connected"
FirstMissed(r) == IF r.name = "forced" THEN r.poll + 1 ELSE r.poll

(* A disconnection before the end of the p-th poll, and no connection       *)
(* between the two.                                                         *)
RecordedAway(d, p) ==
  LET kept == Records
  IN  \E k \in DOMAIN kept :
        /\ Disconnects(kept[k], d) /\ FirstMissed(kept[k]) <= p
        /\ \A j \in DOMAIN kept : j > k /\ Reconnects(kept[j], d) => kept[j].poll >= p

(* Unless records were dropped, a sample is a gap just when the records     *)
(* have the device away at its poll: each run of gaps has a disconnection   *)
(* of its own, after the connection that ended the run before, and no       *)
(* record says of a poll that was read that the device was away.  Nothing   *)
(* else makes a gap: a host that stops ticking takes no samples, and those  *)
(* before and after it are next to each other (update, forceDrop).          *)
GapsAreExplained ==
  telemetry /\ dropped = 0 =>
    \A d \in Device : \A i \in DOMAIN window[d] :
      window[d][i] = "gap" <=> RecordedAway(d, poll - Len(window[d]) + i)
=============================================================================
