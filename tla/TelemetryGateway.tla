-------------------------- MODULE TelemetryGateway --------------------------
(***************************************************************************)
(* The sensor gateway of runtime-examples/telemetry-example: services that *)
(* poll devices over a flaky network on the frames of the page, and the    *)
(* collector that queues the records of both in a ring and writes them in  *)
(* batches.  The records the framework makes of one boot, one disposal or  *)
(* one change of focus are one record; times are counted in frames and in  *)
(* polls.  A record says which device and poll it is about, if any.        *)
(***************************************************************************)
EXTENDS TelemetryGatewayState

CONSTANTS
  Batch,           \* sizes a batch is written at
  FlushInterval,   \* frames between two writes
  PollEvery,       \* frames between two polls
  ReconnectDelay,  \* polls before a lost device is tried again
  WindowSize,      \* samples kept of a device
  SummaryEvery,    \* polls before the ingest service reports
  MaxSeq,          \* bound: records of a session
  MaxPoll          \* bound: polls of a session

ringVars == <<ring, head, tail, size, seq, dropped, written>>
deviceVars == <<connected, retryIn, window, poll>>
settingVars == <<telemetry, calibrated, maxBatch>>
vars == <<gateway, backgrounded, listening, settingVars, ringVars, sinceFlush, waited, deviceVars>>

(* device_disconnected has two reasons: the transport closed, or an         *)
(* operator forced it.                                                      *)
Name == {"initialized", "failed", "disconnected", "forced", "attempt", "connected", "summary",
         "focus", "disposed"}
Record == [seq : 1..MaxSeq, name : Name, device : SUBSET Device, poll : 0..MaxPoll]
NoRecord == [seq |-> 0]

TelemetryTypeOK ==
  /\ gateway \in {"none", "live", "failed"}
  /\ {telemetry, calibrated, backgrounded, listening} \subseteq BOOLEAN /\ maxBatch \in Batch
  /\ ring \in [0..MaxQueue - 1 -> Record \cup {NoRecord}]
  /\ {head, tail} \subseteq 0..MaxQueue - 1 /\ size \in 0..MaxQueue
  /\ seq \in 0..MaxSeq /\ dropped \in 0..MaxSeq /\ written \in Seq(Record)
  /\ sinceFlush \in 0..FlushInterval - 1 /\ waited \in 0..PollEvery - 1 /\ poll \in 0..MaxPoll
  /\ connected \in [Device -> BOOLEAN] /\ retryIn \in [Device -> 0..ReconnectDelay]
  /\ \A d \in Device : window[d] \in Seq({"reading", "gap"}) /\ Len(window[d]) <= WindowSize

-----------------------------------------------------------------------------
Fresh == [ring |-> [i \in 0..MaxQueue - 1 |-> NoRecord], head |-> 0, tail |-> 0, size |-> 0,
          seq |-> 0, dropped |-> 0, written |-> <<>>]
Becomes(c) ==
  /\ ring' = c.ring /\ head' = c.head /\ tail' = c.tail /\ size' = c.size
  /\ seq' = c.seq /\ dropped' = c.dropped /\ written' = c.written

Flush(c) ==
  IF c.size = 0 THEN c
  ELSE [c EXCEPT !.ring = [i \in DOMAIN c.ring |-> NoRecord],
                 !.head = (c.head + c.size) % MaxQueue,
                 !.size = 0,
                 !.written = c.written \o Queued(c)]

\* Mutant of Added: a full ring overwrites its oldest record and keeps its
\* head.
HeadKept(c, record) ==
  LET full == c.size = MaxQueue
  IN  [c EXCEPT !.seq = c.seq + 1,
                !.size = IF full THEN c.size ELSE c.size + 1,
                !.dropped = IF full THEN c.dropped + 1 ELSE c.dropped,
                !.ring = [c.ring EXCEPT ![c.tail] = record],
                !.tail = (c.tail + 1) % MaxQueue]

(* The oldest record makes room for a new one in a full ring. *)
Added(c, record) ==
  LET full == c.size = MaxQueue
  IN  [c EXCEPT !.seq = c.seq + 1,
                !.head = IF full THEN (c.head + 1) % MaxQueue ELSE c.head,
                !.size = IF full THEN c.size ELSE c.size + 1,
                !.dropped = IF full THEN c.dropped + 1 ELSE c.dropped,
                !.ring = [c.ring EXCEPT ![c.tail] = record],
                !.tail = (c.tail + 1) % MaxQueue]

(* log: a batch that is whole is written. *)
Log(c, name, device, at) ==
  LET added == Added(c, [seq |-> c.seq + 1, name |-> name, device |-> device, poll |-> at])
  IN  IF ~telemetry THEN c ELSE IF added.size >= maxBatch THEN Flush(added) ELSE added

(* A focus or pause change is logged, and then flushed by the listener. *)
FlushIfBound(c) == IF listening THEN Flush(c) ELSE c

-----------------------------------------------------------------------------
(* boot: everything is new; the profile starts the gateway before the       *)
(* calibration, so the devices are there when the calibration fails.        *)
Boot ==
  /\ \E settings \in BOOLEAN \X BOOLEAN : telemetry' = settings[1] /\ calibrated' = settings[2]
  /\ UNCHANGED maxBatch
  /\ backgrounded' = FALSE
  /\ listening' = telemetry'
  /\ gateway' = IF calibrated' THEN "live" ELSE "failed"
  /\ LET record == [seq |-> 1, name |-> IF calibrated' THEN "initialized" ELSE "failed", device |-> {}, poll |-> 0]
     IN  Becomes(IF telemetry' THEN Added(Fresh, record) ELSE Fresh)
  /\ sinceFlush' \in {0, FlushInterval - 1}
  /\ waited' = 0 /\ poll' = 0
  /\ connected' = [d \in Device |-> TRUE] /\ retryIn' = [d \in Device |-> 0]
  /\ window' = [d \in Device |-> <<>>]

Init ==
  /\ gateway = "none" /\ telemetry = TRUE /\ calibrated = TRUE
  /\ backgrounded = FALSE /\ listening = FALSE /\ maxBatch \in Batch
  /\ ring = Fresh.ring /\ written = <<>>
  /\ head = 0 /\ tail = 0 /\ size = 0 /\ seq = 0 /\ dropped = 0
  /\ sinceFlush = 0 /\ waited = 0 /\ poll = 0
  /\ connected = [d \in Device |-> TRUE] /\ retryIn = [d \in Device |-> 0]
  /\ window = [d \in Device |-> <<>>]

(* The collector is unbound before the manager is disposed of. *)
Shutdown ==
  /\ gateway # "none" /\ seq < MaxSeq
  /\ gateway' = "none" /\ listening' = FALSE
  /\ Becomes(Log(Collector, "disposed", {}, 0))
  /\ UNCHANGED <<backgrounded, settingVars, sinceFlush, waited, deviceVars>>

(* update: what the network does to each device decides its poll.  A lost   *)
(* device is tried when its turn comes, and may stay away.                  *)
Tried(d) == ~connected[d] /\ retryIn[d] <= 1

\* Mutant of Told: a device that was reported as disconnected is not reported
\* again.
ReportedOnce(c, d, fine) ==
  CASE connected[d] /\ ~fine -> IF \E i \in DOMAIN Records : Disconnects(Records[i], d) THEN c
                                ELSE Log(c, "disconnected", {d}, poll + 1)
    [] Tried(d) /\ fine -> Log(Log(c, "attempt", {d}, poll + 1), "connected", {d}, poll + 1)
    [] Tried(d) /\ ~fine -> Log(c, "attempt", {d}, poll + 1)
    [] OTHER -> c

(* The collector after one device was polled. *)
Told(c, d, fine) ==
  CASE connected[d] /\ ~fine -> Log(c, "disconnected", {d}, poll + 1)
    [] Tried(d) /\ fine -> Log(Log(c, "attempt", {d}, poll + 1), "connected", {d}, poll + 1)
    [] Tried(d) /\ ~fine -> Log(c, "attempt", {d}, poll + 1)
    [] OTHER -> c

(* The collector after the devices were polled in their order. *)
Polled(fine) ==
  LET after[n \in 0..Len(DeviceOrder)] ==
        IF n = 0 THEN Collector ELSE Told(after[n - 1], DeviceOrder[n], fine[DeviceOrder[n]])
  IN  after[Len(DeviceOrder)]

Sample(d, fine) == IF connected[d] /\ fine THEN "reading" ELSE "gap"
Kept(samples) == IF Len(samples) > WindowSize THEN Tail(samples) ELSE samples

Poll(fine) ==
  /\ poll' = poll + 1
  /\ connected' = [d \in Device |-> fine[d] /\ (connected[d] \/ Tried(d))]
  /\ retryIn' = [d \in Device |-> IF connected'[d] THEN 0
                                 ELSE IF connected[d] \/ Tried(d) THEN ReconnectDelay ELSE retryIn[d] - 1]
  /\ window' = [d \in Device |-> Kept(Append(window[d], Sample(d, fine[d])))]

(* lateUpdate: what the gateway did, and every so many polls a summary. *)
Reported(fine) ==
  IF poll' % SummaryEvery = 0 THEN Log(Polled(fine), "summary", {}, poll') ELSE Polled(fine)

(* A frame of a page in front: tick, then lateTick, on which the collector   *)
(* writes when its interval has passed.  The gateway of a boot that failed  *)
(* is driven too: its manager is there.                                     *)
Frame ==
  /\ gateway # "none" /\ ~backgrounded /\ seq + 2 * Len(DeviceOrder) < MaxSeq /\ poll < MaxPoll
  /\ waited' = (waited + 1) % PollEvery
  /\ sinceFlush' = IF sinceFlush + 1 >= FlushInterval THEN 0 ELSE sinceFlush + 1
  /\ \E fine \in [Device -> BOOLEAN] :
       /\ waited' = 0 \/ \A d \in Device : fine[d]
       /\ IF waited' = 0 THEN Poll(fine) ELSE UNCHANGED deviceVars
       /\ LET c == IF waited' = 0 THEN Reported(fine) ELSE Collector
          IN  Becomes(IF listening /\ sinceFlush' = 0 THEN Flush(c) ELSE c)
  /\ UNCHANGED <<gateway, backgrounded, listening, settingVars>>

(* forceDrop: the first device that is connected. *)
ForceDrop ==
  /\ gateway = "live" /\ seq < MaxSeq
  /\ \E i \in DOMAIN DeviceOrder :
       LET d == DeviceOrder[i]
       IN  /\ connected[d] /\ \A j \in 1..i - 1 : ~connected[DeviceOrder[j]]
           /\ connected' = [connected EXCEPT ![d] = FALSE]
           /\ retryIn' = [retryIn EXCEPT ![d] = ReconnectDelay]
           /\ Becomes(Log(Collector, "forced", {d}, poll))
  /\ UNCHANGED <<gateway, backgrounded, listening, settingVars, sinceFlush, waited, poll, window>>

Background ==
  /\ gateway # "none" /\ ~backgrounded /\ seq < MaxSeq
  /\ backgrounded' = TRUE
  /\ Becomes(FlushIfBound(Log(Collector, "focus", {}, 0)))
  /\ UNCHANGED <<gateway, listening, settingVars, sinceFlush, waited, deviceVars>>

(* The interval of the collector has gone on. *)
Foreground ==
  /\ gateway # "none" /\ backgrounded /\ seq < MaxSeq
  /\ backgrounded' = FALSE
  /\ sinceFlush' \in sinceFlush..FlushInterval - 1
  /\ Becomes(Log(Collector, "focus", {}, 0))
  /\ UNCHANGED <<gateway, listening, settingVars, waited, deviceVars>>

Next ==
  \/ Boot \/ Shutdown \/ Frame \/ ForceDrop \/ Background \/ Foreground

Spec == Init /\ [][Next]_vars

=============================================================================
