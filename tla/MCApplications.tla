--------------------------- MODULE MCApplications ---------------------------
(***************************************************************************)
(* The applications, what tells their listeners, the bridge they draw with *)
(* and the scripts that release them, one of them at a time: the state of  *)
(* the others stays at one initial state.                                  *)
(***************************************************************************)
EXTENDS MCScripts, PublicationState, ClientRuntimeState, WeatherClientState,
        RenderLoopBridgeState, TelemetryGatewayState

VARIABLE which   \* the application

Devices == <<"d1", "d2">>

clientVars == <<page, strict, disposed, looping, frames, modules, backend, conversation, messages,
                experience, located, phase, via, text, complaint, geo, locating>>
telemetryVars == <<gateway, telemetry, calibrated, backgrounded, listening, maxBatch, ring, head, tail,
                   size, seq, dropped, written, sinceFlush, waited, poll, connected, retryIn, window>>
loopVars == <<engine, callbacks, bound, clock, drawn, lastTimestamp, ticks>>
tellerVars == <<service, place, current, stack, told, threw>>
applicationVars == <<clientVars, telemetryVars, weatherVars, loopVars, tellerVars>>
vars == <<which, applicationVars, scriptVars>>

Client == INSTANCE ClientRuntime WITH Locate <- {"l1", "l2"}, MaxFrame <- 1
Telemetry == INSTANCE TelemetryGateway WITH
  Batch <- {2, 4}, FlushInterval <- 3, PollEvery <- 2,
  ReconnectDelay <- 2, WindowSize <- 3, SummaryEvery <- 2, MaxSeq <- 11, MaxPoll <- 6
Weather == INSTANCE WeatherClient WITH MaxRequest <- 3
Loop == INSTANCE RenderLoopBridge WITH Gap <- {1, 5}, MaxClock <- 20

Tellers == INSTANCE Publication WITH MaxTold <- 3, MaxPlace <- 3, MaxDepth <- 1

Init ==
  /\ which \in {"client", "telemetry", "weather", "loop", "tellers", "prepare", "smoke", "pack", "surface"}
  /\ Client!Init /\ (which # "client" => ~strict /\ modules = <<>> /\ backend.preferred = "mock")
  /\ Telemetry!Init /\ (which # "telemetry" => maxBatch = 2)
  /\ Weather!Init
  /\ Loop!Init /\ (which # "loop" => engine = "three")
  /\ Tellers!Init /\ (which # "tellers" => service = "events")
  /\ ScriptsInit(which)

ApplicationsNext ==
  \/ which = "client" /\ Client!Next /\ UNCHANGED <<telemetryVars, weatherVars, loopVars, tellerVars>>
  \/ which = "telemetry" /\ Telemetry!Next /\ UNCHANGED <<clientVars, weatherVars, loopVars, tellerVars>>
  \/ which = "weather" /\ Weather!Next /\ UNCHANGED <<clientVars, telemetryVars, loopVars, tellerVars>>
  \/ which = "loop" /\ Loop!Next /\ UNCHANGED <<clientVars, telemetryVars, weatherVars, tellerVars>>
  \/ which = "tellers" /\ Tellers!Next /\ UNCHANGED <<clientVars, telemetryVars, weatherVars, loopVars>>

Next ==
  /\ UNCHANGED which
  /\ \/ ApplicationsNext /\ UNCHANGED scriptVars
     \/ ScriptsNext(which) /\ UNCHANGED applicationVars

Spec == Init /\ [][Next]_vars
=============================================================================
