---------------------------- MODULE WeatherClient ----------------------------
(***************************************************************************)
(* The weather client: a screen that asks a service for the weather, which *)
(* asks the browser for its position and then a weather API.  The fetch is *)
(* given the service's abort signal, the position is not.                  *)
(***************************************************************************)
EXTENDS Naturals, WeatherClientState

CONSTANTS MaxRequest   \* bound: requests of a session

vars == weatherVars

WeatherTypeOK ==
  /\ status \in {"idle", "loading", "ready", "error"} /\ step \in {"none", "position", "fetch", "body"}
  /\ {weather, request} \subseteq 0..MaxRequest
  /\ {error, aborted} \subseteq BOOLEAN

Init ==
  /\ status = "idle" /\ weather = 0 /\ error = FALSE
  /\ step = "none" /\ request = 0 /\ aborted = FALSE

(* loadWeather: the button is disabled while a request is in flight. *)
LoadWeather ==
  /\ status # "loading" /\ request < MaxRequest
  /\ status' = "loading" /\ error' = FALSE
  /\ step' = "position" /\ request' = request + 1
  /\ UNCHANGED <<weather, aborted>>

Fails == status' = "error" /\ error' = TRUE /\ weather' = 0 /\ step' = "none" /\ UNCHANGED <<request, aborted>>

(* getCurrentPosition, or a browser without it; fetch with an aborted signal *)
(* rejects.                                                                 *)
PositionKnown ==
  /\ step = "position"
  /\ IF aborted THEN Fails
     ELSE step' = "fetch" /\ UNCHANGED <<status, weather, error, request, aborted>>

PositionDenied == step = "position" /\ Fails

(* The response, and then its body. *)
Responds ==
  /\ step = "fetch"
  /\ step' = "body"
  /\ UNCHANGED <<status, weather, error, request, aborted>>

(* A status that is not ok, a network error, a body without the conditions. *)
ResponseFails == step \in {"fetch", "body"} /\ Fails

Succeeds ==
  /\ step = "body"
  /\ status' = "ready" /\ weather' = request /\ step' = "none"
  /\ UNCHANGED <<error, request, aborted>>

\* Mutant of Dispose: the signal of the fetch is not the service's.
DisposeUnheard == ~aborted /\ aborted' = TRUE /\ UNCHANGED <<status, weather, error, step, request>>

(* The framework is disposed of: a fetch in flight, or its body, rejects. *)
Dispose ==
  /\ ~aborted
  /\ aborted' = TRUE
  /\ IF step \in {"fetch", "body"}
     THEN status' = "error" /\ error' = TRUE /\ weather' = 0 /\ step' = "none" /\ UNCHANGED request
     ELSE UNCHANGED <<status, weather, error, step, request>>

Next ==
  \/ LoadWeather \/ PositionKnown \/ PositionDenied
  \/ Responds \/ ResponseFails \/ Succeeds \/ Dispose

Spec == Init /\ [][Next]_vars

=============================================================================
