------------------------- MODULE WeatherClientState -------------------------
(***************************************************************************)
(* What the screen of the weather client shows, and what becomes of it     *)
(* when the framework is disposed of.                                      *)
(***************************************************************************)
VARIABLES
  status,      \* of the screen
  weather,     \* shown: the request it came from, 0 when there is none
  error,       \* shown
  step,        \* of the request in flight: "none", "position", "fetch", "body"
  request,     \* its number
  aborted      \* the service's abort signal: the framework was disposed of

weatherVars == <<status, weather, error, step, request, aborted>>

(* A service that was disposed of brings no weather to the screen, wherever *)
(* the request was (the abort signal of getCurrentWeather).                 *)
NothingAfterDispose == [][aborted => weather' \in {0, weather}]_weatherVars
=============================================================================
