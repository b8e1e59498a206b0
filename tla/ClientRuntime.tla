---------------------------- MODULE ClientRuntime ----------------------------
(***************************************************************************)
(* The chat client: the services of packages/service-framework-client and  *)
(* the React page of runtime-examples/client-runtime-app-example over      *)
(* them.  A send and a location request are async functions that may       *)
(* overlap, since neither button is disabled while one is in flight.  What *)
(* a settled promise resumes (Jobs) runs before the next task.             *)
(***************************************************************************)
EXTENDS ClientRuntimeState

CONSTANTS
  Locate,    \* requests for the browser's location
  MaxFrame   \* bound: frames drawn

serviceVars == <<backend, conversation, messages, experience, phase, via>>
pageVars == <<page, strict, disposed, looping>>
formVars == <<text, complaint>>
geoVars == <<located, geo, locating>>
vars == <<pageVars, frames, modules, serviceVars, formVars, geoVars>>

Kind == {"mock", "rest"}
Connection == {"idle", "sending", "ready", "error"}

ClientTypeOK ==
  /\ page \in {"new", "up", "down", "left"} /\ {strict, disposed, looping, located} \subseteq BOOLEAN
  /\ frames \in 0..MaxFrame
  /\ modules \in Seq(Kind)
  /\ backend \in [preferred : Kind, active : SUBSET Kind, state : Connection, lastError : BOOLEAN]
  /\ conversation \in [status : Connection, lastError : BOOLEAN]
  /\ messages \in Seq([role : {"user", "assistant"}, of : Send])
  /\ experience \in [widget : {"closed", "open", "minimized"}, connection : Connection, lastError : BOOLEAN]
  /\ phase \in [Send -> {"idle", "sending", "ok", "failed"} \cup Jobs]
  /\ via \in [Send -> Kind]
  /\ text \subseteq Send /\ complaint \in BOOLEAN
  /\ geo \in [state : {"idle", "requesting", "ready", "error"}, error : BOOLEAN]
  /\ locating \subseteq Locate

Quiet == \A s \in Send : phase[s] \notin Jobs
CanClick == page = "up" /\ Quiet

(* BaseFrameworkClientRuntime: the mock adapter may be left out, and the    *)
(* REST one needs an endpoint.                                              *)
Init ==
  /\ page = "new" /\ strict \in BOOLEAN /\ disposed = FALSE /\ looping = FALSE /\ frames = 0
  /\ modules \in {<<>>, <<"mock">>, <<"mock", "rest">>}
  /\ backend \in [preferred : Kind, active : {{}}, state : {"idle"}, lastError : {FALSE}]
  /\ conversation = [status |-> "idle", lastError |-> FALSE]
  /\ messages = <<>>
  /\ experience = [widget |-> "open", connection |-> "idle", lastError |-> FALSE]
  /\ located = FALSE
  /\ phase = [s \in Send |-> "idle"] /\ via = [s \in Send |-> "mock"]
  /\ text = {} /\ complaint = FALSE
  /\ geo = [state |-> "idle", error |-> FALSE] /\ locating = {}

-----------------------------------------------------------------------------
(* The services *)

SetConnectionState(next, error) ==
  experience' = [experience EXCEPT !.connection = next, !.lastError = error]

(* The preferred module, or else the first. *)
ResolveModule ==
  IF \E i \in DOMAIN modules : modules[i] = backend.preferred THEN backend.preferred ELSE modules[1]

(* sendUserMessage, and sendMessage up to its await: without a module, as   *)
(* after disposal, it throws and its own state is not touched.              *)
SendUserMessage(s) ==
  /\ messages' = Append(messages, [role |-> "user", of |-> s])
  /\ conversation' = [status |-> "sending", lastError |-> FALSE]
  /\ experience' = [widget |-> "open", connection |-> "sending", lastError |-> FALSE]
  /\ IF modules = <<>> \/ disposed
     THEN phase' = [phase EXCEPT ![s] = "refused"] /\ UNCHANGED <<backend, via>>
     ELSE /\ phase' = [phase EXCEPT ![s] = "sending"]
          /\ via' = [via EXCEPT ![s] = ResolveModule]
          /\ backend' = [backend EXCEPT !.active = {ResolveModule}, !.state = "sending"]

(* The module's promise: a reply, or one of the errors send() throws. *)
ModuleAnswers(s) ==
  /\ Quiet /\ phase[s] = "sending"
  /\ backend' = [backend EXCEPT !.active = {via[s]}, !.state = "ready", !.lastError = FALSE]
  /\ phase' = [phase EXCEPT ![s] = "answered"]
  /\ UNCHANGED <<pageVars, frames, modules, conversation, messages, experience, via, formVars, geoVars>>

ModuleFails(s) ==
  /\ Quiet /\ phase[s] = "sending"
  /\ backend' = [backend EXCEPT !.state = "error", !.lastError = TRUE]
  /\ phase' = [phase EXCEPT ![s] = "refused"]
  /\ UNCHANGED <<pageVars, frames, modules, conversation, messages, experience, via, formVars, geoVars>>

(* A page whose services are gone throws when it renders. *)
Render == page' = IF page = "up" /\ disposed THEN "down" ELSE page

\* Mutant of SendSucceeds: the answer is put behind the messages of the time
\* of the send.
AnswerOverStale(s) ==
  /\ phase[s] = "answered"
  /\ phase' = [phase EXCEPT ![s] = "ok"]
  /\ LET asked == CHOOSE i \in DOMAIN messages : messages[i] = [role |-> "user", of |-> s]
     IN  messages' = Append(SubSeq(messages, 1, asked), [role |-> "assistant", of |-> s])
  /\ conversation' = [status |-> "ready", lastError |-> FALSE]
  /\ SetConnectionState("ready", FALSE)
  /\ text' = {}
  /\ Render
  /\ UNCHANGED <<strict, disposed, looping, frames, modules, backend, via, complaint, geoVars>>

(* The composer is emptied, whatever was typed in it since. *)
SendSucceeds(s) ==
  /\ phase[s] = "answered"
  /\ phase' = [phase EXCEPT ![s] = "ok"]
  /\ messages' = Append(messages, [role |-> "assistant", of |-> s])
  /\ conversation' = [status |-> "ready", lastError |-> FALSE]
  /\ SetConnectionState("ready", FALSE)
  /\ text' = {}
  /\ Render
  /\ UNCHANGED <<strict, disposed, looping, frames, modules, backend, via, complaint, geoVars>>

\* Mutant of SendFails: the widget is told of no error.
FailsQuietly(s) ==
  /\ phase[s] = "refused"
  /\ phase' = [phase EXCEPT ![s] = "failed"]
  /\ conversation' = [status |-> "error", lastError |-> TRUE]
  /\ complaint' = TRUE
  /\ Render
  /\ UNCHANGED <<strict, disposed, looping, frames, modules, backend, via, messages, experience, text, geoVars>>

SendFails(s) ==
  /\ phase[s] = "refused"
  /\ phase' = [phase EXCEPT ![s] = "failed"]
  /\ conversation' = [status |-> "error", lastError |-> TRUE]
  /\ SetConnectionState("error", TRUE)
  /\ complaint' = TRUE
  /\ Render
  /\ UNCHANGED <<strict, disposed, looping, frames, modules, backend, via, messages, text, geoVars>>

-----------------------------------------------------------------------------
(* The page *)

(* The viewport binds the loop.  In development the cleanups then run,      *)
(* which dispose the runtime, and the effects again, over the same runtime. *)
Mount ==
  /\ page = "new"
  /\ page' = "up" /\ looping' = TRUE /\ disposed' = strict
  /\ UNCHANGED <<strict, frames, modules, serviceVars, formVars, geoVars>>

Unmount ==
  /\ CanClick
  /\ page' = "left" /\ looping' = FALSE /\ disposed' = TRUE
  /\ UNCHANGED <<strict, frames, modules, serviceVars, formVars, geoVars>>

Type(s) ==
  /\ CanClick
  /\ phase[s] = "idle" /\ text # {s}
  /\ text' = {s}
  /\ Render
  /\ UNCHANGED <<strict, disposed, looping, frames, modules, serviceVars, complaint, geoVars>>

(* The text stays in the composer until the answer comes. *)
HandleSubmit ==
  /\ CanClick
  /\ \/ text = {} /\ complaint' = TRUE /\ UNCHANGED serviceVars
     \/ \E s \in text : phase[s] = "idle" /\ complaint' = FALSE /\ SendUserMessage(s)
  /\ Render
  /\ UNCHANGED <<strict, disposed, looping, frames, modules, text, geoVars>>

SetWidgetState(widget) ==
  /\ CanClick
  /\ experience' = [experience EXCEPT !.widget = widget]
  /\ Render
  /\ UNCHANGED <<strict, disposed, looping, frames, modules, backend, conversation, messages, phase, via, formVars, geoVars>>

SetPreferredAdapter(kind) ==
  /\ CanClick
  /\ backend' = [backend EXCEPT !.preferred = kind]
  /\ Render
  /\ UNCHANGED <<strict, disposed, looping, frames, modules, conversation, messages, experience, phase, via, formVars, geoVars>>

UseBrowserLocation(l) ==
  /\ CanClick
  /\ l \notin locating
  /\ locating' = locating \cup {l}
  /\ geo' = [state |-> "requesting", error |-> FALSE]
  /\ Render
  /\ UNCHANGED <<strict, disposed, looping, frames, modules, serviceVars, formVars, located>>

(* The error of a request that failed meanwhile stays on the panel. *)
Located(l) ==
  /\ Quiet /\ l \in locating
  /\ locating' = locating \ {l}
  /\ located' = TRUE
  /\ geo' = [geo EXCEPT !.state = "ready"]
  /\ Render
  /\ UNCHANGED <<strict, disposed, looping, frames, modules, serviceVars, formVars>>

LocationFails(l) ==
  /\ Quiet /\ l \in locating
  /\ locating' = locating \ {l}
  /\ geo' = [state |-> "error", error |-> TRUE]
  /\ Render
  /\ UNCHANGED <<strict, disposed, looping, frames, modules, serviceVars, formVars, located>>

(* Bound: MaxFrame. *)
Frame ==
  /\ Quiet /\ looping /\ ~disposed /\ frames < MaxFrame
  /\ frames' = frames + 1
  /\ UNCHANGED <<pageVars, modules, serviceVars, formVars, geoVars>>

Continues == \E s \in Send : SendSucceeds(s) \/ SendFails(s)
Answers == \E s \in Send : ModuleAnswers(s) \/ ModuleFails(s)

Next ==
  \/ Continues \/ Answers
  \/ Mount \/ Unmount \/ HandleSubmit \/ Frame
  \/ \E s \in Send : Type(s)
  \/ \E widget \in {"closed", "open", "minimized"} : SetWidgetState(widget)
  \/ \E kind \in Kind : SetPreferredAdapter(kind)
  \/ \E l \in Locate : UseBrowserLocation(l) \/ Located(l) \/ LocationFails(l)

Spec == Init /\ [][Next]_vars

=============================================================================
