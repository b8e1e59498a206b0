------------------------- MODULE ClientRuntimeState -------------------------
(***************************************************************************)
(* The services and the page of the chat client, and what they say once    *)
(* overlapping sends have settled.                                         *)
(***************************************************************************)
EXTENDS Naturals, Sequences

CONSTANT Send   \* messages a user sends, each once

VARIABLES
  page,          \* "new", "up", "down" after a render that threw, "left"
  strict,        \* development: React runs the effects of a new page twice
  disposed,      \* the runtime, its manager and its services
  looping,       \* the render loop bridge is bound
  frames,        \* RenderStateService's
  modules,       \* backend adapters registered, in order of priority
  backend,       \* BackendAdapterService's snapshot
  conversation,  \* ConversationService's status
  messages,      \* and messages
  experience,    \* ExperienceStateService's snapshot
  located,       \* ContentContextService has a location
  phase,         \* of each send
  via,           \* the module of each send
  text,          \* in the composer: a set, {} when it is empty
  complaint,     \* under the composer
  geo,           \* of the panel: a state and whether an error is shown
  locating       \* the location requests in flight

Jobs == {"answered", "refused"}
InFlight == {s \in Send : phase[s] \in {"sending"} \cup Jobs}

(* Overlapping sends take nothing from each other: every question asked and *)
(* every answer that came stay in the conversation, in that order           *)
(* (sendUserMessage rebuilds the messages after its await).                 *)
ConversationIsWhole ==
  \A s \in Send : phase[s] # "idle" =>
    \E i \in DOMAIN messages :
      /\ messages[i] = [role |-> "user", of |-> s]
      /\ phase[s] = "ok" =>
           \E j \in DOMAIN messages : j > i /\ messages[j] = [role |-> "assistant", of |-> s]

(* When the last of the overlapping sends has settled, the three services   *)
(* that report on the connection say the same of it.                        *)
StatusesAgree ==
  InFlight = {} /\ messages # <<>> =>
    /\ experience.connection = conversation.status
    /\ modules # <<>> /\ ~disposed => backend.state = conversation.status
=============================================================================
