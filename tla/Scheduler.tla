------------------------------ MODULE Scheduler ------------------------------
(***************************************************************************)
(* The scheduler of the core package                                       *)
(* (packages/service-framework/src/scheduler.ts): ManualScheduler's        *)
(* channels, and TimerScheduler, which drives them from intervals and      *)
(* animation frames.                                                       *)
(*                                                                         *)
(* Handlers are called in the middle of emit(), and emit() in the middle   *)
(* of start(), of a frame and of dispose().  `stack' holds what is in      *)
(* progress, innermost last: a "user" entry is a handler that runs, "emit" *)
(* the rest of an emission, "arm" the rest of start(), "requeue" the rest  *)
(* of an animation frame, "clear" the rest of dispose().  An exception     *)
(* drops everything above the handler, or the engine, that gets it.        *)
(*                                                                         *)
(* The three intervals are made and cleared together, so one number stands *)
(* for the three.  Handles are identities: a new one is any number that no *)
(* pending callback and no field holds.  Timestamps are left out.          *)
(***************************************************************************)
EXTENDS Naturals, Sequences, FiniteSets, SequencesExt

CONSTANTS
  Channel,     \* bound: the channels in use
  Handler,     \* functions that subscribe
  ChannelOf,   \* the channel each of them subscribes to
  None,        \* no cached list
  Performs,    \* the pairs <<channel, operation>> handlers perform
  MayThrow,    \* the channels whose handlers may throw
  HasFrames,   \* whether there is a requestAnimationFrameFn
  CanCancel,   \* whether there is a cancelAnimationFrameFn
  ControlsInFrame,  \* whether start, stop or dispose are called in a frame
  StopsInStartup,   \* whether stop or dispose are called in start()
  MaxDepth,    \* bound: handlers in progress when a call is made
  MaxLoops     \* bound: sets of intervals, and frames requested, at a time

SchedulerChannel == {"startup", "tick", "lateTick", "fixedTick", "renderTick",
                     "focusChange", "pauseChange", "dispose"}
Timed == Channel \cap {"tick", "lateTick", "fixedTick"}
Operation == {"subscribe", "unsubscribe", "emit", "start", "stop", "dispose"}
Handle == 1 .. MaxLoops + 1

ASSUME SchedulerAssumption ==
  /\ Channel \subseteq SchedulerChannel
  /\ {"startup", "renderTick", "dispose"} \subseteq Channel
  /\ ChannelOf \in [Handler -> Channel]
  /\ None \notin Seq(Handler)
  /\ Performs \subseteq Channel \X Operation
  /\ MayThrow \subseteq Channel
  /\ HasFrames \in BOOLEAN /\ CanCancel \in BOOLEAN
  /\ ControlsInFrame \in BOOLEAN /\ StopsInStartup \in BOOLEAN
  /\ MaxDepth \in Nat /\ MaxLoops \in Nat

VARIABLES
  subscriptions,  \* each channel's Set, in insertion order
  handlerLists,   \* each channel's cached array, or None
  running,
  intervals,      \* intervals that have not been cleared
  handle,         \* tickHandle, lateTickHandle and fixedHandle, 0 for undefined
  queued,         \* animation frame requests for the next frame
  due,            \* those of this frame that have not run
  renderHandle,   \* 0 for undefined
  stack,
  rendered,       \* history: renderTicks of the current frame
  failed          \* history: some handler has thrown

channelVars == <<subscriptions, handlerLists>>
timerVars == <<running, intervals, handle>>
frameVars == <<queued, due, renderHandle, rendered>>
vars == <<channelVars, timerVars, frameVars, stack, failed>>

Entry == [t : {"user", "emit", "arm", "requeue", "clear"}, ch : Channel, list : Seq(Handler)]

TypeOK ==
  /\ subscriptions \in [Channel -> Seq(Handler)]
  /\ handlerLists \in [Channel -> Seq(Handler) \cup {None}]
  /\ running \in BOOLEAN
  /\ intervals \subseteq Nat \ {0} /\ handle \in Nat
  /\ queued \in Seq(Nat \ {0}) /\ due \in Seq(Nat \ {0}) /\ renderHandle \in Nat
  /\ stack \in Seq(Entry)
  /\ rendered \in Nat
  /\ failed \in BOOLEAN

-----------------------------------------------------------------------------
(* Sequences and the stack *)

Holds(s, x) == \E k \in 1 .. Len(s) : s[k] = x
Dropping(s, x) ==
  IF Holds(s, x) THEN RemoveAt(s, CHOOSE k \in 1 .. Len(s) : s[k] = x) ELSE s

Depth == Len(stack)
Top == stack[Depth]
Below == SubSeq(stack, 1, Depth - 1)
At(kind) == stack # <<>> /\ Top.t = kind
InProgress(kind) == \E k \in 1 .. Depth : stack[k].t = kind

Emission(ch, list) == [t |-> "emit", ch |-> ch, list |-> list]
Call(h, ch) == [t |-> "user", ch |-> ch, list |-> <<h>>]
Remainder(kind, ch) == [t |-> kind, ch |-> ch, list |-> <<>>]

UserEntries == {k \in 1 .. Depth : stack[k].t = "user"}

(* The application calls an operation: in a task of its own, or in a handler. *)
Calls(op) ==
  \/ stack = <<>>
  \/ At("user") /\ <<Top.ch, op>> \in Performs /\ Cardinality(UserEntries) <= MaxDepth

Controls == ControlsInFrame \/ ~InProgress("requeue")
Stops == Controls /\ (StopsInStartup \/ ~InProgress("arm"))

-----------------------------------------------------------------------------
Init ==
  /\ subscriptions = [ch \in Channel |-> <<>>]
  /\ handlerLists = [ch \in Channel |-> None]
  /\ running = FALSE /\ intervals = {} /\ handle = 0
  /\ queued = <<>> /\ due = <<>> /\ renderHandle = 0
  /\ stack = <<>>
  /\ rendered = 0 /\ failed = FALSE

-----------------------------------------------------------------------------
(* ManualScheduler *)

Subscribe(h) ==
  /\ Calls("subscribe")
  /\ LET ch == ChannelOf[h]
     IN /\ subscriptions' = IF Holds(subscriptions[ch], h) THEN subscriptions
                            ELSE [subscriptions EXCEPT ![ch] = Append(@, h)]
        /\ handlerLists' = [handlerLists EXCEPT ![ch] = None]
  /\ UNCHANGED <<timerVars, frameVars, stack, failed>>

\* Mutant of Unsubscribe: the cached list stays.
UnsubscribeKeepsList(h) ==
  /\ Calls("unsubscribe")
  /\ LET ch == ChannelOf[h]
     IN subscriptions' = [subscriptions EXCEPT ![ch] = Dropping(@, h)]
  /\ UNCHANGED <<handlerLists, timerVars, frameVars, stack, failed>>

Unsubscribe(h) ==
  /\ Calls("unsubscribe")
  /\ LET ch == ChannelOf[h]
     IN /\ subscriptions' = [subscriptions EXCEPT ![ch] = Dropping(@, h)]
        /\ handlerLists' = [handlerLists EXCEPT ![ch] = None]
  /\ UNCHANGED <<timerVars, frameVars, stack, failed>>

(* What emit() iterates over. *)
ListOf(ch) == IF handlerLists[ch] = None THEN subscriptions[ch] ELSE handlerLists[ch]

(* emit(), called by code of which `rest' is to follow. *)
BeginEmit(ch, rest) ==
  /\ handlerLists' = [handlerLists EXCEPT ![ch] = ListOf(ch)]
  /\ stack' = (stack \o rest) \o <<Emission(ch, ListOf(ch))>>

Emit(ch) ==
  /\ Calls("emit")
  /\ BeginEmit(ch, <<>>)
  /\ UNCHANGED <<subscriptions, timerVars, frameVars, failed>>

EmitNext ==
  /\ At("emit")
  /\ stack' = IF Top.list = <<>> THEN Below
              ELSE Below \o <<Emission(Top.ch, Tail(Top.list)), Call(Head(Top.list), Top.ch)>>
  /\ UNCHANGED <<channelVars, timerVars, frameVars, failed>>

HandlerReturns ==
  /\ At("user")
  /\ stack' = Below
  /\ UNCHANGED <<channelVars, timerVars, frameVars, failed>>

(* To the handler whose call led here, or to the engine. *)
HandlerThrows ==
  /\ At("user") /\ Top.ch \in MayThrow
  /\ \/ UserEntries = {Depth} /\ stack' = <<>>
     \/ \E k \in UserEntries \ {Depth} :
          /\ \A l \in UserEntries \ {Depth} : l <= k
          /\ stack' = SubSeq(stack, 1, k)
  /\ failed' = TRUE
  /\ UNCHANGED <<channelVars, timerVars, frameVars>>

-----------------------------------------------------------------------------
(* TimerScheduler *)

(* Animation frame requests, and intervals, there are or will be. *)
Requests == Len(queued) + Len(due) + Cardinality({k \in 1 .. Depth : stack[k].t \in {"arm", "requeue"}})
Room ==
  /\ Requests < MaxLoops
  /\ Cardinality(intervals) + Cardinality({k \in 1 .. Depth : stack[k].t = "arm"}) < MaxLoops

Start ==
  /\ Calls("start") /\ Controls /\ Room
  /\ ~running
  /\ running' = TRUE
  /\ BeginEmit("startup", <<Remainder("arm", "startup")>>)
  /\ UNCHANGED <<subscriptions, intervals, handle, frameVars, failed>>

FreshInterval(g) == g \in Handle /\ g \notin intervals /\ g # handle
FreshFrame(f) == f \in Handle /\ ~Holds(queued, f) /\ ~Holds(due, f) /\ f # renderHandle

RequestFrame ==
  \E f \in Handle :
    /\ FreshFrame(f) /\ \A e \in Handle : FreshFrame(e) => f <= e
    /\ queued' = Append(queued, f)
    /\ renderHandle' = f

(* The rest of start(), whatever the startup handlers did. *)
Arm ==
  /\ At("arm")
  /\ \E g \in Handle :
       /\ FreshInterval(g) /\ \A e \in Handle : FreshInterval(e) => g <= e
       /\ intervals' = intervals \cup {g}
       /\ handle' = g
  /\ IF HasFrames THEN RequestFrame ELSE UNCHANGED <<queued, renderHandle>>
  /\ stack' = Below
  /\ UNCHANGED <<channelVars, running, due, rendered, failed>>

\* Mutant of Halt: the frame is left to find out that the scheduler stopped.
HaltKeepsFrame ==
  /\ running' = FALSE
  /\ intervals' = IF running THEN intervals \ {handle} ELSE intervals
  /\ handle' = IF running THEN 0 ELSE handle
  /\ UNCHANGED <<queued, due, renderHandle>>

\* Mutant of Halt: the handles are reset before they are cleared.
HaltResetsFirst ==
  /\ running' = FALSE
  /\ handle' = IF running THEN 0 ELSE handle
  /\ UNCHANGED intervals
  /\ IF running /\ renderHandle # 0 /\ CanCancel
     THEN /\ queued' = Dropping(queued, renderHandle)
          /\ due' = Dropping(due, renderHandle)
          /\ renderHandle' = 0
     ELSE UNCHANGED <<queued, due, renderHandle>>

(* stop(), as stop() and dispose() perform it. *)
Halt ==
  /\ running' = FALSE
  /\ intervals' = IF running THEN intervals \ {handle} ELSE intervals
  /\ handle' = IF running THEN 0 ELSE handle
  /\ IF running /\ renderHandle # 0 /\ CanCancel
     THEN /\ queued' = Dropping(queued, renderHandle)
          /\ due' = Dropping(due, renderHandle)
          /\ renderHandle' = 0
     ELSE UNCHANGED <<queued, due, renderHandle>>

Stop ==
  /\ Calls("stop") /\ Stops
  /\ running
  /\ Halt
  /\ UNCHANGED <<channelVars, rendered, stack, failed>>

Dispose ==
  /\ Calls("dispose") /\ Stops
  /\ Halt
  /\ BeginEmit("dispose", <<Remainder("clear", "dispose")>>)
  /\ UNCHANGED <<subscriptions, rendered, failed>>

(* The rest of dispose(). *)
Clear ==
  /\ At("clear")
  /\ subscriptions' = [ch \in Channel |-> <<>>]
  /\ handlerLists' = [ch \in Channel |-> None]
  /\ stack' = Below
  /\ UNCHANGED <<timerVars, frameVars, failed>>

-----------------------------------------------------------------------------
(* The engine *)

IntervalFires ==
  /\ stack = <<>> /\ due = <<>>
  /\ intervals # {}
  /\ \E ch \in Timed : BeginEmit(ch, <<>>)
  /\ UNCHANGED <<subscriptions, timerVars, frameVars, failed>>

FrameBegins ==
  /\ stack = <<>> /\ due = <<>>
  /\ queued # <<>>
  /\ due' = queued /\ queued' = <<>>
  /\ rendered' = 0
  /\ UNCHANGED <<channelVars, timerVars, renderHandle, stack, failed>>

(* `step', of a loop that was stopped or of one that goes on. *)
Step ==
  /\ stack = <<>>
  /\ due # <<>>
  /\ due' = Tail(due)
  /\ IF running
     THEN /\ BeginEmit("renderTick", <<Remainder("requeue", "renderTick")>>)
          /\ rendered' = rendered + 1
     ELSE UNCHANGED <<handlerLists, stack, rendered>>
  /\ UNCHANGED <<subscriptions, timerVars, queued, renderHandle, failed>>

\* Mutant of Requeue: the new handle is not kept.
RequeueOnly ==
  /\ At("requeue")
  /\ \E f \in Handle :
       /\ FreshFrame(f) /\ \A e \in Handle : FreshFrame(e) => f <= e
       /\ queued' = Append(queued, f)
  /\ stack' = Below
  /\ UNCHANGED <<channelVars, timerVars, due, renderHandle, rendered, failed>>

(* The rest of `step', whatever the renderTick handlers did. *)
Requeue ==
  /\ At("requeue")
  /\ RequestFrame
  /\ stack' = Below
  /\ UNCHANGED <<channelVars, timerVars, due, rendered, failed>>

-----------------------------------------------------------------------------
Application ==
  \/ \E h \in Handler : Subscribe(h) \/ Unsubscribe(h)
  \/ \E ch \in Channel \ (Timed \cup {"renderTick"}) : Emit(ch)
  \/ Start \/ Stop \/ Dispose

Advance == EmitNext \/ HandlerReturns \/ HandlerThrows \/ Arm \/ Clear \/ Requeue

Engine == IntervalFires \/ FrameBegins \/ Step

Next == Application \/ Advance \/ Engine

Spec == Init /\ [][Next]_vars

-----------------------------------------------------------------------------
(* Properties *)

(* A cached list is what Array.from would build: no emission leaves out a  *)
(* handler that has subscribed before it begins or calls one that has      *)
(* unsubscribed (emit, 61-72, relies on every change to drop the cache).   *)
CacheIsCurrent ==
  \A ch \in Channel : handlerLists[ch] # None => handlerLists[ch] = subscriptions[ch]

(* One loop at a time: render-tick-contract-cases.ts:68, "emits exactly    *)
(* one renderTick per frame", however often the scheduler is stopped and   *)
(* started and whatever handlers throw.                                    *)
OneRenderTickPerFrame == rendered <= 1

(* Between tasks, a scheduler that is not running has no interval left: a  *)
(* later stop() would return at once and not clear it (178-198).           *)
StoppedIsSilent == (stack = <<>> /\ ~running) => intervals = {}

(* Between tasks, unless a handler threw, a running scheduler is driven,   *)
(* by intervals stop() can clear and by a frame stop() can cancel.         *)
RunningIsDriven ==
  (stack = <<>> /\ running /\ ~failed) =>
    /\ intervals = {handle}
    /\ HasFrames => (queued \o due = <<renderHandle>>)
=============================================================================
