--------------------------- MODULE ServiceManager ---------------------------
(***************************************************************************)
(* The registry and lifecycle router of the core package                   *)
(* (packages/service-framework/src/service-manager.ts, base-service.ts).   *)
(*                                                                         *)
(* The manager is synchronous and single-threaded.  What makes it hard is  *)
(* that it calls user code (constructors, initialize, start, update,       *)
(* destroy) in the middle of its own loops, and that this code may throw   *)
(* or call the manager again.  `stack' is therefore explicit: its head is  *)
(* the running frame, a "user" frame is user code in progress, every other *)
(* frame is the rest of a manager loop that resumes when the head returns. *)
(* An exception drops every frame down to the next user frame, because no  *)
(* loop of the manager swallows one.                                       *)
(*                                                                         *)
(* A record and its instance share one number, given in creation order.    *)
(* The Map of buckets is abstracted to the set `records' and a total order *)
(* (Before): buckets are sorted stably by priority and the Map iterates    *)
(* over its keys in the order they were inserted, which `place' remembers. *)
(***************************************************************************)
EXTENDS Naturals, Sequences, FiniteSets, SequencesExt

CONSTANTS
  Service,       \* the registrations an application has
  Token, Name,   \* their service tokens and names
  TokenOf, NameOf,       \* token and name of a registration
  Priority, Position,    \* its priority and its place in its list
  Dependencies,  \* the tokens it is constructed with
  ModulesOf,     \* its module registrations; modules have none themselves
  Enabled,       \* whether the environment rules let it be activated
  Profile,       \* the registrations of the profile
  Waiter,        \* calls of resolveAsync
  WaitToken, WaitNames,  \* the token a call waits for, the names it accepts
  InitWaiter,    \* calls of waitUntilInitialized
  MayThrow,      \* the hooks whose user code may throw
  Reentrant,     \* the pairs <<hook, operation>> user code may perform
  MaxInstances,  \* bound: instances created in one behaviour
  MaxDepth       \* bound: user frames on the stack when a call is made

Inst == 1 .. MaxInstances
Hook == {"construct", "initialize", "start", "update", "reset", "destroy"}
Operation == {"initializeProfile", "register", "unregister", "start",
              "tick", "reset", "dispose"}
Report == {"service_initialized", "service_started", "service_failed",
           "service_disposed"}
AllModules == UNION {ModulesOf[s] : s \in Service}

ASSUME ConfigurationAssumption ==
  /\ TokenOf \in [Service -> Token]
  /\ NameOf \in [Service -> Name]
  /\ Priority \in [Service -> Nat]
  /\ Position \in [Service -> Nat]
  /\ Dependencies \in [Service -> SUBSET Token]
  /\ ModulesOf \in [Service -> SUBSET Service]
  /\ Enabled \in [Service -> BOOLEAN]
  /\ Profile \subseteq Service \ AllModules
  \* ServiceModuleRegistration omits `modules': modules do not nest.
  /\ \A m \in AllModules : ModulesOf[m] = {}

ASSUME WaiterAssumption ==
  /\ WaitToken \in [Waiter -> Token]
  /\ WaitNames \in [Waiter -> SUBSET Name]

ASSUME BoundAssumption ==
  /\ MaxInstances \in Nat
  /\ MaxDepth \in Nat
  /\ MayThrow \subseteq Hook
  /\ Reentrant \subseteq Hook \X Operation

VARIABLES
  record,          \* what createRecord fixed for each instance, by number
  records,         \* the instances recordsByToken holds
  place,           \* when an instance and the Map key of its bucket arrived there
  modules,         \* record.modules
  serviceModules,  \* BaseService.modules, in registration order
  isServiceRegistered, isInitialized, isStarted, isDestroyed,  \* BaseService flags
  aborted,         \* instances whose abort signal has fired
  initialized, started, disposed,  \* the manager's own flags
  subscribed,      \* the scheduler subscriptions are in place
  stack,           \* the call stack, head first
  waiting,         \* state of each resolveAsync call
  answer,          \* the instance it resolved with, or 0
  initWaiting,     \* state of each waitUntilInitialized call
  reported,        \* history: telemetry records about each instance
  called,          \* history: times initialize, start, destroy were entered
  failed           \* history: some call has thrown

registryVars == <<record, records, place, modules, serviceModules>>
flagVars == <<isServiceRegistered, isInitialized, isStarted, isDestroyed, aborted>>
managerVars == <<initialized, started, disposed, subscribed>>
waiterVars == <<waiting, answer, initWaiting>>
historyVars == <<reported, called, failed>>
vars == <<registryVars, flagVars, managerVars, waiterVars, historyVars, stack>>

-----------------------------------------------------------------------------
(* Types *)

CountedHook == {"initialize", "start", "destroy"}
WaiterState == {"idle", "pending", "resolved", "rejected"}

Record == [svc : Service, parent : Nat, deps : SUBSET Nat]
Place == [key : Nat, arrived : Nat]

Frame == [t : {"user", "profile", "modules", "walk", "startIfStarted", "hook",
               "hookModules", "forEach", "disposeAll", "dispose",
               "disposeModules", "destroy"},
          hook : Hook, inst : Nat, n : Nat, svcs : SUBSET Service, insts : SUBSET Nat]

TypeOK ==
  /\ record \in Seq(Record)
  /\ Len(record) <= MaxInstances
  /\ records \subseteq Inst
  /\ place \in [Inst -> Place]
  /\ modules \in [Inst -> SUBSET Inst]
  /\ serviceModules \in [Inst -> Seq(Inst)]
  /\ isServiceRegistered \subseteq Inst /\ isInitialized \subseteq Inst
  /\ isStarted \subseteq Inst /\ isDestroyed \subseteq Inst /\ aborted \subseteq Inst
  /\ initialized \in BOOLEAN /\ started \in BOOLEAN
  /\ disposed \in BOOLEAN /\ subscribed \in BOOLEAN
  /\ failed \in BOOLEAN
  /\ stack \in Seq(Frame)
  /\ waiting \in [Waiter -> WaiterState]
  /\ answer \in [Waiter -> Inst \cup {0}]
  /\ initWaiting \in [InitWaiter -> WaiterState]
  /\ reported \in [Inst -> SUBSET Report]
  /\ called \in [Inst -> [CountedHook -> 0 .. 2]]

-----------------------------------------------------------------------------
(* The registry *)

Svc(i) == record[i].svc

(* The order of getAllRecords: priority, then Map key, then arrival. *)
Before(i, j) ==
  LET p == Priority[Svc(i)]
      q == Priority[Svc(j)]
  IN \/ p < q
     \/ p = q /\ place[i].key < place[j].key
     \/ p = q /\ place[i].key = place[j].key /\ place[i].arrived < place[j].arrived

IsFirst(i, S) == i \in S /\ \A j \in S \ {i} : Before(i, j)
IsLast(i, S) == i \in S /\ \A j \in S \ {i} : Before(j, i)

Bucket(t) == {i \in records : TokenOf[Svc(i)] = t}
Named(t, n) == {i \in Bucket(t) : NameOf[Svc(i)] = n}

\* Mutant of Found: the name is not passed on, the first of the bucket wins.
FoundByToken(i) == IsFirst(i, Bucket(TokenOf[Svc(i)]))

(* findRecord(record.token, record.name) === record *)
Found(i) == IsFirst(i, Named(TokenOf[Svc(i)], NameOf[Svc(i)]))

(* resolve() of each dependency: the first record of its bucket. *)
Resolved(s) == {i \in records : \E t \in Dependencies[s] : IsFirst(i, Bucket(t))}

(* sortRegistrations: a stable sort by priority. *)
IsNext(s, S) ==
  /\ s \in S
  /\ \A r \in S \ {s} : \/ Priority[s] < Priority[r]
                        \/ Priority[s] = Priority[r] /\ Position[s] < Position[r]

\* Mutant of CanCreate: no check for a duplicate.
CanCreateTwice(s) ==
  /\ Len(record) < MaxInstances
  /\ \A t \in Dependencies[s] : Bucket(t) # {}

(* createRecord throws on a duplicate or a missing dependency.  Running out  *)
(* of the model's instances counts as a constructor that throws at once.     *)
CanCreate(s) ==
  /\ Len(record) < MaxInstances
  /\ Named(TokenOf[s], NameOf[s]) = {}
  /\ \A t \in Dependencies[s] : Bucket(t) # {}

(* addRecord: at the end of the bucket, or under a new key of the Map.       *)
PlaceFor(i) ==
  LET now == Cardinality({j \in Inst : place[j].arrived # 0}) + 1
      bucket == Bucket(TokenOf[Svc(i)])
  IN [arrived |-> now,
      key |-> IF bucket = {} THEN now ELSE CHOOSE k \in {place[j].key : j \in bucket} : TRUE]

-----------------------------------------------------------------------------
(* Frames *)

(* `kind' of record or loop, the hook it is about, the instance it is at. *)
About(kind, h, i) ==
  [t |-> kind, hook |-> h, inst |-> i, n |-> 0, svcs |-> {}, insts |-> {}]

User(h, i) == About("user", h, i)
RunHook(h, i) == About("hook", h, i)
Walk(h, i, n) == [About("walk", h, i) EXCEPT !.n = n]
RunHookModules(h, i, n) == [About("hookModules", h, i) EXCEPT !.n = n]
StartIfStarted(i) == About("startIfStarted", "start", i)
ProfileLoop(S) == [About("profile", "construct", 0) EXCEPT !.svcs = S]
ModuleLoop(i, S) == [About("modules", "construct", i) EXCEPT !.svcs = S]
ForEach(h, S) == [About("forEach", h, 0) EXCEPT !.insts = S]
DisposeAll(S) == [About("disposeAll", "destroy", 0) EXCEPT !.insts = S]
DisposeOne(i) == About("dispose", "destroy", i)
DisposeModules(S) == [About("disposeModules", "destroy", 0) EXCEPT !.insts = S]
DestroyOne(i) == About("destroy", "destroy", i)

Top == Head(stack)
Rest == Tail(stack)
At(kind) == stack # <<>> /\ Top.t = kind

UserFrames(s) == {k \in 1 .. Len(s) : s[k].t = "user"}

(* An exception drops every frame down to the next user frame. *)
Throw ==
  /\ \/ UserFrames(Rest) = {} /\ stack' = <<>>
     \/ \E k \in UserFrames(Rest) :
          /\ \A l \in UserFrames(Rest) : k <= l
          /\ stack' = SubSeq(Rest, k, Len(Rest))
  /\ failed' = TRUE

(* Application code is running and may perform `op': outside any callback, *)
(* or inside one that re-enters the manager.                               *)
Calls(op) ==
  \/ stack = <<>>
  \/ /\ At("user")
     /\ <<Top.hook, op>> \in Reentrant
     /\ Cardinality(UserFrames(stack)) <= MaxDepth

-----------------------------------------------------------------------------
Init ==
  /\ record = <<>>
  /\ records = {}
  /\ place = [i \in Inst |-> [key |-> 0, arrived |-> 0]]
  /\ modules = [i \in Inst |-> {}]
  /\ serviceModules = [i \in Inst |-> <<>>]
  /\ isServiceRegistered = {} /\ isInitialized = {} /\ isStarted = {}
  /\ isDestroyed = {} /\ aborted = {}
  /\ initialized = FALSE /\ started = FALSE /\ disposed = FALSE
  /\ subscribed = TRUE
  /\ stack = <<>>
  /\ waiting = [w \in Waiter |-> "idle"]
  /\ answer = [w \in Waiter |-> 0]
  /\ initWaiting = [w \in InitWaiter |-> "idle"]
  /\ reported = [i \in Inst |-> {}]
  /\ called = [i \in Inst |-> [h \in CountedHook |-> 0]]
  /\ failed = FALSE

-----------------------------------------------------------------------------
(* Activation *)

(* createRecord up to the constructor: a module registers itself with its  *)
(* parent in the base constructor, before the derived constructor's body.  *)
Construct(s, parent, continuation) ==
  LET i == Len(record) + 1
  IN /\ record' = Append(record, [svc |-> s, parent |-> parent, deps |-> Resolved(s)])
     /\ serviceModules' =
          IF parent = 0 THEN serviceModules
          ELSE [serviceModules EXCEPT ![parent] = Append(@, i)]
     /\ stack' = <<User("construct", i)>> \o continuation
     /\ UNCHANGED <<records, place, modules, flagVars, managerVars, waiterVars, historyVars>>

(* The steps that follow the construction of a top-level registration. *)
ThenInitialize(s) ==
  <<ModuleLoop(Len(record) + 1, ModulesOf[s]), Walk("initialize", Len(record) + 1, 0)>>

InitializeProfile ==
  /\ Calls("initializeProfile")
  /\ ~disposed /\ ~initialized
  /\ stack' = <<ProfileLoop(Profile)>> \o stack
  /\ UNCHANGED <<registryVars, flagVars, managerVars, waiterVars, historyVars>>

ProfileNext ==
  /\ At("profile")
  /\ \E s \in Top.svcs :
       /\ IsNext(s, Top.svcs)
       /\ LET remaining == <<ProfileLoop(Top.svcs \ {s})>> \o Rest
          IN \/ /\ Enabled[s] /\ CanCreate(s)
                /\ Construct(s, 0, ThenInitialize(s) \o remaining)
             \/ /\ ~Enabled[s]
                /\ stack' = remaining
                /\ UNCHANGED <<registryVars, flagVars, managerVars, waiterVars, historyVars>>
             \/ /\ Enabled[s] /\ ~CanCreate(s)
                /\ Throw
                /\ UNCHANGED <<registryVars, flagVars, managerVars, waiterVars, reported, called>>

ProfileDone ==
  /\ At("profile")
  /\ Top.svcs = {}
  /\ initialized' = TRUE
  /\ initWaiting' = [w \in InitWaiter |->
                       IF initWaiting[w] = "pending" THEN "resolved" ELSE initWaiting[w]]
  /\ stack' = Rest
  /\ UNCHANGED <<registryVars, flagVars, started, disposed, subscribed, waiting, answer, historyVars>>

\* Mutant of Register: a late service starts before it is initialized.
RegisterStartsFirst(s) ==
  /\ Calls("register")
  /\ ~disposed
  /\ Enabled[s] /\ CanCreate(s)
  /\ Construct(s, 0, <<StartIfStarted(Len(record) + 1)>> \o ThenInitialize(s) \o stack)

(* A registration the environment filters out, a duplicate and a missing   *)
(* dependency all throw to the caller before anything has changed.         *)
Register(s) ==
  /\ Calls("register")
  /\ ~disposed
  /\ Enabled[s] /\ CanCreate(s)
  /\ Construct(s, 0, ThenInitialize(s) \o <<StartIfStarted(Len(record) + 1)>> \o stack)

ModulesNext ==
  /\ At("modules")
  /\ \E s \in Top.svcs :
       /\ IsNext(s, Top.svcs)
       /\ LET remaining == <<ModuleLoop(Top.inst, Top.svcs \ {s})>> \o Rest
          IN \/ /\ Enabled[s] /\ CanCreate(s)
                /\ Construct(s, Top.inst, remaining)
             \/ /\ ~Enabled[s]
                /\ stack' = remaining
                /\ UNCHANGED <<registryVars, flagVars, managerVars, waiterVars, historyVars>>
             \/ /\ Enabled[s] /\ ~CanCreate(s)
                /\ Throw
                /\ UNCHANGED <<registryVars, flagVars, managerVars, waiterVars, reported, called>>

(* Only now does the parent's record learn of its modules. *)
ModulesDone ==
  /\ At("modules")
  /\ Top.svcs = {}
  /\ modules' = [modules EXCEPT ![Top.inst] =
                   {j \in 1 .. Len(record) : record[j].parent = Top.inst}]
  /\ stack' = Rest
  /\ UNCHANGED <<record, records, place, serviceModules, flagVars, managerVars, waiterVars,
                 historyVars>>

-----------------------------------------------------------------------------
(* initializeRecord and startRecord, one shape *)

Flagged(h) == IF h = "initialize" THEN isInitialized ELSE isStarted

Log(i, what) == reported' = [reported EXCEPT ![i] = @ \cup {what}]

Count(h, i) ==
  called' = [called EXCEPT ![i][h] = IF @ < 2 THEN @ + 1 ELSE 2]

(* walkRecordTree: the record, then its modules as the record lists them   *)
(* when the walk gets to them; n is the last record visited.               *)
WalkNext ==
  /\ At("walk")
  /\ LET i == Top.inst
         later == {j \in modules[i] : j > Top.n}
     IN \/ /\ Top.n = 0
           /\ stack' = <<RunHook(Top.hook, i), Walk(Top.hook, i, i)>> \o Rest
        \/ /\ Top.n # 0
           /\ \E j \in later :
                /\ \A k \in later : j <= k
                /\ stack' = <<RunHook(Top.hook, j), Walk(Top.hook, i, j)>> \o Rest
        \/ /\ Top.n # 0 /\ later = {}
           /\ stack' = Rest
  /\ UNCHANGED <<registryVars, flagVars, managerVars, waiterVars, historyVars>>

\* Mutant of StartIfStartedNext: late registrations are not started.
NeverStartIfStarted ==
  /\ At("startIfStarted")
  /\ stack' = Rest
  /\ UNCHANGED <<registryVars, flagVars, managerVars, waiterVars, historyVars>>

StartIfStartedNext ==
  /\ At("startIfStarted")
  /\ stack' = IF started THEN <<Walk("start", Top.inst, 0)>> \o Rest ELSE Rest
  /\ UNCHANGED <<registryVars, flagVars, managerVars, waiterVars, historyVars>>

\* Mutant of HookNext: the early return on the flag is dropped.
HookAgain ==
  /\ At("hook")
  /\ stack' = <<User(Top.hook, Top.inst), RunHookModules(Top.hook, Top.inst, 1)>> \o Rest
  /\ Count(Top.hook, Top.inst)
  /\ UNCHANGED <<registryVars, flagVars, managerVars, waiterVars, reported, failed>>

\* Mutant of HookNext: the modules run before the record.
HookModulesFirst ==
  /\ At("hook")
  /\ IF Top.inst \in Flagged(Top.hook)
     THEN stack' = Rest /\ UNCHANGED called
     ELSE /\ stack' = <<RunHookModules(Top.hook, Top.inst, 1), User(Top.hook, Top.inst)>> \o Rest
          /\ Count(Top.hook, Top.inst)
  /\ UNCHANGED <<registryVars, flagVars, managerVars, waiterVars, reported, failed>>

HookNext ==
  /\ At("hook")
  /\ IF Top.inst \in Flagged(Top.hook)
     THEN stack' = Rest /\ UNCHANGED called
     ELSE /\ stack' = <<User(Top.hook, Top.inst), RunHookModules(Top.hook, Top.inst, 1)>> \o Rest
          /\ Count(Top.hook, Top.inst)
  /\ UNCHANGED <<registryVars, flagVars, managerVars, waiterVars, reported, failed>>

(* The loop over instance.serviceModules is indexed: an entry spliced out  *)
(* at or before the index moves the next one out of the loop's sight.      *)
HookModulesNext ==
  /\ At("hookModules")
  /\ LET h == Top.hook
         ms == serviceModules[Top.inst]
         onward == <<RunHookModules(h, Top.inst, Top.n + 1)>> \o Rest
     IN \/ /\ Top.n <= Len(ms) /\ ms[Top.n] \in Flagged(h)
           /\ stack' = onward
           /\ UNCHANGED <<called, reported>>
        \/ /\ Top.n <= Len(ms) /\ ms[Top.n] \notin Flagged(h)
           /\ stack' = <<User(h, ms[Top.n])>> \o onward
           /\ Count(h, ms[Top.n])
           /\ UNCHANGED reported
        \/ /\ Top.n > Len(ms)
           /\ stack' = Rest
           /\ Log(Top.inst, IF h = "initialize" THEN "service_initialized" ELSE "service_started")
           /\ UNCHANGED called
  /\ UNCHANGED <<registryVars, flagVars, managerVars, waiterVars, failed>>

-----------------------------------------------------------------------------
(* start(), ticks and reset(): loops over a snapshot of the registry *)

Start ==
  /\ Calls("start")
  /\ initialized /\ ~started
  /\ started' = TRUE
  /\ stack' = <<ForEach("start", records)>> \o stack
  /\ UNCHANGED <<registryVars, flagVars, initialized, disposed, subscribed, waiterVars, historyVars>>

(* Any scheduler channel; the manager treats all of them alike. *)
Tick ==
  /\ Calls("tick")
  /\ subscribed
  /\ stack' = <<ForEach("update", records)>> \o stack
  /\ UNCHANGED <<registryVars, flagVars, managerVars, waiterVars, historyVars>>

Reset ==
  /\ Calls("reset")
  /\ stack' = <<ForEach("reset", records)>> \o stack
  /\ UNCHANGED <<registryVars, flagVars, managerVars, waiterVars, historyVars>>

ForEachNext ==
  /\ At("forEach")
  /\ \/ \E i \in Top.insts :
          /\ IsFirst(i, Top.insts)
          /\ stack' = <<IF Top.hook = "start" THEN RunHook("start", i) ELSE User(Top.hook, i),
                        ForEach(Top.hook, Top.insts \ {i})>> \o Rest
     \/ Top.insts = {} /\ stack' = Rest
  /\ UNCHANGED <<registryVars, flagVars, managerVars, waiterVars, historyVars>>

-----------------------------------------------------------------------------
(* Disposal *)

Unregister(i) ==
  /\ Calls("unregister")
  /\ Found(i)
  /\ stack' = <<DisposeOne(i)>> \o stack
  /\ UNCHANGED <<registryVars, flagVars, managerVars, waiterVars, historyVars>>

Dispose ==
  /\ Calls("dispose")
  /\ ~disposed
  /\ disposed' = TRUE
  /\ stack' = <<DisposeAll(records)>> \o stack
  /\ UNCHANGED <<registryVars, flagVars, initialized, started, subscribed, waiterVars, historyVars>>

DisposeAllNext ==
  /\ At("disposeAll")
  /\ \/ /\ \E i \in Top.insts :
             /\ IsLast(i, Top.insts)
             /\ stack' = <<DisposeOne(i), DisposeAll(Top.insts \ {i})>> \o Rest
        /\ UNCHANGED subscribed
     \/ /\ Top.insts = {}
        /\ subscribed' = FALSE
        /\ stack' = Rest
  /\ UNCHANGED <<registryVars, flagVars, initialized, started, disposed, waiterVars, historyVars>>

\* Mutant of DisposeNext: the record goes before its modules.
DisposeParentFirst ==
  /\ At("dispose")
  /\ stack' = IF Found(Top.inst)
              THEN <<DestroyOne(Top.inst), DisposeModules(modules[Top.inst])>> \o Rest
              ELSE Rest
  /\ UNCHANGED <<registryVars, flagVars, managerVars, waiterVars, historyVars>>

\* Mutant of DisposeNext: the modules are forgotten.
DisposeWithoutModules ==
  /\ At("dispose")
  /\ stack' = IF Found(Top.inst) THEN <<DestroyOne(Top.inst)>> \o Rest ELSE Rest
  /\ UNCHANGED <<registryVars, flagVars, managerVars, waiterVars, historyVars>>

DisposeNext ==
  /\ At("dispose")
  /\ stack' = IF Found(Top.inst)
              THEN <<DisposeModules(modules[Top.inst]), DestroyOne(Top.inst)>> \o Rest
              ELSE Rest
  /\ UNCHANGED <<registryVars, flagVars, managerVars, waiterVars, historyVars>>

DisposeModulesNext ==
  /\ At("disposeModules")
  /\ \/ \E i \in Top.insts :
          /\ \A j \in Top.insts : j <= i
          /\ stack' = <<DisposeOne(i), DisposeModules(Top.insts \ {i})>> \o Rest
     \/ Top.insts = {} /\ stack' = Rest
  /\ UNCHANGED <<registryVars, flagVars, managerVars, waiterVars, historyVars>>

(* Nothing is looked up again after the modules are gone. *)
DestroyNext ==
  /\ At("destroy")
  /\ aborted' = aborted \cup {Top.inst}
  /\ Log(Top.inst, "service_disposed")
  /\ Count("destroy", Top.inst)
  /\ stack' = <<User("destroy", Top.inst)>> \o Rest
  /\ UNCHANGED <<registryVars, isServiceRegistered, isInitialized, isStarted, isDestroyed,
                 managerVars, waiterVars, failed>>

-----------------------------------------------------------------------------
(* User code returns or throws *)

Returns(h) == At("user") /\ Top.hook = h /\ stack' = Rest

Accepts(w, i) == WaitToken[w] = TokenOf[Svc(i)] /\ NameOf[Svc(i)] \in WaitNames[w]

(* addRecord and notifyWaiters run before any other code. *)
ConstructReturns ==
  /\ Returns("construct")
  /\ records' = records \cup {Top.inst}
  /\ place' = [place EXCEPT ![Top.inst] = PlaceFor(Top.inst)]
  /\ isServiceRegistered' = isServiceRegistered \cup {Top.inst}
  /\ LET served == {w \in Waiter : waiting[w] = "pending" /\ Accepts(w, Top.inst)}
     IN /\ waiting' = [w \in Waiter |-> IF w \in served THEN "resolved" ELSE waiting[w]]
        /\ answer' = [w \in Waiter |-> IF w \in served THEN Top.inst ELSE answer[w]]
  /\ UNCHANGED <<record, modules, serviceModules, isInitialized, isStarted, isDestroyed, aborted,
                 managerVars, initWaiting, historyVars>>

InitializeReturns ==
  /\ Returns("initialize")
  /\ isServiceRegistered' = isServiceRegistered \cup {Top.inst}
  /\ isInitialized' = isInitialized \cup {Top.inst}
  /\ UNCHANGED <<registryVars, isStarted, isDestroyed, aborted, managerVars, waiterVars, historyVars>>

StartReturns ==
  /\ Returns("start")
  /\ isStarted' = isStarted \cup {Top.inst}
  /\ UNCHANGED <<registryVars, isServiceRegistered, isInitialized, isDestroyed, aborted,
                 managerVars, waiterVars, historyVars>>

CallbackReturns ==
  /\ Returns("update") \/ Returns("reset")
  /\ UNCHANGED <<registryVars, flagVars, managerVars, waiterVars, historyVars>>

Without(s, x) ==
  IF \E k \in 1 .. Len(s) : s[k] = x
  THEN RemoveAt(s, CHOOSE k \in 1 .. Len(s) : s[k] = x)
  ELSE s

\* Mutant of DestroyReturns: the record stays in its bucket.
DestroyKeepsRecord ==
  /\ Returns("destroy")
  /\ isDestroyed' = isDestroyed \cup {Top.inst}
  /\ isServiceRegistered' = isServiceRegistered \ {Top.inst}
  /\ modules' = [modules EXCEPT ![Top.inst] = {}]
  /\ UNCHANGED <<record, records, place, serviceModules, isInitialized, isStarted, aborted,
                 managerVars, waiterVars, historyVars>>

DestroyReturns ==
  /\ Returns("destroy")
  /\ LET i == Top.inst
         p == record[i].parent
     IN /\ isDestroyed' = isDestroyed \cup {i}
        /\ isServiceRegistered' = isServiceRegistered \ {i}
        /\ serviceModules' =
             IF p = 0 THEN serviceModules
             ELSE [serviceModules EXCEPT ![p] = Without(@, i)]
        /\ records' = records \ {i}
        /\ modules' = [modules EXCEPT ![i] = {}]
  /\ UNCHANGED <<record, place, isInitialized, isStarted, aborted, managerVars, waiterVars,
                 historyVars>>

\* Mutant of UserThrows: only a service's own initialize() is reported.
ThrowsUnreported ==
  /\ At("user")
  /\ Top.hook \in MayThrow
  /\ Throw
  /\ IF Top.hook = "initialize" /\ Rest[1].inst = Top.inst
     THEN Log(Top.inst, "service_failed")
     ELSE UNCHANGED reported
  /\ UNCHANGED <<registryVars, flagVars, managerVars, waiterVars, called>>

(* initializeRecord and startRecord report the failure under the name of   *)
(* the record being walked: the frame below the user code.                 *)
UserThrows ==
  /\ At("user")
  /\ Top.hook \in MayThrow
  /\ Throw
  /\ IF Top.hook \in {"initialize", "start"}
     THEN Log(Rest[1].inst, "service_failed")
     ELSE UNCHANGED reported
  /\ UNCHANGED <<registryVars, flagVars, managerVars, waiterVars, called>>

-----------------------------------------------------------------------------
(* Waiters.  Their timers are macrotasks: they fire only between calls. *)

\* Mutant of ResolveAsync: only the first record of the token is looked at.
ResolveFirst(w) ==
  /\ stack = <<>> \/ At("user")
  /\ waiting[w] = "idle"
  /\ LET matches == {i \in Bucket(WaitToken[w]) : IsFirst(i, Bucket(WaitToken[w])) /\ Accepts(w, i)}
     IN \/ /\ matches = {}
           /\ waiting' = [waiting EXCEPT ![w] = "pending"]
           /\ UNCHANGED answer
        \/ /\ \E i \in matches : answer' = [answer EXCEPT ![w] = i]
           /\ waiting' = [waiting EXCEPT ![w] = "resolved"]
  /\ UNCHANGED <<registryVars, flagVars, managerVars, initWaiting, historyVars, stack>>

ResolveAsync(w) ==
  /\ stack = <<>> \/ At("user")
  /\ waiting[w] = "idle"
  /\ LET matches == {i \in records : Accepts(w, i)}
     IN \/ /\ matches = {}
           /\ waiting' = [waiting EXCEPT ![w] = "pending"]
           /\ UNCHANGED answer
        \/ /\ \E i \in matches : IsFirst(i, matches) /\ answer' = [answer EXCEPT ![w] = i]
           /\ waiting' = [waiting EXCEPT ![w] = "resolved"]
  /\ UNCHANGED <<registryVars, flagVars, managerVars, initWaiting, historyVars, stack>>

\* Mutant of ResolveTimeout: disposing the manager silences its timers.
TimeoutUnlessDisposed(w) ==
  /\ stack = <<>> /\ ~disposed
  /\ waiting[w] = "pending"
  /\ waiting' = [waiting EXCEPT ![w] = "rejected"]
  /\ UNCHANGED <<registryVars, flagVars, managerVars, answer, initWaiting, historyVars, stack>>

ResolveTimeout(w) ==
  /\ stack = <<>>
  /\ waiting[w] = "pending"
  /\ waiting' = [waiting EXCEPT ![w] = "rejected"]
  /\ UNCHANGED <<registryVars, flagVars, managerVars, answer, initWaiting, historyVars, stack>>

WaitUntilInitialized(w) ==
  /\ stack = <<>> \/ At("user")
  /\ initWaiting[w] = "idle"
  /\ initWaiting' = [initWaiting EXCEPT ![w] = IF initialized THEN "resolved" ELSE "pending"]
  /\ UNCHANGED <<registryVars, flagVars, managerVars, waiting, answer, historyVars, stack>>

InitializationTimeout(w) ==
  /\ stack = <<>>
  /\ initWaiting[w] = "pending"
  /\ initWaiting' = [initWaiting EXCEPT ![w] = "rejected"]
  /\ UNCHANGED <<registryVars, flagVars, managerVars, waiting, answer, historyVars, stack>>

-----------------------------------------------------------------------------
(* The manager's own steps, and user code that finishes *)
Advance ==
  \/ ProfileNext \/ ProfileDone \/ ModulesNext \/ ModulesDone
  \/ WalkNext \/ StartIfStartedNext \/ HookNext \/ HookModulesNext
  \/ ForEachNext
  \/ DisposeAllNext \/ DisposeNext \/ DisposeModulesNext \/ DestroyNext
  \/ ConstructReturns \/ InitializeReturns \/ StartReturns \/ CallbackReturns
  \/ DestroyReturns \/ UserThrows

Call ==
  \/ InitializeProfile \/ Start \/ Tick \/ Reset \/ Dispose
  \/ \E s \in Service \ AllModules : Register(s)
  \/ \E i \in records : Unregister(i)

Wait ==
  \/ \E w \in Waiter : ResolveAsync(w) \/ ResolveTimeout(w)
  \/ \E w \in InitWaiter : WaitUntilInitialized(w) \/ InitializationTimeout(w)

Next == Advance \/ Call \/ Wait

Spec == Init /\ [][Next]_vars

(* Callbacks terminate and the event loop runs every timer that is due. *)
Fairness ==
  /\ WF_vars(Advance)
  /\ \A w \in Waiter : SF_vars(ResolveTimeout(w))
  /\ \A w \in InitWaiter : SF_vars(InitializationTimeout(w))

FairSpec == Spec /\ Fairness

-----------------------------------------------------------------------------
(* Properties *)

(* The step calls user code `h' of instance i (rather than returning to it). *)
Enters(h, i) ==
  /\ stack' # <<>>
  /\ Len(stack') >= Len(stack)
  /\ Head(stack').t = "user" /\ Head(stack').hook = h /\ Head(stack').inst = i

(* A pending resolveAsync call has missed no service: none it accepts is   *)
(* registered (tryResolve, addRecord and notifyWaiters, 205-230, 326-328). *)
(* A pending waitUntilInitialized call means the profile is not ready.     *)
NoLostWakeup ==
  /\ \A w \in Waiter : waiting[w] = "pending" => \A i \in records : ~Accepts(w, i)
  /\ \A w \in InitWaiter : initWaiting[w] = "pending" => ~initialized

(* However callbacks re-enter the manager, and while no initialize() or    *)
(* start() throws, no instance has its initialize() or its start() called  *)
(* twice (435-483: the flags are set after user code, so a loop that       *)
(* overlaps another could repeat the call).                                *)
CalledOnce ==
  \A i \in Inst : called[i]["initialize"] <= 1 /\ called[i]["start"] <= 1

(* A destroyed service is out of the registry, and its abort signal had    *)
(* fired (disposeRecord, 485-516).                                         *)
DestroyedIsGone ==
  /\ isDestroyed \cap records = {}
  /\ isDestroyed \subseteq aborted

(* Token and name identify a record (the check of createRecord, 395).      *)
UniqueNames ==
  \A i, j \in records :
    (TokenOf[Svc(i)] = TokenOf[Svc(j)] /\ NameOf[Svc(i)] = NameOf[Svc(j)]) => i = j

(* Between calls, unless something threw, no registered service has been   *)
(* left out of initialization, or of the start once the manager started,   *)
(* late registrations and services registered from a callback included.    *)
NobodyLeftBehind ==
  (stack = <<>> /\ ~failed) =>
    /\ records \subseteq isInitialized
    /\ started => records \subseteq isStarted

(* When dispose() has been through the registry and nothing threw, no       *)
(* service is registered and every instance was destroyed, whatever the     *)
(* callbacks on the way did; afterwards it is off the scheduler (295-312).  *)
(* A profile it is called from goes on creating services, which nobody      *)
(* destroys: initializeProfile asks throwIfDisposed only once (126).        *)
DisposeIsComplete ==
  /\ (At("disposeAll") /\ Top.insts = {} /\ ~failed) =>
       records = {} /\ 1 .. Len(record) \subseteq isDestroyed
  /\ (stack = <<>> /\ disposed /\ ~failed) => ~subscribed

(* Between calls, unless something threw, a registered module has a        *)
(* registered parent, and record and instance of the parent both know it.  *)
ModulesFollowParent ==
  (stack = <<>> /\ ~failed) =>
    \A i \in records : record[i].parent # 0 =>
      /\ record[i].parent \in records
      /\ i \in modules[record[i].parent]
      /\ \E k \in 1 .. Len(serviceModules[record[i].parent]) :
            serviceModules[record[i].parent][k] = i

(* Between calls, a service whose initialize() or start() was entered and   *)
(* did not return is reported as failed, under its own record or under the *)
(* parent whose loop called it (the catch blocks of 452-457 and 477-480),  *)
(* whatever nested call, constructor or destroy() threw around it.         *)
FailuresAreReported ==
  stack = <<>> => \A i \in Inst :
    (\/ called[i]["initialize"] > 0 /\ i \notin isInitialized
     \/ called[i]["start"] > 0 /\ i \notin isStarted)
      => \E j \in {i, record[i].parent} \cap Inst : "service_failed" \in reported[j]

(* Unless something threw, a service initializes after everything it was   *)
(* constructed with, whatever the priorities and nesting.                  *)
DependenciesInitializeFirst ==
  [][\A i \in Inst : (Enters("initialize", i) /\ ~failed) =>
        record[i].deps \subseteq isInitialized]_vars

(* Unless something threw, no service starts before it is initialized.     *)
InitializeBeforeStart ==
  [][\A i \in Inst : (Enters("start", i) /\ ~failed) => i \in isInitialized]_vars

(* A parent is destroyed after the modules its record lists.               *)
ModulesDestroyedFirst ==
  [][\A i \in Inst : Enters("destroy", i) => modules[i] \cap records = {}]_vars

(* Every waiter gets an answer, a service or a timeout.                    *)
WaitersSettle ==
  /\ \A w \in Waiter : waiting[w] = "pending" ~> waiting[w] # "pending"
  /\ \A w \in InitWaiter : initWaiting[w] = "pending" ~> initWaiting[w] # "pending"
=============================================================================
