# A TLA+ model of the service framework

The repository is a TypeScript monorepo: a dependency-injection and lifecycle
framework for XR applications, with runtime adapters for native hosts, WebXR
(three.js), Babylon.js and IWSDK, a client runtime and React bindings. This
directory holds TLA+ modules translated from its source, TLC configurations that
check them on small instances, and TLAPS proofs that hold for every value of the
constants. `PROJECT.json` maps every definition to the lines it stands for.

## 1. The system

The program is single-threaded JavaScript. It has no data races. What makes it
hard is that almost every component calls code it does not own in the middle of
its own loops (callbacks that re-enter or throw), that session requests are
asynchronous and race timers, hosts and disposal, that async functions use after
an `await` what they read before it, and that flags are written after those
calls. The release scripts are sequential programs over files, git, npm and
GitHub, which others change at the same time.

| component | state | operations | interacts with | hard behaviour | correct when |
|---|---|---|---|---|---|
| service manager (`service-manager.ts`, `base-service.ts`) | `recordsByToken`, each record's modules, each service's flags and abort signal, the manager's flags, two sets of waiters | `initializeProfile`, `register`, `unregister`, `start`, `reset`, `dispose`, `resolve*`, `resolveAsync`, `waitUntilInitialized`, tick routing | scheduler (subscriptions), services (callbacks), telemetry | callbacks throw or re-enter; loops run over snapshots; timers race registrations | no hook runs twice, no service is forgotten, destroyed services are gone, no waiter is lost |
| scheduler (`scheduler.ts`) | handlers per channel, cached arrays, frame counters, interval and animation-frame handles | `subscribe`, `emit`, `start`, `stop`, `dispose` | manager, render loops | handlers unsubscribe, stop or dispose while being called | one frame loop at most, nothing called after disposal |
| events and snapshots (`event-service.ts`, `snapshot-service.ts`) | listener sets, the last snapshot | `on`, `once`, `emit`, `publishSnapshot` | services, React hooks | nested emission | once means once; subscribers end on the latest snapshot |
| fallback abort controller (`abort-controller.ts`) | aborted flag, reason, listeners | `abort`, `dispatchAbort` | manager | a listener that throws | every listener is told once |
| capabilities, session init, environment | none | pure functions | adapters, manager | merging of feature lists | agree with their definitions |
| adapter contract (`runtime-adapter.ts`, `contract-cases.ts`) | session state, mode, focus, visibility, capabilities | `session.request`, `session.end`, subscriptions | all adapters | the promise the four adapters make | a request always resolves, with the outcome that happened |
| mock adapter | contract state, timers, the pending request | `simulate*`, `requestSession` | tests | old timers | as the contract |
| native adapter (`native-runtime-adapter.ts`, `native-host.ts`) | pending request, requesting flag, timer, end waiters, switch refusal, host state | `request`, `requestWithSwitch`, `end`, `dispose`, host reports | an asynchronous host | refusals, silence, concurrent requests, disposal in flight | as the contract |
| three adapter (`webxr-runtime-adapter.ts`) | bound session, state, end waiters, timers, capabilities and overrides, focus | as native, plus `tick`, `refreshCapabilities` | `navigator.xr`, the renderer's XR manager, the service manager's pause | late sessions, sessions the page opens itself, managers without events | as the contract; capabilities are of the bound session; a page in 2D is not paused |
| Babylon adapter | as three, plus the helper's last state | as three | the XR experience helper, its canvas, Babylon's own button | helpers without signals, entering that fails half-way | as three |
| IWSDK adapter and bridge | polled waits, bound session | as native, plus the bridge system's `update` | the IWSDK world, its ECS frame | polling races the session and its timeout | as the contract |
| render loop bridges of three and Babylon | bound loop, last timestamp | `start`, `stop`, the frame | the engine's loop, the adapter's own binding, the scheduler | two owners of one loop | deltas add up to the time that passed |
| client runtime (`service-framework-client`, its app) | conversation messages, three connection statuses, backend module, experience state, forms | `sendUserMessage`, `setConnectionState`, `HandleSubmit`, `HandleLocation` | manager, React, geolocation | overlapping messages and locations, React's double mount | nothing said is lost; statuses agree |
| React bindings | none of their own | hooks, providers | manager | React's scheduling | renders of the client's page only |
| telemetry collector (example) | ring buffer, sequence numbers, reconnect and calibration state | `log`, `flush`, `update`, backgrounding, boot, shutdown | a flaky feed, manager telemetry | overflow, failed boots, backgrounding | nothing is dropped unaccounted, gaps are explained |
| weather client (example) | status, the weather shown, an abort signal | `load`, `destroy` | geolocation, `fetch` | disposal between awaits | nothing is shown after disposal |
| release scripts (`release.mjs`, `set-version.mjs`, `rc-dependencies.mjs`) | the checkout, stamps, branch, pull request, tags | `prepare` | the developer, GitHub, npm, the publish workflow | a step fails, the checkout changes while a question waits | what is pushed is a whole, gated release |
| package checks (`verify-pack.mjs`, `import-surface.mjs`, `smoke-deploy.mjs`) | copies, tarballs, findings; the cache of surfaces; attempts | one run each | npm, a browser | a run killed half-way, cyclic re-exports, retries | a pass is earned |

`PROJECT.json` lists under `hazards` what in this code a test would hardly reach,
each at its line, with the properties that cover it or the reason none does.

## 2. Plan

In order, the most important behaviour first. Proved modules declare no RECURSIVE
operator and take their parameters as constants with named assumptions.

1. `ServiceManager`, `ServiceManagerProofs`, `ServiceManagerSafetyProofs`: the
   registry and lifecycle router with re-entrancy and exceptions. Done.
2. `SessionContract`: what an adapter promises about a session, from
   `runtime-adapter.ts` and `contract-cases.ts`; `NativeAdapter` and
   `NativeAdapterProofs`: the native adapter over an asynchronous host, shown to
   implement it where it does. Done.
3. `Scheduler` and `SchedulerProofs`: emission with handlers that re-enter, and
   `TimerScheduler`'s loops. Done.
4. `AdapterState`, `WebXRAdapter`, `BabylonAdapter`, `IWSDKAdapter`,
   `MockAdapter`, shown to implement `SessionContract` in calm use, with
   `AdapterProofs` and `AdapterContractProofs`; `RenderLoopBridge`. Done.
5. `PublicationState`, `Publication` and `ApplicationProofs`: events, snapshots
   and the abort fallback. Done.
6. `ClientRuntime`, `TelemetryGateway`, `WeatherClient`: the applications, in
   `ApplicationProofs` too. Done.
7. `ReleaseState`, `Release`, `VerifyPackState`, `VerifyPack`,
   `SmokeDeployState`, `SmokeDeploy`, `ImportSurface`: the scripts; `ScriptProofs`,
   about all but the last. Done.
8. Open: composition of the manager's subscriptions with the scheduler, and of
   the client with the manager; `decodeUtf8`, capabilities and session init as
   functions against a reference definition.

Worth proving next: `DependenciesInitializeFirst` where an `initialize()` calls
`dispose()` or `initializeProfile()`, which `manager_order` allows and the theorem
does not.

## 3. The modules and the code

### ServiceManager

`ServiceManager` stands for `service-manager.ts` and the lifecycle half of
`base-service.ts`. Instances are numbers, in the order their constructors were
entered; `records` is what `recordsByToken` holds, `place` what fixes the order
its buckets and the priority sort give. The four flags of a `BaseService` and the
three of the manager are sets and Booleans of the same names.

JavaScript runs one call at a time, and what makes this code hard is that it
calls user code half-way through its own loops. The call stack is therefore part
of the state: `stack` is a sequence of frames, the running one at its head. A
"user" frame is user code (a constructor, `initialize`, `start`, `update`,
`reset`, `destroy`) about to call the manager, return or throw; every other frame
is the rest of one of the manager's loops, with what it has not yet visited
(`profile`, `modules`, `walk`, `hook`, `hookModules`, `forEach`, `disposeAll`,
...). A loop over a snapshot carries the snapshot; a loop over a live array
carries an index. `UserThrows` drops to the user code that made the call, or to
the event loop, which is what an uncaught exception does.

| code | model |
|---|---|
| `initializeProfile` (133) | `InitializeProfile`, `ProfileNext`, `ProfileDone` |
| `register`, `createRecord`, `addRecord`, `createModules` | `Register`, `Construct`, `ConstructReturns`, `ModulesNext`, `ModulesDone` |
| `initializeRecord`, `startRecord` (435-483) | `WalkNext`, `StartIfStartedNext`, `HookNext`, `HookModulesNext`, `InitializeReturns`, `StartReturns` |
| `start`, ticks, `reset`, pause and focus (`forEachRecord`) | `Start`, `Tick`, `Reset`, `ForEachNext` |
| `unregister`, `disposeRecord`, `dispose` | `Unregister`, `Dispose`, `DisposeAllNext`, `DisposeNext`, `DisposeModulesNext`, `DestroyNext`, `DestroyReturns` |
| `resolveAsync`, `waitUntilInitialized` and their timers | `ResolveAsync`, `ResolveTimeout`, `WaitUntilInitialized`, `InitializationTimeout` |

`resolve`, `tryResolve`, `resolveAll`, `getDiagnostics` and `getDependencyGraph`
read and do not write: they are not actions. A call that throws before it has
changed anything (a circular dependency, a duplicate, a missing dependency, a
disposed manager) is a call that is not made. Telemetry is kept only as
`reported`, the records about each instance. A module has no modules of its own.

### SessionContract and NativeAdapter

`SessionContract` is the abstract specification of `SessionFacet`: the state, the
mode and the outcomes of `request()` and `end()`, nothing of how they come about.
It comes from the comments of `runtime-adapter.ts` and the cases every adapter's
tests run (`contract-cases.ts`). A host may take its session away at any time,
also while it is asked for another: the contract lets a request fail then without
a session, and one that failed takes no live session with it.

`NativeAdapter` stands for `native-runtime-adapter.ts`. The host is not part of
the repository; it is modelled from `native-host.ts` and from how the adapter
uses it, and is mapped as external: it begins, changes and ends sessions, answers
requests and ends late, refuses them, or stays silent, and never says which
request it answers. A request runs to its first `await`; what follows an `end()`
is an element of `jobs` that `SwitchContinues` runs, before the next task when
`JobsFirst` (microtasks) or some tasks later when not (Hermes without microtasks,
where promises are built on `setImmediate`). `handleSessionChange` notifies its
listeners in the middle: `HandleSessionChange` is the part before,
`FinishSessionChange` the part after, and `handling` holds the calls in between,
during which listeners may call the adapter and, if the host answers at once,
be entered again.

### Scheduler

`Scheduler` stands for `scheduler.ts`: `ManualScheduler`'s channels with their
cached arrays, and `TimerScheduler`'s intervals and animation frames. `stack` is
as in the manager, innermost last. The three intervals are made and cleared
together and are one number; handles are identities that are used again once
nothing holds them. `start`, the frame step and `dispose` go on after their
handlers whatever those did: that remainder is an entry ("arm", "requeue",
"clear"). Timestamps, deltas and frame counters are left out.

### The adapters of the browser engines and the mock

`AdapterState` holds what the four have in common: the state, the calls in
flight and what all of them should keep to. A call is an async function; `phase`
says which `await` it is at. A phase of `Jobs` is a continuation that is due, and
nothing else happens while there is one, as microtasks run before the next task.
`offers` says what the host can do (enter, leave, raise events, drive frames), so
that every degraded host of the code's guards is an initial state. `calm` marks
the uses in which one call is made at a time of a host that does as it is asked:
for those each adapter implements `SessionContract` (`ImplementsContract`); the
other properties hold of calm and of any other use.

| code | model |
|---|---|
| `webxr-runtime-adapter.ts`: `requestSession`, `openSession`, `endSession`, `handleSessionStart/End` | `WebXRAdapter`: `RequestSameMode`, `RequestWithSwitch`, `RequestFresh`, `SwitchContinues`, `RequestTimeout`; `HostSupports`, `HostOpens`, `SessionIsSet`, `HostFails` are the three awaits of `openSession`; `EndSession`, `EndSettles`; `ManagerStarts`, `PageOpens`, `SessionEnds` |
| its `tick`, `start`, `stop`, capability calls and `dispose` | `Tick`, `StartLoop`, `StopLoop`, `RefreshCapabilities`, `SetCapabilities`, `ClearCapabilityOverrides`, `Dispose` |
| `babylon-runtime-adapter.ts` | `BabylonAdapter`: the same, over the helper's states (`xrState`) and its `enterXRAsync`/`exitXRAsync` |
| `iwsdk-adapter.ts`, the bridge system | `IWSDKAdapter`: waits polled from `Update`, with `TimesOut` |
| `mock-runtime-adapter.ts` | `MockAdapter`: requests, their timers, simulated starts and ends |
| `three-render-loop-bridge.ts`, `babylon-render-loop-bridge.ts` | `RenderLoopBridge`, with the engine's callbacks and another owner of the loop |

Sessions, `navigator.xr`, the renderer, the helper and the IWSDK world are not
part of the repository and are mapped as external, from what the adapters use of
them.

### Publication

Events, snapshots and the abort fallback are one machine: `service` says which of
the three it is, and with it how its loop goes over its listeners (over a copy,
over the live set, over a copy and once only). `stack` is the emissions in
progress; listeners subscribe, unsubscribe, emit again, return or throw.

### The applications

`ClientRuntime` has the chat client: services of the conversation, the backends and
the experience, and of the app that renders them its forms and effects. `phase` is again what each send and
each location request awaits. `TelemetryGateway` has the telemetry example with
its ring buffer, gateway and calibration services and `main.ts`: boots that fail,
a feed that drops and reconnects, backgrounding and shutdown. Its records are a sequence number, a name,
a device and the poll of the payload, and its ring is an array of them with head, tail and
size as in `collector.ts`; the two reasons of a `device_disconnected` are two names.
`RecordedAway` reads from the records in the sink and the ring at which polls a device was
away, and `GapsAreExplained` compares that with the samples, in both directions. `WeatherClient` has the weather example's one request through
position, response and body, aborted between any two.

The modules named `...State` (of `Publication`, `ClientRuntime`, `WeatherClient`,
`TelemetryGateway`, `RenderLoopBridge` and the scripts) declare the variables of their machines and
state the properties of them, for the modules that run them and the modules that
prove them to share.

### The scripts

`Release` is `release.mjs prepare` with the scripts it runs, one action per step
that can fail, beside the developer who edits while the question is on the screen,
`GitHub`'s merges, the publish workflow and sibling packages that release.
`VerifyPack`, `ImportSurface` and `SmokeDeploy` are one script each. Versions are
small numbers and file contents are editions.

### The MC modules

`MCServiceManager`, `MCNativeAdapter` and `MCScheduler` instantiate one
specification. `MCAdapters`, `MCApplications` and `MCScripts` hold several that do
not interact and run one at a time: `which` is chosen initially, the others'
variables stay at one initial state. That is a disjoint union of state spaces,
not a composition.

## 4. Runs

Each mutant in `PROJECT.json` replaces one definition by the form a plausible bug
would give it; the property then fails under its run's own configuration.

| run | question | answer |
|---|---|---|
| `manager_throws` | What if any callback throws, anywhere? | Destroyed services are out of the registry and aborted, names stay unique, every failure is reported, modules are destroyed before parents. |
| `manager_reentrant` | What if any callback but a constructor calls the manager back, short of an `initialize()` that starts the profile again? | Neither `initialize()` nor `start()` runs twice, nobody is left uninitialized or unstarted, an uninterrupted `dispose()` destroys every instance, modules follow their parents. |
| `manager_order` | Do dependencies initialize first, when `initialize()` neither registers, unregisters nor starts? | Yes, and nothing starts uninitialized. |
| `manager_waiters` | Do waiters lose a registration, or wait for ever? | Neither. |
| `native_anything` | Two requests and an end, with listeners that call back, every kind of host state, late jobs, disposal. | No promise is forgotten, and ok is the truth. |
| `native_serial` | One request at a time, every kind of host state, a host that answers `endSession` in the end. | The adapter implements `SessionContract`, state and capabilities agree, every request settles. |
| `scheduler_loops` | Handlers that do anything, while nobody starts or stops inside a frame or stops from startup. | One loop, which is cancellable; the cache is current; stopping silences. |
| `adapters` | Two requests and an end of the three, Babylon, IWSDK and mock adapters, over hosts with every combination of abilities, answers that come late, sessions the page opens and ends, disposal. | Calm use implements `SessionContract`. In any use capabilities are of the bound session, a 2D page is not paused, no timer outlives its call, no `end()` of three or IWSDK is forgotten, and every call of three, IWSDK and the mock is answered. |
| `applications` | Everything of section 3 below the adapters, one at a time. | Conversations keep every message and the statuses agree when all is quiet; records are in the sink, in the ring or counted; a sample is a gap just where the records have the device away; nothing is shown after disposal; deltas add up; subscribers end on the latest snapshot and once handlers are not re-entered; what is pushed is a whole release of what the gate saw; the checks pass only what earned it. |
| `native_stale_timer` | Comment: `immersive` and the state must agree. | Violated when two switches overlap: the first one's timer takes the second one's state. |
| `scheduler_restart` | Contract case: one renderTick per frame. | Violated after a stop and start from inside a frame. |
| `babylon_end_hangs` | Comment: the fallback keeps `end()` from waiting for ever. | Violated: when a request's timer has set the state to none meanwhile, `handleSessionEnd` returns before it settles its waiters. |

### What the code tolerates of its callers

The manager's re-entrancy runs leave out exactly the calls that break a property.
A constructor that registers or initializes can break `UniqueNames`; one that
disposes or registers, `DisposeIsComplete`; one that unregisters,
`ModulesFollowParent`. An `initialize()` that registers breaks
`DependenciesInitializeFirst`, and so does one that unregisters: the loop over
`serviceModules` is live, skips a module and initializes the sibling that depends
on it. One that starts the manager breaks `InitializeBeforeStart`. One that calls
`initializeProfile` again breaks `NobodyLeftBehind`: the inner call sets
`initialized`, the manager may then start, and what the outer loop creates
afterwards is initialized and never started. Every other pair of callback and
operation was checked and keeps every property at the depth below.

`dispose()` called from inside `initializeProfile` is complete when it returns, but
the profile then goes on creating services on a disposed manager, and nobody
destroys those; `DisposeIsComplete` therefore speaks of the moment `dispose()` has
been through the registry.

Exceptions are checked without re-entrancy. With both, a `start()` that throws
under another's nested loop may be called again by the registration that loop
interrupted (`CalledOnce`): the flag is set after the call, and the failed call has
left none.

The contract is not kept by the native adapter in some conditions the run
excludes: a listener that ends the session on a host that answers within the call
(`Nested`), overlapping requests (`Concurrent`), disposal in flight, and
continuations that run some tasks late (`JobsFirst` false).

### Disagreements not given a run

`Logging-and-Telemetry.md` says that no `service_started` means nothing ever ran
(50); ticks reach services before `start()`, and a service whose `register()`
failed stays registered, is started by a later `start()` and reported so. It lists
`service_initialized` for a service that initialised (39); a module that does is
not reported. It lists `service_disposed` for a service that was destroyed (42);
the record is written before `destroy()`, which may throw.
The telemetry example says that a host which stops ticking leaves a gap like that of a
network drop (`README.md:30`, `services.ts:72-76`, `main.ts:191-192`), and that every strip gaps
at once (`README.md:42`). `update` is the only thing that pushes a sample, and it is not called:
the strips stand still, and the samples before and after the pause are next to each other.
`GapsAreExplained` therefore knows no cause of a gap but a disconnection.
`Web-Implementation-and-Usage.md` has a module follow its parent's lifecycle
(203); a module whose later sibling's constructor throws is left behind.

`packages/service-framework/README.md:14` calls start and stop dependency-ordered;
their order is priority alone. `framework.test.ts:351-352` expects a destroyed
service not to be registered; one that unregisters itself in `initialize()` is both.
`packages/service-framework-native/README.md:57` promises a timeout after ten
seconds of silence; a switch waits for its `end()` without a timer.

The documentation of the mock's `getMode()` says null without a request; a session
simulated with nobody asking reports the mode of the one before. Handshake attempts
of the smoke test are said to have a budget of their own (`smoke-deploy.mjs:27-31`);
they count against the retries of the first error that follows (134). `prepare`
says that answering no leaves the tree as it was (`release.mjs:28-30`); what it had
stamped stays unless the developer discards it.

What the adapters do outside calm use, and no document forbids:

- three: a session that fails to be set stays live with nobody bound to it; a
  request that is pending at `dispose()` may still open one; disposing while the
  page is paused leaves it paused; adapter and render loop bridge share the one
  slot of `setAnimationLoop`.
- Babylon: between the session's init and the end of entering, `end()` exits
  nothing and reports none.
- IWSDK: `end()` gives up after ten seconds and reports none under a live session.
- All: a request that fails or times out sets the state to none, also under a
  session that went live since.

What the applications do: the composer is cleared after the answer, with what was
typed since (`App.tsx:142`), and an old location error stays after a success;
under StrictMode the second mount may render a runtime that was disposed of;
`shutdown()` unbinds the collector before it disposes of the manager, so the last
records stay in the ring. A `once` handler may run a second time when an earlier
listener emits the same event, and a listener that throws leaves the later ones
untold. In the scripts, `verify-pack` stages its copies before the `try` that would
remove them, a page may fail the smoke test for an attempt that was retried, and
in a cycle of re-exports a sound import may be reported.

## 5. Bounds

| bound | value | why it is enough |
|---|---|---|
| services | `a` with module `m` and filtered module `n`; `b` and the filtered `d`; `c` late, on `a`'s token, depending on `b` | a dependency in each direction of the priority order, a shared token, a filtered service and module, a late registration |
| services of `manager_reentrant` | `b` and `c` depend on nobody | an application may go on creating services after its first is gone |
| services of `manager_order` | `n` is activated, and depends on `m` | siblings that depend on each other |
| `MaxInstances` | 4; 5 in `manager_order` | the whole profile and `c`, or one service unregistered and registered again |
| `MaxDepth` | 1 | one call from inside a callback of another; the loops overlap in pairs |
| requests, ends | 2 and 1 overlapping; 3 and 1 serial | two switches in flight, or a session, a switch and a request after it |
| `HostState` | every kind of `native-host.ts` | live states differ only in focus |
| `MaxFrames` | 1 | frames change focus and a counter |
| `Override` | none or `{TRUE}` | a forced capability is seen or not |
| `Handler` | two of a timed channel, one of startup, renderTick, dispose | one handler removed by another of its channel |
| `MaxLoops` | 2 | a second loop is already the error |
| `Channel` | one interval channel of three | the three fire alike |
| adapters: `Requests`, `Ends`, `Modes` | two requests for two modes, one end | a switch, an end beside a request, two requests in flight |
| adapters: `Bound` | hosts with a frame loop: one request, no forced capability; the others: no visibility change | focus follows frames, and nothing reads both focus and the second request or the overrides |
| client: sends, locations, `MaxFrame` | 2, 2, 1 | overlap is of pairs |
| telemetry: ring, batches, `MaxSeq`, `MaxPoll` | 3, {2, 4}, 11, 6 | a batch that fits the ring and one that does not; the ring is overwritten several times; a device is lost, comes back and is lost again |
| telemetry: periods | flush 3, poll 2, reconnect 2, window 3, summary 2 | no two in step |
| weather: `MaxRequest` | 3 | a retry after a failure and after a success |
| bridges: `Gap`, `MaxClock` | {1, 5}, 20 | a frame shorter and one longer than the others |
| publication: listeners, `MaxTold`, `MaxPlace`, `MaxDepth` | 3, one of them once, 3, 3, 1 | a listener before, at and after the one that re-enters |
| release: stamps, sources, versions, `MaxLatest` | 2 manifests, 1 edit, 2, 3 | a step half done; a release after an abandoned one; a sibling that moves before and after the recheck |
| pack: packages, examinations, editions | 2, 3, 2 | one package with a file of its own, a stale copy |
| surface: files, imports | 3 and 3 kinds | a cycle of re-exports and a file outside it |
| smoke: pages, retries, TLS wait and pause, `Lasts` | 2, 3, 6, 2, {1, 2} | both budgets run out, in either order |

No run uses symmetry: services, handlers and requests differ in their tables.

## 6. Fairness

`ServiceManager!FairSpec`: callbacks end and the manager's loops go on (weak
fairness of `Advance`); timers fire, strong because a timer fires only between
calls and a busy program may go in and out of them for ever. Nothing is assumed of the
application's calls. `NativeAdapter!EngineFairness`: promise jobs run, listeners
return, timers fire. Nothing is assumed of the host, and a switch on a silent host
waits for ever; `ObligingSpec` adds that a host asked to end its session does or
refuses, and that a stopping session stops. No fairness is assumed of the scheduler: its properties are about safety. `MCAdapters!FairSpec`
assumes that timers run out (`TimesOut`), and that continuations run and the
promise of a session's end settles (`Due`), which the platform guarantees. Nothing
is assumed of sessions, of the answer to a request or of the application.
`CallsAreAnswered` is stated for uses that are not calm, in which timers exist; of
the Babylon adapter it does not hold, which is what `babylon_end_hangs` shows. No
fairness is assumed of the applications and scripts.

## 7. Proofs

| theorem | what it needs |
|---|---|
| `ServiceManagerProofs!TypeCorrect` | `TypeInv`: `TypeOK`, and `Bounded`, that frames and records name instances that exist. `TypeOK` alone is not inductive: a frame naming an instance nobody created would index `record` outside its domain. |
| `ServiceManagerProofs!NoWakeupIsLost` | `NoLostWakeup` is inductive with the types: `addRecord` is the one step that adds to `records`, and it empties the waiters it satisfies. |
| `ServiceManagerProofs!DestroyedStaysGone` | `DestroyInv`. An instance is added to the registry when its constructor returns and its flag is set when `destroy()` returns, and in between anything may be called; so the invariant says of every frame of the stack that an instance under construction is neither registered nor destroyed, that no two constructors build the same one, that one being destroyed is known, and that one whose `destroy()` runs has been aborted (`StackKnows`). The `Shift` lemmas carry that through pushes, returns and throws. |
| `ServiceManagerProofs!NamesAreUnique` | `NamesInv`: when the running code is a constructor, nothing registered has the token and name of what it builds, and no frame below it is a constructor (`OneConstructor`). Assumes `ConstructorsDoNotReenter`; a constructor that registers its own name gets two records. |
| `ServiceManagerSafetyProofs!FailuresReported` | `FailuresInv`: a call that was entered has returned, is reported or is on the stack (`Accounted`), and under it there is the loop of its own record or its parent's, whose catch block reports it (`Backed`). An exception stops at the first user code, so it drops no call but its own. No assumption. |
| `ServiceManagerSafetyProofs!HooksAreCalledOnce` | `OnceInv`: under a running `initialize()` or `start()` nothing leads to that hook of the same or an older instance (`Nests`), and loops that start services run only once the manager has started (`StartFrames`), so that what a loop finds unflagged is not running. Assumes that neither hook throws; see section 4. |
| `ServiceManagerSafetyProofs!ModulesGoFirst` | `ModulesInv`, about the frames of a disposal: above the frame that will destroy an instance lies the loop over its modules and above that the disposal of one of them, and the modules still registered are that one and what the loop has left (`ModulesGone`); instances on the stack nest by age, so nothing makes modules for one that is being destroyed (`Younger`), and one under construction is in no list (`Unlisted`). Uses `NamesInv`, since `disposeRecord` finds a record by token and name; assumes `ConstructorsDoNotReenter`. |
| `ServiceManagerSafetyProofs!ModulesFollow` | `FollowInv`: between its constructor and the end of the loop that activates it a module is in its parent's instance but not yet in its parent's record, and then that loop is on the stack (`Follows`), with nothing above it but the constructor of one of its modules (`Making`, `Sited`). Uses `NamesInv` and `ModulesInv`: the parent leaves the registry last. Assumes `ConstructorsDoNotReenter`. |
| `ServiceManagerSafetyProofs!NobodyIsLeftBehind` | `BehindInv`, about what the stack still owes: every registered service has the flag of a hook, or a frame owes it the call, which may be the call itself, the walk of its record or of its parent's, the profile, the loop of `start()`, or the look at `started` that ends a `register()` (`Due`, `Owes`). What is still being made is owed the same in advance by the loops under its constructor (`Promised`), and a walk finds a module because the loop that lists it is over by then (`FollowInv`). Assumes `ConstructorsDoNotReenter`, and `OneProfile`, that no callback calls `initializeProfile`: a profile that runs to its end inside another sets `initialized`, a `start()` may follow, and nothing starts what the outer profile still brings (`ProfileAlone`). |
| `ServiceManagerSafetyProofs!DisposalIsComplete` | `EndInv`: while the loop of `dispose()` runs, the registry holds what the loop has left and the instance it is at, and nothing above the loop makes services (`Ending`); and every instance is registered, destroyed or under construction (`AllKnown`). Assumes `ConstructorsDoNotReenter`. |
| `ServiceManagerSafetyProofs!InitializedFirst`, `InitializedFirstInCalm` | `FirstInv`: what a frame starts or may start is initialized (`Begun`), and what the end of a `register()` will start is initialized or owed its `initialize()` by a frame above (`Awaited`). The loop of `start()` finds everything initialized because an activation keeps running code on top of it until it ends (`Linked`), so that when no `initialize()` runs no activation is left and nothing is owed (`DueInv`, the half of `BehindInv` that needs no `OneProfile`); what a started instance lists does not grow, because a loop that makes modules lies on the walk that will initialize their parent (`Flat`), and no list holds what was destroyed (`Ordered`). Assumes `ConstructorsDoNotReenter`, and that `start()` is not called while an `initialize()` runs: as a property of the behaviour in the first theorem, of the configuration in the second (`CallsAreCalm`), whose hypotheses the configuration of `manager_order` satisfies. |
| `ServiceManagerSafetyProofs!DependenciesFirst`, `DependenciesFirstInCalm` | `InitInv`, about how far the loops that initialize have got. When a registration is made by anyone but an `initialize()`, nothing is owed to what it finds in the registry; only a module can be given what is not initialized yet, its parent and its elder siblings (`Based`). One walk at a time is on the stack, over nothing of another activation (`Alone`), the loops above it are about the record it is at (`Within`), they have initialized the modules before their index (`Progress`), in the order these were made (`Ordered`), and what the walk has passed is owed nothing any more (`DueInv`). Nothing of the tree is destroyed meanwhile, and its lists keep their entries at their index (`Intact`), since no loop that creates or destroys lies above an `initialize()` (`Unmeddled`). Assumes `ConstructorsDoNotReenter`, and that none of `initializeProfile`, `register`, `unregister` and `dispose` is called while an `initialize()` runs: as a property of the behaviour in the first theorem, of the configuration in the second. A configuration in which `initialize()` registers or unregisters breaks the property. With the other two TLC finds it kept (`manager_order`), and nothing is proved. |
| `NativeAdapterProofs!TypeCorrect`, `NoPromiseIsForgotten` | Each step that takes a request from the timers, waiters or jobs settles it or puts it in another. |
| `NativeAdapterProofs!StateAndCapabilitiesAgree` | `Serial`: at most one call of the application is in flight (`OneAtATime`), a notification is finished before anything else happens (`Unbroken`), and state, host state and pending request say the same of it (`Asked`, `Shown`, `Told`). Assumes `Serially`: no overlapping requests, no nested answers, no disposal, continuations before the next task. `native_stale_timer` shows what happens otherwise. |
| `NativeAdapterProofs!NativeKeepsTheContract` | `Serial`, and that what the host ends it was asked to end or ended itself (`EndsWereAsked`): each step of the adapter is a step of `SessionContract` or leaves its variables alone. Assumes `Serially`. |
| `NativeAdapterProofs!OkIsTheTruth` | `PendingModeInv`: `pendingMode` is the mode of whichever request is pending, also after an overwrite. |
| `SchedulerProofs!TypeCorrect`, `CacheIsNeverStale` | Inductive with the types. |
| `SchedulerProofs!StoppedMeansSilent` | `SilentInv`, if no startup handler stops the scheduler: at most one `start()` is in progress, while it is there is no interval, and otherwise the only interval is the one in `handle`. Of frames it says nothing: a `stop()` from inside one leaves the frame `step` requests. |
| `SchedulerProofs!OneLoopAtATime` | `LoopInv`, with cancellation and without control from inside frames or startup: of the queue, the due frames, a `start()` and a frame in progress at most one holds a request, it is the one in `renderHandle`, and a stopped scheduler has none. |
| `SchedulerProofs!RunningMeansDriven` | `DrivenInv`, under the same hypotheses: unless a handler threw, a running scheduler has the intervals in `handle` and either the frame in `renderHandle`, a frame in progress that will request the next, or a `start()` that has not got there. |
| `AdapterProofs!CapabilitiesAreOfTheSession`, `TimersAreOfCalls`, `EndsSettleWithTheHost`, `PagesResume` | `IInv`, for all four adapters: a timer's request is being opened and has no outcome (`TimersRun`), or its wait has one caller (`WaitsAreTimed`, `RequestsAreTimed`); whoever waits for an end of the three.js adapter waits while a session is bound (`WaitersWait`), so that `handleSessionEnd`, which returns early only when none is, reaches everybody: the step the Babylon adapter lacks; a paused page is bound to a session (`PausesEnd`). Assumes `Distinct`: calls, sessions and their absence differ. |
| `AdapterContractProofs!AdaptersKeepTheContract` | `Calm`: while use is calm at most one call is in flight, and its phase says what session, host and outcome are by now. From it every step of every adapter is a step of `SessionContract` or a stutter. Assumes `Distinct` and that a request's mode is not `None` (`ModesAreSome`). |
| `ApplicationProofs!EverybodyIsTold` | Unless a listener threw, a subscriber that was not told the current snapshot still has a loop on the stack before it (`NobodyForgotten`); when the stack is empty there is none. Needs that no two subscribers share a place (`PlacesDiffer`). Assumes `MaxPlace \in Nat`. |
| `ApplicationProofs!OnceMeansOnce` | `OnceInv`: while a `once()` handler runs its wrapper has left the Set, and no frame above it is a call of it or a loop with it in its array. An array is taken from the Set, and a wrapper that was told is not registered again. Assumes that the listeners are finite in number. |
| `ApplicationProofs!TimeAddsUp` | `Drawn`: the bridge has a timestamp exactly from its first frame on, so that `Delta` takes only that frame for a first one. Assumes that frames are whole milliseconds apart (`Gap`). |
| `ApplicationProofs!DisposedShowsNothing` | `Heard`: an aborted signal leaves no fetch and no body in flight, so `Succeeds` has nothing to succeed with. An action property. |
| `ApplicationProofs!NothingSaidIsLost`, `ServicesAgree` | `ClientInv`: at most one settled promise waits to be resumed from, and until then the backend's snapshot is of that one (`OneJob`); messages are only appended to, by a send that has asked. |
| `ApplicationProofs!RecordsAddUp` | `Sound`, of the collector as a value: the tail is as many places after the head as there are records, the ring holds the newest and the sink older ones. Every `log` and `flush` keeps it (`Grows`), and a poll is a recursive function over the devices, so by induction on how many were polled (`NatInduct`, `PolledKeeps`) the frame does. Assumes that the ring has room for a record (`QueueHasRoom`) and that the devices come in an order (`DevicesInOrder`). |
| `ApplicationProofs!GapsHaveReasons` | `GatewayInv`: `Sound`, and, unless a record was dropped, `Reflects` for every device: its samples are gaps where the records have it away, and the records have it away at the next poll (`Upcoming`) just when it is not connected. The second half is what makes the next sample fit. A `log` or a `flush` of something else leaves what the records tell of a device alone (`TellsSame`); one record of a disconnection adds every later poll, one of a connection takes them back (`OneMore`, `MoreTells`). In a poll the devices already polled reflect the next poll (`NowReflects`) and the others this one, by induction on how many were polled. The same assumptions, of which `DevicesInOrder` also says that no device is polled twice. |
| `ScriptProofs!ReleasesAreWhole` | `RelInv`: what `prepare` has done by each of its steps (`Prepared`); what is on origin and in an open pull request is of the version being released or older, and no older `prepare` that was stopped left anything newer (`Ordered`). Assumes `SomeStamps`, that there is a package. |
| `ScriptProofs!GatedSourcesAreReleased` | `RelInv` too: the sources the gate passed on are those of the working tree until the branch is cut, then of the local branch, then of origin's (`Passed`). |
| `ScriptProofs!PassingIsWhole` | `Whole`: the run knows which copies it made (`StagedByRun`), and packs only when every copy is in place (`PackedWithFile`). |
| `ScriptProofs!NoUnearnedPass` | `Earned`: what is broken has been noted from the step it was seen. |

The theorems hold for every number of services, requests and handlers, every
dependency and priority table, and every pattern of re-entrancy and exceptions,
constructors included, except where a row names an assumption. They are theorems
of the same specifications TLC runs; those of the adapters are of `Adapters`,
which is the runs' specification without its bound (`AdapterProofs!BoundedUse`).

Only model-checked: liveness (`WaitersSettle`, `EveryRequestSettles`,
`CallsAreAnswered`: fairness is out of the prover's reach), and of the scripts
`NothingSlipsThrough` (`ImportSurface` searches with `RECURSIVE` operators, which
the prover does not take). The type invariants of the adapters, applications and
scripts are neither: TLC checks the properties above instead.

## 8. Not modelled

- Time: a timer is something that may fire; the scheduler's deltas, tick counters
  and their boundaries are left out. The bridges, the telemetry example and the
  smoke test count time, since their properties are about it.
- `host-io.ts` (`decodeUtf8`, lazy file bindings): a decoding of bytes and a
  memoised lookup, without state.
- Capabilities, session init, environment: pure functions between records of
  flags. The adapters have one capability, `immersive`, and its override.
- Telemetry and configuration types; the wording of records.
- Poses, input sources, reference spaces, recentring, blend modes: data the
  adapters hand on.
- The IWSDK bootstrap, feature lists and host interface: wiring done once.
- The mock's frames, pauses and capability setters: they hand on what a test gives.
- React: `service-framework-react` creates its manager in `useMemo` and never
  disposes of it; how many there are is React's scheduling.
- `release.mjs --version` and `status`, `rc-dependencies` as CI runs it, the
  resolution of export maps and the compiler's options in `verify-pack`.
- In `ServiceManager`: abort listeners, which run inside `abort()` just before
  `destroy()`; the circular dependency of a module, and an `enabledWhen` that changes
  its answer.
- In the adapters: an `exitXR` of the IWSDK world that throws, which leaves the state
  `ending` (`iwsdk-adapter.ts:411-413`). A WebXR `setSession` that has announced the
  session is assumed not to fail afterwards.
- In `Publication`: a Set whose last subscribers went and came back within one loop
  (places are used again), and a `once()` listener registered anew beside its old
  wrapper.
- In `TelemetryGateway`: the records of a boot are one, added without the check of the
  batch; a sink that throws loses its batch, so `written` is what the sinks were handed.
- In `VerifyPack` and `ImportSurface`: diagnostics in TypeScript's own library; the
  list of allowed modules, the one report for each undeclared package, default,
  namespace and side-effect imports, and files that export nothing.
- The device harness, tests, build configuration and the markup of the examples.
