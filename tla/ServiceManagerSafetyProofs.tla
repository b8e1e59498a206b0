--------------------- MODULE ServiceManagerSafetyProofs ---------------------
(***************************************************************************)
(* Safety properties of ServiceManager that depend on what the loops on    *)
(* its stack have done and still have to do, for every configuration:      *)
(* failures are reported, initialize() and start() are called once,        *)
(* modules are destroyed before their parent and with it, nobody is left   *)
(* behind by a loop, dispose() leaves nothing, what is started was         *)
(* initialized, and what is initialized finds its dependencies so.  Where  *)
(* a theorem has a hypothesis, a configuration without it breaks the       *)
(* property; DependenciesFirst alone may ask more than that, where it      *)
(* leaves out dispose() and initializeProfile() called by an initialize(). *)
(***************************************************************************)
EXTENDS ServiceManagerProofs

-----------------------------------------------------------------------------
(* Failures are reported.                                                  *)
(*                                                                         *)
(* A call of initialize() or start() that has been entered has returned,   *)
(* is reported as failed, or is still on the stack; and what lies under it *)
(* there is the loop of its own record or of its parent's, whose catch     *)
(* block would report it.  No exception passes user code without stopping  *)
(* there, so no such call is dropped by an exception that is not its own.  *)

Calling(f, h, i) == f.t = "user" /\ f.hook = h /\ f.inst = i

Running(h, i) == \E b \in 1 .. Len(stack) : Calling(Level(stack, b), h, i)

ReportedFor(i) == \E j \in {i, record[i].parent} \cap Inst : "service_failed" \in reported[j]

Backed ==
  \A b \in 1 .. Len(stack) :
    CountedUser(Level(stack, b)) =>
      /\ b > 1
      /\ Level(stack, b - 1).t = "hookModules"
      /\ Level(stack, b - 1).inst \in {Level(stack, b).inst, record[Level(stack, b).inst].parent}

Accounted ==
  \A i \in Inst, h \in Counted :
    called[i][h] > 0 =>
      /\ i \in Created
      /\ i \in Flagged(h) \/ ReportedFor(i) \/ Running(h, i)

FailuresInv == OwnModules /\ Backed /\ Accounted

(* Frames at every level have the type of the stack. *)
LEMMA LevelType ==
  ASSUME TypeInv, NEW b \in 1 .. Len(stack)
  PROVE  /\ Level(stack, b) \in Frames(Len(record))
         /\ Level(stack, b).t = "user" => Level(stack, b).inst \in Created
<1>1. Len(stack) + 1 - b \in 1 .. Len(stack)
  BY LenProperties DEF TypeInv, TypeOK
<1>2. Level(stack, b) \in Frames(Len(record))
  BY <1>1, ElementOfSeq DEF TypeInv, Bounded, Level
<1>3. QED BY <1>2 DEF Frames, Created

(* Instances keep their records. *)
LEMMA RecordsStay ==
  ASSUME TypeInv, TypeInv', [Next]_vars
  PROVE  /\ Created \subseteq Created'
         /\ \A i \in Created : record'[i] = record[i]
<1>1. CASE Constructs
  <2>1. \A i \in Created : record'[i] = record[i]
    BY <1>1, ConstructsKeep
  <2>2. CASE UNCHANGED <<registryVars, flagVars, managerVars, waiterVars>>
    BY <2>1, <2>2 DEF Created, registryVars
  <2>3. ASSUME NEW s \in Service, NEW p \in 0 .. Len(record), NEW c, Construct(s, p, c)
        PROVE  Created \subseteq Created'
    <3> DEFINE r == [svc |-> s, parent |-> p, deps |-> Resolved(s)]
    <3>1. record' = Append(record, r) /\ record \in Seq(Record)
      BY <2>3 DEF Construct, TypeInv, TypeOK
    <3> HIDE DEF r
    <3>2. Len(record') = Len(record) + 1 /\ Len(record) \in Nat
      BY <3>1
    <3>3. QED BY <3>2 DEF Created
  <2>4. QED BY <1>1, <2>1, <2>2, <2>3, ConstructsOne
<1>2. CASE UNCHANGED record
  BY <1>2 DEF Created
<1>3. QED
  BY <1>1, <1>2, RegistrySteps
  DEF ConstructReturns, DestroyReturns, ProfileDone, Wait, ResolveAsync, ResolveTimeout,
      WaitUntilInitialized, InitializationTimeout, registryVars

(* The code under a running initialize() or start(). *)
LEMMA BackedStep ==
  ASSUME TypeInv, TypeInv', OwnModules, Backed, [Next]_vars
  PROVE  Backed'
<1>1. ASSUME NEW b \in 1 .. Len(stack), b <= Len(stack'), Len(stack') \in Nat,
             \A c \in 1 .. b : Level(stack', c) = Level(stack, c),
             CountedUser(Level(stack', b))
      PROVE  /\ b > 1
             /\ Level(stack', b - 1).t = "hookModules"
             /\ Level(stack', b - 1).inst
                  \in {Level(stack', b).inst, record'[Level(stack', b).inst].parent}
  <2>1. b \in Nat /\ b \in 1 .. b /\ CountedUser(Level(stack, b))
    BY <1>1
  <2>2. /\ b > 1 /\ Level(stack, b - 1).t = "hookModules"
        /\ Level(stack, b - 1).inst
             \in {Level(stack, b).inst, record[Level(stack, b).inst].parent}
    BY <2>1 DEF Backed
  <2>3. Level(stack, b).inst \in Created
    BY <2>1, LevelType DEF CountedUser
  <2>4. b - 1 \in 1 .. b
    BY <2>1, <2>2
  <2>5. QED BY <1>1, <2>1, <2>2, <2>3, <2>4, RecordsStay
<1>2. CASE Breaks
  <2>1. /\ Len(stack') \in Nat /\ Len(stack') < Len(stack) /\ Len(stack) \in Nat
        /\ \A b \in 1 .. Len(stack') : Level(stack', b) = Level(stack, b)
    BY <1>2, LevelThrow, LevelPop DEF Breaks
  <2>2. ASSUME NEW b \in 1 .. Len(stack'), CountedUser(Level(stack', b))
        PROVE  /\ b > 1
               /\ Level(stack', b - 1).t = "hookModules"
               /\ Level(stack', b - 1).inst
                    \in {Level(stack', b).inst, record'[Level(stack', b).inst].parent}
    <3>1. b \in 1 .. Len(stack) /\ b <= Len(stack')
      BY <2>1
    <3>2. \A c \in 1 .. b : c \in 1 .. Len(stack')
      BY <2>1
    <3>3. QED BY <1>1, <2>1, <2>2, <3>1, <3>2
  <2>3. QED BY <2>2 DEF Backed, CountedUser
<1>3. CASE Runs /\ ~(HookNext \/ HookModulesNext)
  <2>1. PICK m : Arises(m)
    BY <1>3 DEF Runs
  <2>2. ASSUME NEW b \in 1 .. Len(stack'), CountedUser(Level(stack', b))
        PROVE  /\ b > 1
               /\ Level(stack', b - 1).t = "hookModules"
               /\ Level(stack', b - 1).inst
                    \in {Level(stack', b).inst, record'[Level(stack', b).inst].parent}
    <3>1. b <= m
      <4>1. b \in m + 1 .. Len(stack') => ~CountedUser(Level(stack', b))
        BY <1>3, <2>1 DEF Arises, Fresh
      <4>2. QED BY <2>1, <2>2, <4>1 DEF Arises
    <3>2. Len(stack) \in Nat
      BY LenProperties DEF TypeInv, TypeOK
    <3>3. b \in 1 .. Len(stack) /\ b <= Len(stack') /\ Len(stack') \in Nat
      BY <2>1, <3>1, <3>2 DEF Arises
    <3>4. \A c \in 1 .. b : c \in 1 .. m
      BY <2>1, <3>1 DEF Arises
    <3>5. QED BY <1>1, <2>1, <2>2, <3>3, <3>4 DEF Arises
  <2>3. QED BY <2>2 DEF Backed, CountedUser
<1>4. CASE HookNext \/ HookModulesNext
  <2> DEFINE i == Top.inst
             h == Top.hook
  <2>1. /\ stack # <<>> /\ i \in Created /\ i \in Inst /\ Top.n \in Nat
        /\ Top.t = "hookModules" => Top.n # 0
        /\ Len(Rest) = Len(stack) - 1 /\ Len(stack) \in Nat \ {0} /\ UNCHANGED record
    BY <1>4, TopFields, LevelPop DEF HookNext, HookModulesNext, At, registryVars
  <2>2. ASSUME NEW j, j \in Created /\ (i = j \/ i = record[j].parent), NEW n,
               stack' = <<User(h, j), RunHookModules(h, i, n)>> \o Rest
        PROVE  Backed'
    <3> DEFINE f == User(h, j)
               g == RunHookModules(h, i, n)
    <3>2. f.inst = j /\ g.t = "hookModules" /\ g.inst = i
      BY DEF User, RunHookModules, About
    <3>3. /\ Len(stack') = Len(Rest) + 2
          /\ Level(stack', Len(Rest) + 1) = g /\ Level(stack', Len(Rest) + 2) = f
          /\ \A b \in 1 .. Len(Rest) : Level(stack', b) = Level(Rest, b)
      <4> DEFINE s == <<f, g>> \o Rest
      <4>1. stack' = s
        BY <2>2
      <4> HIDE DEF f, g
      <4>2. /\ Len(s) = Len(Rest) + 2
            /\ Level(s, Len(Rest) + 1) = g /\ Level(s, Len(Rest) + 2) = f
            /\ \A b \in 1 .. Len(Rest) : Level(s, b) = Level(Rest, b)
        BY <2>1, CallOnTop
      <4> HIDE DEF s
      <4>3. QED BY <4>1, <4>2
    <3> HIDE DEF f, g
    <3>4. \A b \in 1 .. Len(Rest) : Level(stack', b) = Level(stack, b)
      BY <2>1, <3>3, LevelPop
    <3>5. ASSUME NEW b \in 1 .. Len(stack'), CountedUser(Level(stack', b))
          PROVE  /\ b > 1
                 /\ Level(stack', b - 1).t = "hookModules"
                 /\ Level(stack', b - 1).inst
                      \in {Level(stack', b).inst, record'[Level(stack', b).inst].parent}
      <4>1. CASE b = Len(Rest) + 2
        <5>1. b > 1 /\ b - 1 = Len(Rest) + 1
          BY <2>1, <4>1
        <5>2. QED BY <2>1, <2>2, <3>2, <3>3, <4>1, <5>1
      <4>2. CASE b = Len(Rest) + 1
        BY <3>2, <3>3, <3>5, <4>2 DEF CountedUser
      <4>3. CASE b \in 1 .. Len(Rest)
        <5>1. b \in 1 .. Len(stack) /\ b <= Len(stack') /\ Len(stack') \in Nat
          BY <2>1, <3>3, <4>3
        <5>2. \A c \in 1 .. b : c \in 1 .. Len(Rest)
          BY <2>1, <4>3
        <5>3. QED BY <1>1, <3>4, <3>5, <5>1, <5>2
      <4>4. b = Len(Rest) + 2 \/ b = Len(Rest) + 1 \/ b \in 1 .. Len(Rest)
        BY <2>1, <3>3
      <4>5. QED BY <4>1, <4>2, <4>3, <4>4
    <3>6. QED BY <3>5 DEF Backed, CountedUser
  <2>3. ASSUME stack' = Rest \/ \E g : ~CountedUser(g) /\ stack' = <<g>> \o Rest
        PROVE  Backed'
    <3>1. PICK g : /\ ~CountedUser(g)
                   /\ stack' = Rest \/ stack' = <<g>> \o Rest
      <4>1. ~CountedUser(DestroyOne(0))
        BY DEF CountedUser, DestroyOne, About
      <4>2. QED BY <2>3, <4>1
    <3> DEFINE S == Frame \cup {g}
    <3>2. Rest \in Seq(S) /\ g \in S
      <4>1. Rest \in Seq(Frame)
        BY <2>1, RestFrames
      <4>2. QED BY <4>1, SequencesGrow
    <3> HIDE DEF S
    <3>3. /\ Len(stack') \in {Len(Rest), Len(Rest) + 1}
          /\ Len(stack') = Len(Rest) + 1 => Level(stack', Len(Rest) + 1) = g
          /\ \A b \in 1 .. Len(Rest) : Level(stack', b) = Level(Rest, b)
      <4>1. Len(Rest) # Len(Rest) + 1
        BY <2>1
      <4>2. CASE stack' = Rest
        BY <4>1, <4>2
      <4>3. CASE stack' = <<g>> \o Rest
        <5> DEFINE q == <<g>>
        <5>1. q \in Seq(S) /\ Len(q) = 1 /\ q[1] = g
          BY <3>2
        <5> HIDE DEF q
        <5>2. /\ Len(q \o Rest) = Len(Rest) + 1 /\ Level(q \o Rest, Len(Rest) + 1) = g
              /\ \A b \in 1 .. Len(Rest) : Level(q \o Rest, b) = Level(Rest, b)
          BY <3>2, <5>1, LevelCall
        <5>3. stack' = q \o Rest
          BY <4>3 DEF q
        <5>4. QED BY <5>2, <5>3
      <4>4. QED BY <3>1, <4>2, <4>3
    <3>4. \A b \in 1 .. Len(Rest) : Level(stack', b) = Level(stack, b)
      BY <2>1, <3>3, LevelPop
    <3>5. ASSUME NEW b \in 1 .. Len(stack'), CountedUser(Level(stack', b))
          PROVE  /\ b > 1
                 /\ Level(stack', b - 1).t = "hookModules"
                 /\ Level(stack', b - 1).inst
                      \in {Level(stack', b).inst, record'[Level(stack', b).inst].parent}
      <4>1. b \in 1 .. Len(Rest)
        <5>1. b = Len(Rest) + 1 => Len(stack') = Len(Rest) + 1
          BY <2>1, <3>3
        <5>2. b # Len(Rest) + 1
          BY <3>1, <3>3, <3>5, <5>1
        <5>3. QED BY <2>1, <3>3, <5>2
      <4>2. b \in 1 .. Len(stack) /\ b <= Len(stack') /\ Len(stack') \in Nat
        BY <2>1, <3>3, <4>1
      <4>3. \A c \in 1 .. b : c \in 1 .. Len(Rest)
        BY <2>1, <4>1
      <4>4. QED BY <1>1, <3>4, <3>5, <4>2, <4>3
    <3>6. QED BY <3>5 DEF Backed, CountedUser
  <2>4. CASE HookNext
    <3>1. i = i /\ i \in Created
      BY <2>1
    <3>2. stack' = Rest \/ stack' = <<User(h, i), RunHookModules(h, i, 1)>> \o Rest
      BY <2>4 DEF HookNext
    <3>3. QED BY <2>2, <2>3, <3>1, <3>2
  <2>5. CASE HookModulesNext
    <3> DEFINE j == serviceModules[i][Top.n]
               n == Top.n + 1
    <3>1. \/ stack' = Rest
          \/ stack' = <<RunHookModules(h, i, n)>> \o Rest
          \/ /\ Top.n <= Len(serviceModules[i])
             /\ stack' = <<User(h, j)>> \o (<<RunHookModules(h, i, n)>> \o Rest)
      BY <2>5 DEF HookModulesNext
    <3>2. ~CountedUser(RunHookModules(h, i, n))
      BY DEF CountedUser, RunHookModules, About
    <3>3. Top.n <= Len(serviceModules[i]) => j \in Created /\ i = record[j].parent
      <4> SUFFICES ASSUME Top.n <= Len(serviceModules[i])
                   PROVE  j \in Created /\ i = record[j].parent
        OBVIOUS
      <4>1. serviceModules[i] \in Seq(OwnOf(i))
        BY <2>1 DEF OwnModules
      <4>2. Top.n \in 1 .. Len(serviceModules[i])
        BY <2>1, <2>5, <4>1 DEF HookModulesNext, At
      <4>3. j \in OwnOf(i)
        BY <4>1, <4>2, ElementOfSeq
      <4>4. QED BY <4>3 DEF OwnOf
    <3>4. <<User(h, j)>> \o (<<RunHookModules(h, i, n)>> \o Rest)
            = <<User(h, j), RunHookModules(h, i, n)>> \o Rest
      BY <2>1, CallOnTop
    <3> HIDE DEF j, n
    <3>5. QED BY <2>2, <2>3, <3>1, <3>2, <3>3, <3>4
  <2>6. QED BY <1>4, <2>4, <2>5
<1>5. QED BY <1>2, <1>3, <1>4, StepRuns

(* Flags and reports are kept. *)
LEMMA FlagsGrow ==
  ASSUME TypeInv, [Next]_vars
  PROVE  /\ isInitialized \subseteq isInitialized' /\ isStarted \subseteq isStarted'
         /\ \A i \in Inst : reported[i] \subseteq reported'[i]
<1>1. ASSUME NEW j, NEW what, Log(j, what)
      PROVE  \A i \in Inst : reported[i] \subseteq reported'[i]
  BY <1>1 DEF Log, TypeInv, TypeOK
<1>2. CASE InitializeReturns \/ StartReturns
  BY <1>2 DEF InitializeReturns, StartReturns, historyVars
<1>3. CASE HookModulesNext
  BY <1>1, <1>3 DEF HookModulesNext, flagVars
<1>4. CASE DestroyNext
  BY <1>1, <1>4 DEF DestroyNext
<1>5. CASE UserThrows
  BY <1>1, <1>5 DEF UserThrows, flagVars
<1>6. CASE Constructs
  <2>1. UNCHANGED <<flagVars, reported>>
    BY <1>6 DEF Constructs, ProfileNext, ModulesNext, Register, Construct, historyVars
  <2>2. QED BY <2>1 DEF flagVars
<1>7. CASE UNCHANGED <<isInitialized, isStarted, reported>>
  BY <1>7
<1>8. CASE Advance /\ ~(InitializeReturns \/ StartReturns \/ HookModulesNext \/ DestroyNext
                        \/ UserThrows \/ Constructs)
  <2>1. UNCHANGED <<isInitialized, isStarted, reported>>
    BY <1>8
    DEF Advance, Constructs, ProfileDone, ModulesDone, WalkNext, StartIfStartedNext,
        HookNext, ForEachNext, DisposeAllNext, DisposeNext, DisposeModulesNext,
        ConstructReturns, CallbackReturns, DestroyReturns, flagVars, historyVars
  <2>2. QED BY <1>7, <2>1
<1>9. CASE Call /\ ~Constructs
  <2>1. UNCHANGED <<isInitialized, isStarted, reported>>
    BY <1>9
    DEF Call, Constructs, InitializeProfile, Start, Tick, Reset, Dispose, Unregister,
        flagVars, historyVars
  <2>2. QED BY <1>7, <2>1
<1>10. CASE Wait \/ UNCHANGED vars
  <2>1. UNCHANGED <<isInitialized, isStarted, reported>>
    BY <1>10
    DEF Wait, ResolveAsync, ResolveTimeout, WaitUntilInitialized, InitializationTimeout,
        vars, flagVars, historyVars
  <2>2. QED BY <1>7, <2>1
<1>11. QED
  BY <1>2, <1>3, <1>4, <1>5, <1>6, <1>8, <1>9, <1>10 DEF Next

(* A call of initialize() or start() is counted when it is entered. *)
LEMMA CountsEnter ==
  ASSUME TypeInv, [Next]_vars, NEW i \in Inst, NEW h \in Counted
  PROVE  \/ called'[i][h] = called[i][h]
         \/ /\ Top.t \in {"hook", "hookModules"} /\ Top.hook = h
            /\ \/ i = Top.inst
               \/ \E k \in 1 .. Len(serviceModules[Top.inst]) : i = serviceModules[Top.inst][k]
            /\ i \notin Flagged(h)
            /\ stack # <<>> /\ \E g : stack' = <<User(h, i), g>> \o Rest
            /\ called'[i][h] = IF called[i][h] < 2 THEN called[i][h] + 1 ELSE 2
<1>1. ASSUME NEW j \in Inst, NEW k \in CountedHook, Count(k, j)
      PROVE  called'[i][h] = IF i = j /\ h = k
                             THEN IF called[i][h] < 2 THEN called[i][h] + 1 ELSE 2
                             ELSE called[i][h]
  BY <1>1 DEF Count, TypeInv, TypeOK, Counted, CountedHook
<1>2. CASE HookNext
  <2>1. Top.inst \in Inst /\ Top.hook \in CountedHook
    BY <1>2, TopFields DEF HookNext, At, CountedHook
  <2>2. QED BY <1>1, <1>2, <2>1 DEF HookNext, At
<1>3. CASE HookModulesNext
  <2> DEFINE ms == serviceModules[Top.inst]
  <2>1. Top.inst \in Inst /\ Top.hook \in CountedHook /\ Top.n \in Nat /\ Top.n # 0
    BY <1>3, TopFields DEF HookModulesNext, At, CountedHook
  <2>2. ms \in Seq(Inst)
    BY <2>1 DEF TypeInv, TypeOK
  <2>3. Top.n <= Len(ms) => Top.n \in 1 .. Len(ms) /\ ms[Top.n] \in Inst
    <3>1. Top.n <= Len(ms) => Top.n \in 1 .. Len(ms)
      BY <2>1, <2>2
    <3>2. QED BY <2>2, <3>1, ElementOfSeq
  <2>4. \A f, g : <<f>> \o (<<g>> \o Rest) = <<f, g>> \o Rest
    BY <1>3, CallOnTop DEF HookModulesNext, At
  <2>5. QED BY <1>1, <1>3, <2>1, <2>3, <2>4 DEF HookModulesNext, At
<1>4. CASE DestroyNext
  <2>1. Top.inst \in Inst /\ "destroy" \in CountedHook /\ h # "destroy"
    BY <1>4, TopFields DEF DestroyNext, At, CountedHook, Counted
  <2>2. QED BY <1>1, <1>4, <2>1 DEF DestroyNext
<1>5. CASE Constructs
  <2>1. UNCHANGED called
    BY <1>5 DEF Constructs, ProfileNext, ModulesNext, Register, Construct, historyVars
  <2>2. QED BY <2>1
<1>6. CASE Advance /\ ~(HookNext \/ HookModulesNext \/ DestroyNext \/ Constructs)
  <2>1. UNCHANGED called
    BY <1>6
    DEF Advance, Constructs, ProfileDone, ModulesDone, WalkNext, StartIfStartedNext,
        ForEachNext, DisposeAllNext, DisposeNext, DisposeModulesNext, ConstructReturns,
        InitializeReturns, StartReturns, CallbackReturns, DestroyReturns, UserThrows,
        historyVars
  <2>2. QED BY <2>1
<1>7. CASE Call /\ ~Constructs
  <2>1. UNCHANGED called
    BY <1>7
    DEF Call, Constructs, InitializeProfile, Start, Tick, Reset, Dispose, Unregister,
        historyVars
  <2>2. QED BY <2>1
<1>8. CASE Wait \/ UNCHANGED vars
  <2>1. UNCHANGED called
    BY <1>8
    DEF Wait, ResolveAsync, ResolveTimeout, WaitUntilInitialized, InitializationTimeout,
        vars, historyVars
  <2>2. QED BY <2>1
<1>9. QED
  BY <1>2, <1>3, <1>4, <1>5, <1>6, <1>7, <1>8 DEF Next

(* A running call goes on, returns, or is reported as it throws. *)
LEMMA RunningStep ==
  ASSUME TypeInv, TypeInv', OwnModules, Backed, [Next]_vars,
         NEW i \in Created, NEW h \in Counted, Running(h, i)
  PROVE  Running(h, i)' \/ (i \in Flagged(h))' \/ (h \in MayThrow /\ ReportedFor(i)')
<1>1. PICK b \in 1 .. Len(stack) : Calling(Level(stack, b), h, i)
  BY DEF Running
<1>2. Len(stack) \in Nat /\ i \in Inst
  BY LenProperties, BoundAssumption DEF TypeInv, TypeOK, Created, Inst
<1>3. ASSUME b \in 1 .. Len(stack'), Level(stack', b) = Level(stack, b)
      PROVE  Running(h, i)'
  <2>1. \E c \in 1 .. Len(stack') : Calling(Level(stack', c), h, i)
    BY <1>1, <1>3
  <2>2. QED BY <2>1 DEF Running, Calling
<1>4. ASSUME b = Len(stack)
      PROVE  /\ stack # <<>> /\ Top.t = "user" /\ Top.hook = h /\ Top.inst = i
             /\ UserReturns => (i \in Flagged(h))'
             /\ UserThrows => h \in MayThrow /\ ReportedFor(i)'
  <2>1. stack # <<>>
    <3>1. stack = <<>> => Len(stack) = 0
      OBVIOUS
    <3>2. QED BY <1>1, <1>2, <3>1
  <2>2. Level(stack, b) = Top /\ Len(Rest) = Len(stack) - 1
    BY <1>4, <2>1, LevelPop
  <2>3. Top.t = "user" /\ Top.hook = h /\ Top.inst = i
    BY <1>1, <2>2 DEF Calling
  <2>4. UserReturns => (i \in Flagged(h))'
    <3>1. h = "initialize" \/ h = "start"
      BY DEF Counted
    <3>2. UserReturns => (h = "initialize" => InitializeReturns) /\ (h = "start" => StartReturns)
      BY <2>3, <3>1
      DEF UserReturns, ConstructReturns, InitializeReturns, StartReturns, CallbackReturns,
          DestroyReturns, Returns
    <3>3. QED BY <2>3, <3>1, <3>2 DEF InitializeReturns, StartReturns, Flagged
  <2>5. ASSUME UserThrows PROVE h \in MayThrow /\ ReportedFor(i)'
    <3>1. Log(Rest[1].inst, "service_failed")
      BY <2>3, <2>5 DEF UserThrows, Counted
    <3>2. /\ b > 1 /\ Level(stack, b - 1).t = "hookModules"
          /\ Level(stack, b - 1).inst \in {i, record[i].parent}
      BY <1>1 DEF Backed, CountedUser, Calling
    <3>3. b - 1 \in 1 .. Len(stack) /\ b - 1 \in 1 .. Len(Rest) /\ Len(Rest) + 1 - (b - 1) = 1
      BY <1>2, <1>4, <2>2, <3>2
    <3>4. Level(Rest, b - 1) = Level(stack, b - 1) /\ Level(Rest, b - 1) = Rest[1]
      BY <2>1, <3>3, LevelPop DEF Level
    <3>5. Rest[1].inst \in {i, record[i].parent} /\ Rest[1].inst \in Created
      <4>1. Level(stack, b - 1).inst \in Created
        BY <3>2, <3>3, LevelType DEF Frames, Created
      <4>2. QED BY <3>2, <3>4, <4>1
    <3>6. record'[i] = record[i]
      BY RecordsStay
    <3>7. Rest[1].inst \in Inst
      BY <3>5, BoundAssumption DEF Created, Inst, TypeInv, TypeOK
    <3>8. "service_failed" \in reported'[Rest[1].inst]
      BY <3>1, <3>7 DEF Log, TypeInv, TypeOK
    <3>9. h \in MayThrow
      BY <2>3, <2>5 DEF UserThrows
    <3>10. QED BY <3>5, <3>6, <3>7, <3>8, <3>9 DEF ReportedFor
  <2>6. QED BY <2>1, <2>3, <2>4, <2>5
<1>5. CASE Runs
  <2>1. PICK m : /\ Arises(m)
                 /\ \/ m = Len(stack)
                    \/ stack # <<>> /\ m = Len(stack) - 1 /\ (Top.t = "user" => UserReturns)
    BY <1>5 DEF Runs
  <2>2. CASE b <= m
    <3>1. b \in 1 .. m /\ b \in 1 .. Len(stack')
      BY <1>1, <2>1, <2>2 DEF Arises
    <3>2. QED BY <1>3, <2>1, <3>1 DEF Arises
  <2>3. CASE ~(b <= m)
    <3>1. b = Len(stack) /\ m # Len(stack)
      BY <1>1, <1>2, <2>1, <2>3
    <3>2. QED BY <1>4, <2>1, <3>1
  <2>4. QED BY <2>2, <2>3
<1>6. CASE Breaks
  <2>1. /\ Len(stack') \in Nat
        /\ \A c \in 1 .. Len(stack') : Level(stack', c) = Level(stack, c)
        /\ \A c \in 1 .. Len(stack) :
             (c > Len(stack') /\ c < Len(stack)) => Level(stack, c).t # "user"
    BY <1>6, LevelThrow DEF Breaks
  <2>2. CASE b <= Len(stack')
    <3>1. b \in 1 .. Len(stack')
      BY <1>1, <2>1, <2>2
    <3>2. QED BY <1>3, <2>1, <3>1
  <2>3. CASE b > Len(stack') /\ b < Len(stack)
    BY <1>1, <2>1, <2>3 DEF Calling
  <2>4. CASE b = Len(stack)
    BY <1>4, <1>6, <2>4 DEF Breaks
  <2>5. b <= Len(stack') \/ (b > Len(stack') /\ b < Len(stack)) \/ b = Len(stack)
    BY <1>1, <1>2, <2>1
  <2>6. QED BY <2>2, <2>3, <2>4, <2>5
<1>7. QED BY <1>5, <1>6, StepRuns

(* A call that is entered runs. *)
LEMMA EnteredRuns ==
  ASSUME TypeInv, TypeInv', stack # <<>>, NEW i, NEW h, NEW g,
         stack' = <<User(h, i), g>> \o Rest
  PROVE  Running(h, i)' /\ i \in Created'
<1> DEFINE c == Len(Rest) + 2
<1>1. Level(stack', c) = User(h, i) /\ Len(stack') = c
  BY CallOnTop
<1>2. c \in 1 .. Len(stack')
  BY <1>1, LevelPop
<1> HIDE DEF c
<1>3. Calling(User(h, i), h, i)
  BY DEF Calling, User, About
<1>4. \E b \in 1 .. Len(stack') : Calling(Level(stack', b), h, i)
  BY <1>1, <1>2, <1>3
<1>5. Level(stack', c) \in Frames(Len(record'))
  <2>1. stack' \in Seq(Frames(Len(record')))
    BY DEF TypeInv, Bounded, Frames
  <2>2. Len(stack') + 1 - c \in 1 .. Len(stack')
    BY <1>1, <1>2
  <2>3. QED BY <2>1, <2>2, ElementOfSeq DEF Level
<1>6. i \in Created'
  BY <1>1, <1>3, <1>5 DEF Calling, Frames, Created
<1>7. QED BY <1>4, <1>6 DEF Running, Calling

(* Every call stays accounted for. *)
LEMMA AccountedStep ==
  ASSUME TypeInv, TypeInv', FailuresInv, [Next]_vars
  PROVE  FailuresInv'
<1>1. OwnModules' /\ Backed'
  BY OwnModulesStep, BackedStep DEF FailuresInv
<1>2. ASSUME NEW i \in Inst, NEW h \in Counted, called'[i][h] > 0
      PROVE  /\ i \in Created'
             /\ (i \in Flagged(h))' \/ ReportedFor(i)' \/ Running(h, i)'
  <2>1. CASE called'[i][h] # called[i][h]
    <3>1. stack # <<>> /\ \E g : stack' = <<User(h, i), g>> \o Rest
      BY <2>1, CountsEnter
    <3>2. QED BY <3>1, EnteredRuns
  <2>2. CASE called'[i][h] = called[i][h]
    <3>1. i \in Created /\ (i \in Flagged(h) \/ ReportedFor(i) \/ Running(h, i))
      BY <1>2, <2>2 DEF FailuresInv, Accounted
    <3>2. i \in Created' /\ record'[i] = record[i]
      BY <3>1, RecordsStay
    <3>3. CASE i \in Flagged(h)
      BY <3>2, <3>3, FlagsGrow DEF Flagged
    <3>4. CASE ReportedFor(i)
      BY <3>2, <3>4, FlagsGrow DEF ReportedFor
    <3>5. CASE Running(h, i)
      BY <3>1, <3>2, <3>5, RunningStep DEF FailuresInv
    <3>6. QED BY <3>1, <3>3, <3>4, <3>5
  <2>3. QED BY <2>1, <2>2
<1>3. Accounted'
  BY <1>2 DEF Accounted
<1>4. QED BY <1>1, <1>3 DEF FailuresInv

(* A service whose initialize() or start() was entered and did not return   *)
(* is reported as failed once the manager's call is over, under its own    *)
(* record or its parent's (the catch blocks of initializeRecord and        *)
(* startRecord), whatever callbacks throw and however they re-enter.       *)
THEOREM FailuresReported == Spec => []FailuresAreReported
<1>1. Init => FailuresInv
  <2> SUFFICES ASSUME Init PROVE FailuresInv
    OBVIOUS
  <2>1. stack = <<>> /\ called = [i \in Inst |-> [h \in CountedHook |-> 0]]
    BY DEF Init
  <2>2. Backed
    BY <2>1 DEF Backed
  <2>3. \A i \in Inst, h \in Counted : ~(called[i][h] > 0)
    BY <2>1 DEF Counted, CountedHook
  <2>4. QED BY <2>2, <2>3, OwnModulesInit DEF FailuresInv, Accounted
<1>2. TypeInv /\ TypeInv' /\ FailuresInv /\ [Next]_vars => FailuresInv'
  BY AccountedStep
<1>3. FailuresInv => FailuresAreReported
  <2> SUFFICES ASSUME FailuresInv, stack = <<>>, NEW i \in Inst,
                      \/ called[i]["initialize"] > 0 /\ i \notin isInitialized
                      \/ called[i]["start"] > 0 /\ i \notin isStarted
               PROVE  \E j \in {i, record[i].parent} \cap Inst : "service_failed" \in reported[j]
    BY DEF FailuresAreReported
  <2>1. PICK h \in Counted : called[i][h] > 0 /\ i \notin Flagged(h)
    BY DEF Counted, Flagged
  <2>2. ~Running(h, i)
    BY DEF Running
  <2>3. QED BY <2>1, <2>2 DEF FailuresInv, Accounted, ReportedFor
<1>4. QED BY <1>1, <1>2, <1>3, TypeCorrect, PTL DEF Spec

-----------------------------------------------------------------------------
(* initialize() and start() are called once.                               *)
(*                                                                         *)
(* Instances nest by age: under a running initialize() or start() nothing  *)
(* reaches that hook of the same instance or of an older one, because a    *)
(* nested call either loops over a record it has just created or, for      *)
(* start(), meets the manager's own flag.  So a loop never finds unflagged *)
(* an instance whose call is still running.  A start() that throws spoils  *)
(* this: the call is over and unflagged, and a registration beneath it     *)
(* still walks the record; hence the assumption on MayThrow.               *)

Nests ==
  \A b, c \in 1 .. Len(stack) : \A h \in Counted :
    (b < c /\ Level(stack, b).t = "user" /\ Level(stack, b).hook = h
       /\ MayCall(Level(stack, c), h))
      => Level(stack, c).t # "forEach" /\ Level(stack, c).inst > Level(stack, b).inst

StartFrames == \A b \in 1 .. Len(stack) : Starting(Level(stack, b)) => started

Going ==
  \A i \in Inst, h \in Counted :
    called[i][h] > 0 => i \in Created /\ (i \in Flagged(h) \/ Running(h, i))

OnceInv == CalledOnce /\ FailuresInv /\ Nests /\ StartFrames /\ Going

(* start() is never taken back. *)
LEMMA StartedStays ==
  ASSUME [Next]_vars, started
  PROVE  started'
<1>1. CASE Call
  BY <1>1
  DEF Call, InitializeProfile, Start, Tick, Reset, Dispose, Register, Unregister, Construct,
      managerVars
<1>2. CASE Advance
  BY <1>2
  DEF Advance, ProfileNext, ProfileDone, ModulesNext, ModulesDone, WalkNext,
      StartIfStartedNext, HookNext, HookModulesNext, ForEachNext, DisposeAllNext,
      DisposeNext, DisposeModulesNext, DestroyNext, ConstructReturns, InitializeReturns,
      StartReturns, CallbackReturns, DestroyReturns, UserThrows, Construct, managerVars
<1>3. CASE Wait \/ UNCHANGED vars
  BY <1>3
  DEF Wait, ResolveAsync, ResolveTimeout, WaitUntilInitialized, InitializationTimeout,
      vars, managerVars
<1>4. QED BY <1>1, <1>2, <1>3 DEF Next

(* Every step keeps the outermost levels; what it adds is fresh, and only   *)
(* goes on top of user code when that code calls the manager.              *)
LEMMA StepArises ==
  ASSUME TypeInv, OwnModules, [Next]_vars
  PROVE  \E m : Arises(m)
<1>1. CASE Runs
  BY <1>1 DEF Runs
<1>2. CASE Breaks
  <2> DEFINE m == Len(stack')
  <2>1. /\ m \in Nat /\ m < Len(stack) /\ Len(stack) \in Nat
        /\ \A b \in 1 .. m : Level(stack', b) = Level(stack, b)
    BY <1>2, LevelThrow, LevelPop DEF Breaks
  <2>2. m <= Len(stack) /\ m <= m /\ \A c \in m + 1 .. m : FALSE
    BY <2>1
  <2>3. Arises(m)
    BY <2>1, <2>2 DEF Arises
  <2>4. QED BY <2>3
<1>3. QED BY <1>1, <1>2, StepRuns

LEMMA StartFramesStep ==
  ASSUME TypeInv, OwnModules, StartFrames, [Next]_vars
  PROVE  StartFrames'
<1>1. PICK m : Arises(m)
  BY StepArises
<1>2. Len(stack) \in Nat /\ m \in Nat /\ Len(stack') \in Nat /\ m <= Len(stack)
  BY <1>1, LenProperties DEF Arises, TypeInv, TypeOK
<1>3. ASSUME NEW b \in 1 .. Len(stack'), Starting(Level(stack', b))
      PROVE  started'
  <2>1. CASE b <= m
    <3>1. b \in 1 .. m /\ b \in 1 .. Len(stack)
      BY <1>2, <2>1
    <3>2. Level(stack', b) = Level(stack, b)
      BY <1>1, <3>1 DEF Arises
    <3>3. QED BY <1>3, <3>1, <3>2, StartedStays DEF StartFrames
  <2>2. CASE ~(b <= m)
    <3>1. Fresh(Level(stack', b))
      BY <1>1, <1>2, <2>2 DEF Arises
    <3>2. CASE stack # <<>> /\ Starting(Top)
      <4>1. Len(stack) \in 1 .. Len(stack) /\ Level(stack, Len(stack)) = Top
        BY <3>2, LevelPop
      <4>2. QED BY <3>2, <4>1, StartedStays DEF StartFrames
    <3>3. QED BY <1>3, <3>1, <3>2 DEF Fresh
  <2>3. QED BY <2>1, <2>2
<1>4. QED BY <1>3 DEF StartFrames, Starting, MayCall

LEMMA NestsStep ==
  ASSUME TypeInv, TypeInv', OwnModules, StartFrames, Nests, [Next]_vars
  PROVE  Nests'
<1>1. PICK m : Arises(m)
  BY StepArises
<1>2. Len(stack) \in Nat /\ m \in Nat /\ Len(stack') \in Nat /\ m <= Len(stack)
  BY <1>1, LenProperties DEF Arises, TypeInv, TypeOK
<1>3. ASSUME NEW b \in 1 .. Len(stack'), NEW c \in 1 .. Len(stack'), NEW h \in Counted,
             b < c, Level(stack', b).t = "user", Level(stack', b).hook = h,
             MayCall(Level(stack', c), h)
      PROVE  /\ Level(stack', c).t # "forEach"
             /\ Level(stack', c).inst > Level(stack', b).inst
  <2> DEFINE f == Level(stack', c)
             u == Level(stack, b)
  <2>1. b <= m
    <3>1. b < Len(stack')
      BY <1>2, <1>3
    <3>2. b \in m + 1 .. Len(stack') => Level(stack', b).t # "user"
      BY <1>1, <3>1 DEF Arises
    <3>3. QED BY <1>2, <1>3, <3>2
  <2>2. b \in 1 .. m /\ b \in 1 .. Len(stack)
    BY <1>2, <2>1
  <2>3. Level(stack', b) = u
    BY <1>1, <2>2 DEF Arises
  <2>4. u.t = "user" /\ u.hook = h /\ u.inst \in Created /\ u.inst < Len(record) + 1
    <3>1. u.inst \in Created
      BY <1>3, <2>2, <2>3, LevelType
    <3>2. QED BY <1>3, <2>3, <3>1 DEF Created, TypeInv, TypeOK
  <2>5. CASE c <= m
    <3>1. c \in 1 .. m /\ c \in 1 .. Len(stack)
      BY <1>2, <2>5
    <3>2. f = Level(stack, c)
      BY <1>1, <3>1 DEF Arises
    <3>3. QED BY <1>3, <2>2, <2>3, <2>4, <3>1, <3>2 DEF Nests
  <2>6. CASE ~(c <= m)
    <3>1. Fresh(f)
      BY <1>1, <1>2, <2>6 DEF Arises
    <3>2. Descends(f, h)
      BY <1>3, <3>1 DEF Fresh
    <3>3. CASE f.t # "forEach" /\ f.inst = Len(record) + 1
      BY <2>3, <2>4, <3>3
    <3>4. CASE h = "start" /\ ~started
      <4>1. Starting(u)
        BY <2>4, <3>4 DEF Starting, MayCall
      <4>2. QED BY <2>2, <3>4, <4>1 DEF StartFrames
    <3>5. CASE /\ stack # <<>> /\ MayCall(Top, h) /\ Top.t # "user"
               /\ Top.t = "forEach" \/ (f.t # "forEach" /\ f.inst >= Top.inst)
      <4>1. /\ Level(stack, Len(stack)) = Top /\ Len(stack) \in 1 .. Len(stack)
        BY <3>5, LevelPop
      <4>2. b # Len(stack)
        BY <2>4, <3>5, <4>1
      <4>3. b < Len(stack)
        BY <1>2, <2>2, <4>2
      <4>4. Top.t # "forEach" /\ Top.inst > u.inst
        BY <2>2, <2>4, <3>5, <4>1, <4>3 DEF Nests
      <4>5. Top.inst \in Nat /\ f.inst \in Nat
        <5>1. Top \in Frame
          BY <4>1, LevelType DEF Frames
        <5>2. f \in Frame
          <6>1. stack' \in Seq(Frame) /\ Len(stack') + 1 - c \in 1 .. Len(stack')
            BY <1>2, <1>3 DEF TypeInv, TypeOK, Frame, Hook
          <6>2. QED BY <6>1, ElementOfSeq DEF Level
        <5>3. QED BY <5>1, <5>2 DEF Frame
      <4>6. QED BY <2>3, <2>4, <3>5, <4>4, <4>5 DEF Created
    <3>6. QED BY <3>2, <3>3, <3>4, <3>5 DEF Descends
  <2>7. QED BY <2>5, <2>6
<1>4. QED BY <1>3 DEF Nests, MayCall

(* A call that is entered is the first of its kind. *)
LEMMA OnceStep ==
  ASSUME "initialize" \notin MayThrow, "start" \notin MayThrow,
         TypeInv, TypeInv', OnceInv, [Next]_vars
  PROVE  OnceInv'
<1>1. FailuresInv' /\ StartFrames' /\ Nests'
  BY AccountedStep, StartFramesStep, NestsStep DEF OnceInv, FailuresInv
<1>2. OwnModules /\ Backed
  BY DEF OnceInv, FailuresInv
<1>3. ASSUME NEW i \in Inst, NEW h \in Counted, called'[i][h] # called[i][h]
      PROVE  called[i][h] = 0 /\ called'[i][h] = 1
  <2>1. /\ Top.t \in {"hook", "hookModules"} /\ Top.hook = h /\ stack # <<>>
        /\ \/ i = Top.inst
           \/ \E k \in 1 .. Len(serviceModules[Top.inst]) : i = serviceModules[Top.inst][k]
        /\ i \notin Flagged(h)
        /\ called'[i][h] = IF called[i][h] < 2 THEN called[i][h] + 1 ELSE 2
    BY <1>3, CountsEnter
  <2>2. called[i][h] \in 0 .. 2
    BY DEF TypeInv, TypeOK, Counted, CountedHook
  <2>3. Top.inst \in Inst /\ Top.inst \in Nat /\ Top.inst <= i
    <3>1. Top.inst \in Created /\ Top.inst \in Inst
      BY <2>1, TopFields
    <3>2. CASE i = Top.inst
      BY <3>1, <3>2 DEF Inst
    <3>3. ASSUME NEW k \in 1 .. Len(serviceModules[Top.inst]), i = serviceModules[Top.inst][k]
          PROVE  Top.inst <= i
      <4>1. serviceModules[Top.inst] \in Seq(OwnOf(Top.inst))
        BY <1>2, <3>1 DEF OwnModules
      <4>2. i \in Created /\ record[i].parent = Top.inst
        BY <3>3, <4>1, ElementOfSeq DEF OwnOf
      <4>3. Top.inst < i
        BY <1>2, <4>2 DEF OwnModules
      <4>4. QED BY <3>1, <4>3 DEF Inst
    <3>4. QED BY <2>1, <3>1, <3>2, <3>3 DEF Inst
  <2>4. ~(called[i][h] > 0)
    <3> SUFFICES ASSUME called[i][h] > 0 PROVE FALSE
      OBVIOUS
    <3>1. Running(h, i)
      BY <2>1 DEF OnceInv, Going
    <3>2. PICK b \in 1 .. Len(stack) : Calling(Level(stack, b), h, i)
      BY <3>1 DEF Running
    <3>3. /\ Len(stack) \in Nat /\ Len(stack) \in 1 .. Len(stack)
          /\ Level(stack, Len(stack)) = Top
      BY <2>1, LevelPop
    <3>4. b # Len(stack)
      BY <2>1, <3>2, <3>3 DEF Calling
    <3>5. b < Len(stack) /\ MayCall(Top, h)
      BY <2>1, <3>3, <3>4 DEF MayCall
    <3>6. Top.inst > i
      BY <3>2, <3>3, <3>5 DEF OnceInv, Nests, Calling
    <3>7. QED BY <2>3, <3>6 DEF Inst
  <2>5. QED BY <2>1, <2>2, <2>4
<1>4. CalledOnce'
  <2>1. ASSUME NEW i \in Inst, NEW h \in Counted PROVE called'[i][h] <= 1
    <3>1. called[i][h] <= 1
      BY DEF OnceInv, CalledOnce, Counted
    <3>2. QED BY <1>3, <3>1
  <2>2. QED BY <2>1 DEF CalledOnce, Counted
<1>5. Going'
  <2>1. ASSUME NEW i \in Inst, NEW h \in Counted, called'[i][h] > 0
        PROVE  i \in Created' /\ ((i \in Flagged(h))' \/ Running(h, i)')
    <3>1. CASE called'[i][h] # called[i][h]
      <4>1. stack # <<>> /\ \E g : stack' = <<User(h, i), g>> \o Rest
        BY <3>1, CountsEnter
      <4>2. QED BY <4>1, EnteredRuns
    <3>2. CASE called'[i][h] = called[i][h]
      <4>1. i \in Created /\ (i \in Flagged(h) \/ Running(h, i))
        BY <2>1, <3>2 DEF OnceInv, Going
      <4>2. i \in Created'
        BY <4>1, RecordsStay
      <4>3. CASE i \in Flagged(h)
        BY <4>2, <4>3, FlagsGrow DEF Flagged
      <4>4. CASE Running(h, i)
        <5>1. h \notin MayThrow
          BY DEF Counted
        <5>2. QED BY <1>2, <4>1, <4>2, <4>4, <5>1, RunningStep
      <4>5. QED BY <4>1, <4>3, <4>4
    <3>3. QED BY <3>1, <3>2
  <2>2. QED BY <2>1 DEF Going
<1>6. QED BY <1>1, <1>4, <1>5 DEF OnceInv

(* No instance has its initialize() or its start() called twice, although   *)
(* initializeRecord and startRecord set the flag after the call: whatever  *)
(* callbacks re-enter, and whichever of the others throw.                  *)
THEOREM HooksAreCalledOnce ==
  ASSUME "initialize" \notin MayThrow, "start" \notin MayThrow
  PROVE  Spec => []CalledOnce
<1>1. Init => OnceInv
  <2> SUFFICES ASSUME Init PROVE OnceInv
    OBVIOUS
  <2>1. stack = <<>> /\ called = [i \in Inst |-> [h \in CountedHook |-> 0]]
    BY DEF Init
  <2>2. Backed /\ Nests /\ StartFrames
    BY <2>1 DEF Backed, Nests, StartFrames
  <2>3. \A i \in Inst, h \in Counted : ~(called[i][h] > 0) /\ called[i][h] <= 1
    BY <2>1 DEF Counted, CountedHook
  <2>4. QED
    BY <2>2, <2>3, OwnModulesInit DEF OnceInv, FailuresInv, Accounted, CalledOnce, Going, Counted
<1>2. TypeInv /\ TypeInv' /\ OnceInv /\ [Next]_vars => OnceInv'
  BY OnceStep
<1>3. OnceInv => CalledOnce
  BY DEF OnceInv
<1>4. QED BY <1>1, <1>2, <1>3, TypeCorrect, PTL DEF Spec

-----------------------------------------------------------------------------
(* Modules are destroyed before their parent.                              *)
(*                                                                         *)
(* disposeRecord goes through the modules its record listed and destroys   *)
(* the instance without another look, so what counts is that the modules   *)
(* still registered are the ones its loop has left, plus the one it is     *)
(* disposing of: nothing lists a module of an instance that is being       *)
(* destroyed, and every listed module that is registered is found.         *)

Left(i) == modules[i] \cap records

Disposing(f) == f.t = "dispose" \/ Destroying(f)

(* What lies on top of a destroyed instance's frame. *)
ModulesGone(b) ==
  LET f == Level(stack, b)
      loop == Level(stack, b + 1)
      one == Level(stack, b + 2)
  IN f.t = "destroy" =>
       /\ b = Len(stack) => Left(f.inst) = {}
       /\ b # Len(stack) => loop.t = "disposeModules"
       /\ b + 1 = Len(stack) => Left(f.inst) \subseteq loop.insts
       /\ b + 1 < Len(stack) =>
            Disposing(one) /\ Left(f.inst) \subseteq loop.insts \cup {one.inst}

Emptied ==
  \A b \in 1 .. Len(stack) :
    LET f == Level(stack, b) IN
    (f.t = "user" /\ f.hook = "destroy") => Left(f.inst) = {}

(* An instance under destruction is older than any whose modules are made. *)
Younger ==
  \A b, c \in 1 .. Len(stack) :
    (b < c /\ Destroying(Level(stack, b)) /\ Level(stack, c).t = "modules")
      => Level(stack, c).inst > Level(stack, b).inst

Unlisted ==
  (stack # <<>> /\ Constructing(Top)) => \A q \in Inst : Top.inst \notin modules[q]

ModulesInv ==
  /\ OwnModules
  /\ \A b \in 1 .. Len(stack) : ModulesGone(b)
  /\ Emptied /\ Younger /\ Unlisted

(* A single call in place of the head. *)
LEMMA CallAlone ==
  ASSUME TypeInv, stack # <<>>, NEW f
  PROVE  /\ Len(<<f>> \o Rest) = Len(Rest) + 1
         /\ Level(<<f>> \o Rest, Len(Rest) + 1) = f
         /\ \A b \in 1 .. Len(Rest) : Level(<<f>> \o Rest, b) = Level(Rest, b)
<1> DEFINE S == Frame \cup {f}
           q == <<f>>
<1>1. f \in S
  OBVIOUS
<1>2. Rest \in Seq(S)
  BY RestFrames, SequencesGrow
<1> HIDE DEF S
<1>3. q \in Seq(S) /\ Len(q) = 1 /\ q[1] = f
  BY <1>1
<1> HIDE DEF q
<1>4. /\ Len(q \o Rest) = Len(Rest) + 1
      /\ Level(q \o Rest, Len(Rest) + 1) = f
      /\ \A b \in 1 .. Len(Rest) : Level(q \o Rest, b) = Level(Rest, b)
  BY <1>2, <1>3, LevelCall
<1>5. QED BY <1>4 DEF q

(* The registered modules of an instance grow only when its module loop ends. *)
LEMMA LeftGrows ==
  ASSUME TypeInv, Unlisted, [Next]_vars, NEW q \in Inst
  PROVE  (Left(q))' \subseteq Left(q) \/ (ModulesDone /\ At("modules") /\ q = Top.inst)
<1>1. ASSUME modules'[q] \subseteq modules[q], records' \subseteq records
      PROVE  (Left(q))' \subseteq Left(q)
  BY <1>1 DEF Left
<1>2. CASE Constructs
  <2>1. UNCHANGED <<modules, records>>
    BY <1>2 DEF Constructs, ProfileNext, ModulesNext, Register, Construct, registryVars
  <2>2. QED BY <1>1, <2>1
<1>3. CASE ConstructReturns
  <2>1. UNCHANGED modules /\ records' = records \cup {Top.inst}
    BY <1>3 DEF ConstructReturns
  <2>2. stack # <<>> /\ Constructing(Top)
    BY <1>3 DEF ConstructReturns, Returns, At, Constructing
  <2>3. Top.inst \notin modules[q]
    BY <2>2 DEF Unlisted
  <2>4. QED BY <2>1, <2>3 DEF Left
<1>4. CASE DestroyReturns
  <2>1. modules' = [modules EXCEPT ![Top.inst] = {}] /\ records' \subseteq records
    BY <1>4 DEF DestroyReturns
  <2>2. modules'[q] \subseteq modules[q]
    BY <2>1 DEF TypeInv, TypeOK
  <2>3. QED BY <1>1, <2>1, <2>2
<1>5. CASE ModulesDone
  <2>1. /\ modules' = [modules EXCEPT ![Top.inst] =
                         {j \in 1 .. Len(record) : record[j].parent = Top.inst}]
        /\ UNCHANGED records /\ At("modules")
    BY <1>5 DEF ModulesDone
  <2>2. q # Top.inst => modules'[q] = modules[q]
    BY <2>1 DEF TypeInv, TypeOK
  <2>3. QED BY <1>1, <1>5, <2>1, <2>2
<1>6. CASE ~(Constructs \/ ConstructReturns \/ DestroyReturns \/ ModulesDone)
  <2>1. CASE Call
    BY <1>1, <1>6, <2>1
    DEF Call, Constructs, InitializeProfile, Start, Tick, Reset, Dispose, Unregister,
        registryVars
  <2>2. CASE Advance
    BY <1>1, <1>6, <2>2
    DEF Advance, Constructs, ProfileDone, WalkNext, StartIfStartedNext, HookNext,
        HookModulesNext, ForEachNext, DisposeAllNext, DisposeNext, DisposeModulesNext,
        DestroyNext, InitializeReturns, StartReturns, CallbackReturns, UserThrows,
        registryVars
  <2>3. CASE Wait \/ UNCHANGED vars
    BY <1>1, <2>3
    DEF Wait, ResolveAsync, ResolveTimeout, WaitUntilInitialized, InitializationTimeout,
        vars, registryVars
  <2>4. QED BY <2>1, <2>2, <2>3 DEF Next
<1>7. QED BY <1>2, <1>3, <1>4, <1>5, <1>6

(* Those of an instance that is being destroyed do not grow. *)
LEMMA LeftShrinks ==
  ASSUME TypeInv, Unlisted, Younger, [Next]_vars,
         NEW b \in 1 .. Len(stack), Destroying(Level(stack, b)),
         NEW q, q = Level(stack, b).inst
  PROVE  q \in Inst /\ (Left(q))' \subseteq Left(q)
<1>1. q \in Created /\ q \in Inst
  <2>1. q \in Created
    BY LevelType DEF Destroying, Leaving, Frames, Created
  <2>2. QED BY <2>1, BoundAssumption DEF TypeInv, TypeOK, Created, Inst
<1>2. ASSUME At("modules") PROVE q # Top.inst
  <2>1. /\ stack # <<>> /\ Top.t = "modules" /\ Len(stack) \in 1 .. Len(stack)
        /\ Level(stack, Len(stack)) = Top
    BY <1>2, LevelPop DEF At
  <2>2. b # Len(stack)
    BY <2>1 DEF Destroying, Leaving
  <2>3. b < Len(stack)
    BY <2>1, <2>2
  <2>4. Top.inst > q
    BY <2>1, <2>3 DEF Younger
  <2>5. QED BY <1>1, <2>4 DEF Inst
<1>3. QED BY <1>1, <1>2, LeftGrows

(* What acts on the frames of a disposal. *)
LEMMA DisposalActs ==
  ASSUME [Next]_vars, stack # <<>>, stack' # stack
  PROVE  /\ Top.t = "disposeModules" => DisposeModulesNext
         /\ Top.t = "dispose" => DisposeNext
         /\ Top.t = "destroy" => DestroyNext
         /\ (Top.t = "user" /\ Top.hook = "destroy" /\ UserReturns) => DestroyReturns
<1>1. ASSUME Top.t \in {"disposeModules", "dispose", "destroy"}
      PROVE  /\ Top.t = "disposeModules" => DisposeModulesNext
             /\ Top.t = "dispose" => DisposeNext
             /\ Top.t = "destroy" => DestroyNext
  <2>1. \A op : ~Calls(op)
    BY <1>1 DEF Calls, At
  <2>2. ~Call
    BY <2>1
    DEF Call, InitializeProfile, Start, Tick, Reset, Dispose, Register, Unregister
  <2>3. ~(Wait \/ UNCHANGED vars)
    BY DEF Wait, ResolveAsync, ResolveTimeout, WaitUntilInitialized, InitializationTimeout,
           vars
  <2>4. CASE Advance
    BY <1>1, <2>4
    DEF Advance, ProfileNext, ProfileDone, ModulesNext, ModulesDone, WalkNext,
        StartIfStartedNext, HookNext, HookModulesNext, ForEachNext, DisposeAllNext,
        DisposeNext, DisposeModulesNext, DestroyNext, ConstructReturns, InitializeReturns,
        StartReturns, CallbackReturns, DestroyReturns, UserThrows, Returns, At
  <2>5. QED BY <2>2, <2>3, <2>4 DEF Next
<1>2. (Top.t = "user" /\ Top.hook = "destroy" /\ UserReturns) => DestroyReturns
  BY DEF UserReturns, ConstructReturns, InitializeReturns, StartReturns, CallbackReturns,
         Returns
<1>3. QED BY <1>1, <1>2

LEMMA UnlistedStep ==
  ASSUME ConstructorsDoNotReenter, TypeInv, TypeInv', NamesInv, OwnModules, Unlisted,
         [Next]_vars
  PROVE  Unlisted'
<1> SUFFICES ASSUME stack' # <<>>, Constructing(Top')
             PROVE  \A q \in Inst : Top'.inst \notin modules'[q]
  BY DEF Unlisted, Constructing
<1>1. PICK m : Arises(m)
  BY StepArises
<1>2. Len(stack) \in Nat /\ m \in Nat /\ Len(stack') \in Nat /\ m <= Len(stack)
  BY <1>1, LenProperties DEF Arises, TypeInv, TypeOK
<1>3. Len(stack') \in 1 .. Len(stack') /\ Level(stack', Len(stack')) = Top'
  <2>1. Len(stack') # 0
    BY <1>2 DEF TypeInv, TypeOK
  <2>2. Len(stack') + 1 - Len(stack') = 1
    BY <1>2
  <2>3. QED BY <1>2, <2>1, <2>2 DEF Level, Top
<1>4. CASE Len(stack') > m
  <2>1. Fresh(Top')
    BY <1>1, <1>2, <1>3, <1>4 DEF Arises
  <2>2. Constructs /\ Top'.inst = Len(record) + 1
    BY <2>1 DEF Fresh, Constructing
  <2>3. UNCHANGED modules
    BY <2>2 DEF Constructs, ProfileNext, ModulesNext, Register, Construct, registryVars
  <2>4. \A q \in Inst : modules[q] \subseteq 1 .. Len(record)
    BY DEF TypeInv, Bounded, Created
  <2>5. Len(record) + 1 \notin 1 .. Len(record)
    BY DEF TypeInv, TypeOK
  <2>6. QED BY <2>2, <2>3, <2>4, <2>5
<1>5. CASE Len(stack') <= m
  <2>1. Len(stack') \in 1 .. m /\ Len(stack') \in 1 .. Len(stack) /\ stack # <<>>
    BY <1>2, <1>3, <1>5
  <2>2. Top' = Level(stack, Len(stack'))
    BY <1>1, <1>3, <2>1 DEF Arises
  <2>3. CASE Len(stack') = Len(stack)
    <3>1. Top' = Top /\ Constructing(Top)
      BY <2>1, <2>2, <2>3, LevelPop
    <3>2. UNCHANGED modules
      <4>1. ConstructReturns \/ UserThrows \/ Wait \/ UNCHANGED vars
        BY <2>1, <3>1, ConstructorRuns
      <4>2. QED
        BY <4>1 DEF ConstructReturns, UserThrows, Wait, ResolveAsync, ResolveTimeout,
                    WaitUntilInitialized, InitializationTimeout, vars, registryVars
    <3>3. QED BY <2>1, <3>1, <3>2 DEF Unlisted
  <2>4. CASE Len(stack') # Len(stack)
    <3>1. Len(stack') \in 1 .. Len(Rest) /\ Len(Rest) \in Nat
      BY <1>2, <2>1, <2>4, LevelPop
    <3>2. Top' = Level(Rest, Len(stack'))
      BY <2>1, <2>2, <3>1, LevelPop
    <3>3. Len(Rest) + 1 - Len(stack') \in 1 .. Len(Rest)
      BY <3>1
    <3>4. Rest \in Seq(Settled)
      BY <2>1 DEF NamesInv, OneConstructor
    <3>5. Top' \in Settled
      BY <3>2, <3>3, <3>4, ElementOfSeq DEF Level
    <3>6. QED BY <3>5 DEF Settled
  <2>5. QED BY <2>3, <2>4
<1>6. QED BY <1>2, <1>4, <1>5

LEMMA YoungerStep ==
  ASSUME TypeInv, TypeInv', OwnModules, Younger, [Next]_vars
  PROVE  Younger'
<1>1. PICK m : Arises(m)
  BY StepArises
<1>2. /\ Len(stack) \in Nat /\ m \in Nat /\ Len(stack') \in Nat /\ m <= Len(stack)
      /\ Len(record) \in Nat
  BY <1>1, LenProperties DEF Arises, TypeInv, TypeOK
<1>3. ASSUME NEW b \in 1 .. Len(stack'), NEW c \in 1 .. Len(stack'), b < c,
             Destroying(Level(stack', b)), Level(stack', c).t = "modules"
      PROVE  Level(stack', c).inst > Level(stack', b).inst
  <2> DEFINE f == Level(stack', c)
             g == Level(stack', b)
  <2>1. g.inst \in Created'
    <3>1. Len(stack') + 1 - b \in 1 .. Len(stack')
      BY <1>2
    <3>2. g \in Frames(Len(record'))
      BY <3>1, ElementOfSeq DEF TypeInv, Bounded, Level, Frames
    <3>3. QED BY <1>3, <3>2 DEF Destroying, Leaving, Frames, Created
  <2>2. CASE c <= m
    <3>1. b \in 1 .. m /\ c \in 1 .. m /\ b \in 1 .. Len(stack) /\ c \in 1 .. Len(stack)
      BY <1>2, <1>3, <2>2
    <3>2. g = Level(stack, b) /\ f = Level(stack, c)
      BY <1>1, <3>1 DEF Arises
    <3>3. QED BY <1>3, <3>1, <3>2 DEF Younger
  <2>3. CASE c > m
    <3>1. Fresh(f)
      BY <1>1, <1>2, <2>3 DEF Arises
    <3>2. \/ f.inst = Len(record) + 1
          \/ stack # <<>> /\ Top.t = "modules" /\ f.inst = Top.inst
      BY <1>3, <3>1 DEF Fresh
    <3>3. CASE b <= m
      <4>1. b \in 1 .. m /\ b \in 1 .. Len(stack)
        BY <1>2, <3>3
      <4>2. g = Level(stack, b)
        BY <1>1, <4>1 DEF Arises
      <4>3. g.inst \in Created
        BY <1>3, <4>1, <4>2, LevelType DEF Destroying, Leaving, Frames, Created
      <4>4. CASE f.inst = Len(record) + 1
        BY <1>2, <4>3, <4>4 DEF Created
      <4>5. CASE stack # <<>> /\ Top.t = "modules" /\ f.inst = Top.inst
        <5>1. Level(stack, Len(stack)) = Top /\ Len(stack) \in 1 .. Len(stack)
          BY <4>5, LevelPop
        <5>2. b # Len(stack)
          BY <1>3, <4>2, <4>5, <5>1 DEF Destroying, Leaving
        <5>3. b < Len(stack)
          BY <4>1, <5>1, <5>2
        <5>4. QED BY <1>3, <4>1, <4>2, <4>5, <5>1, <5>3 DEF Younger
      <4>6. QED BY <3>2, <4>4, <4>5
    <3>4. CASE b > m
      <4>1. Fresh(g) /\ g.t # "user"
        <5>1. b \in m + 1 .. Len(stack') /\ b < Len(stack')
          BY <1>2, <1>3, <3>4
        <5>2. QED BY <1>1, <5>1 DEF Arises
      <4>2. DisposeNext
        BY <1>3, <4>1 DEF Fresh, Destroying, Leaving
      <4>3. Top.t = "dispose" /\ UNCHANGED record
        BY <4>2 DEF DisposeNext, At, registryVars
      <4>4. f.inst = Len(record) + 1 /\ g.inst \in Created
        BY <2>1, <3>2, <4>3 DEF Created
      <4>5. QED BY <1>2, <4>4 DEF Created
    <3>5. QED BY <1>2, <3>3, <3>4
  <2>4. QED BY <1>2, <2>2, <2>3
<1>4. QED BY <1>3 DEF Younger, Destroying, Leaving

(* A call of destroy() is entered for an instance without modules. *)
LEMMA DestroyEntered ==
  ASSUME TypeInv, ModulesInv, DestroyNext
  PROVE  /\ Left(Top.inst) = {} /\ UNCHANGED <<modules, records>>
         /\ Len(stack') = Len(stack)
         /\ Level(stack', Len(stack)) = User("destroy", Top.inst)
         /\ \A b \in 1 .. Len(Rest) : Level(stack', b) = Level(stack, b)
<1>1. /\ stack # <<>> /\ Top.t = "destroy"
      /\ UNCHANGED <<modules, records>>
      /\ stack' = <<User("destroy", Top.inst)>> \o Rest
  BY DEF DestroyNext, At, registryVars
<1>2. /\ Len(stack) \in 1 .. Len(stack) /\ Level(stack, Len(stack)) = Top
      /\ Len(Rest) + 1 = Len(stack)
  BY <1>1, LevelPop
<1>3. Left(Top.inst) = {}
  BY <1>1, <1>2 DEF ModulesInv, ModulesGone
<1> DEFINE f == User("destroy", Top.inst)
           s == <<f>> \o Rest
<1>4. /\ Len(s) = Len(Rest) + 1 /\ Level(s, Len(Rest) + 1) = f
      /\ \A b \in 1 .. Len(Rest) : Level(s, b) = Level(Rest, b)
  BY <1>1, CallAlone
<1>5. stack' = s
  BY <1>1
<1> HIDE DEF s
<1>6. QED BY <1>1, <1>2, <1>3, <1>4, <1>5, LevelPop

LEMMA EmptiedStep ==
  ASSUME TypeInv, ModulesInv, [Next]_vars
  PROVE  Emptied'
<1>1. PICK m : Arises(m)
  BY StepArises DEF ModulesInv
<1>2. Len(stack) \in Nat /\ m \in Nat /\ Len(stack') \in Nat /\ m <= Len(stack)
  BY <1>1, LenProperties DEF Arises, TypeInv, TypeOK
<1>3. ASSUME NEW b \in 1 .. Len(stack'),
             Level(stack', b).t = "user", Level(stack', b).hook = "destroy"
      PROVE  (Left(Level(stack, b).inst))' = {}
  <2> DEFINE q == Level(stack', b).inst
  <2>1. CASE b <= m
    <3>1. b \in 1 .. m /\ b \in 1 .. Len(stack)
      BY <1>2, <2>1
    <3>2. Level(stack', b) = Level(stack, b)
      BY <1>1, <3>1 DEF Arises
    <3>3. Left(Level(stack, b).inst) = {}
      BY <1>3, <3>1, <3>2 DEF ModulesInv, Emptied
    <3>4. \A i : i = Level(stack, b).inst => modules'[i] \cap records' \subseteq Left(i)
      BY <1>3, <3>1, <3>2, LeftShrinks DEF ModulesInv, Destroying, Leaving, Left
    <3>5. modules'[q] \cap records' = {}
      BY <3>2, <3>3, <3>4
    <3>6. QED BY <3>5 DEF Left
  <2>2. CASE b > m
    <3>1. Fresh(Level(stack', b))
      BY <1>1, <1>2, <2>2 DEF Arises
    <3>2. DestroyNext
      BY <1>3, <3>1 DEF Fresh
    <3>3. b = Len(stack')
      BY <1>1, <1>2, <1>3, <2>2 DEF Arises
    <3>4. q = Top.inst /\ Left(Top.inst) = {} /\ UNCHANGED <<modules, records>>
      BY <3>2, <3>3, DestroyEntered DEF User, About
    <3>5. QED BY <3>4 DEF Left
  <2>3. QED BY <1>2, <2>1, <2>2
<1>4. QED BY <1>3 DEF Emptied

(* Where the frame of a destroyed instance stands under the head. *)
LEMMA BelowTop ==
  ASSUME TypeInv, ModulesInv, stack # <<>>, NEW b \in 1 .. Len(Rest),
         Level(stack, b).t = "destroy"
  PROVE  LET f == Level(stack, b)
             loop == Level(stack, b + 1)
         IN \/ b + 2 \in 1 .. Len(Rest)
            \/ /\ b + 1 = Len(stack) /\ b = Len(Rest)
               /\ Top.t = "disposeModules" /\ Left(f.inst) \subseteq Top.insts
            \/ /\ b + 2 = Len(stack) /\ b + 1 = Len(Rest)
               /\ loop.t = "disposeModules" /\ Disposing(Top)
               /\ Left(f.inst) \subseteq loop.insts \cup {Top.inst}
<1>1. /\ Len(stack) \in Nat /\ Len(Rest) = Len(stack) - 1 /\ Level(stack, Len(stack)) = Top
      /\ b \in 1 .. Len(stack) /\ b # Len(stack)
  BY LevelPop
<1>2. ModulesGone(b)
  BY <1>1 DEF ModulesInv
<1>3. CASE b + 1 = Len(stack)
  BY <1>1, <1>2, <1>3 DEF ModulesGone
<1>4. CASE b + 2 = Len(stack)
  <2>1. b + 1 < Len(stack) /\ b + 1 = Len(Rest)
    BY <1>1, <1>4
  <2>2. QED BY <1>1, <1>2, <1>4, <2>1 DEF ModulesGone
<1>5. CASE b + 2 < Len(stack)
  BY <1>1, <1>5
<1>6. QED BY <1>1, <1>3, <1>4, <1>5

(* Its own frame and the two above it stay. *)
LEMMA GoneKept ==
  ASSUME TypeInv, ModulesInv, [Next]_vars, NEW b \in 1 .. Len(stack),
         Level(stack, b).t = "destroy", b + 2 \in 1 .. Len(stack), b + 2 \in 1 .. Len(stack'),
         Len(stack') \in Nat, Len(stack) \in Nat,
         \A c \in 1 .. b + 2 : Level(stack', c) = Level(stack, c)
  PROVE  ModulesGone(b)'
<1> DEFINE q == Level(stack, b).inst
           one == Level(stack, b + 2)
           loop == Level(stack, b + 1)
<1>1. /\ Level(stack', b) = Level(stack, b) /\ Level(stack', b + 1) = loop
      /\ Level(stack', b + 2) = one
      /\ b # Len(stack') /\ b + 1 # Len(stack') /\ b + 1 < Len(stack) /\ b # Len(stack)
  OBVIOUS
<1>2. /\ loop.t = "disposeModules" /\ Disposing(one)
      /\ Left(q) \subseteq loop.insts \cup {one.inst}
  BY <1>1 DEF ModulesInv, ModulesGone
<1>3. \A i : i = q => modules'[i] \cap records' \subseteq Left(i)
  BY LeftShrinks DEF ModulesInv, Destroying, Leaving, Left
<1>4. modules'[q] \cap records' \subseteq loop.insts \cup {one.inst}
  BY <1>2, <1>3
<1>5. QED BY <1>1, <1>2, <1>4 DEF ModulesGone, Left, Disposing, Destroying, Leaving

(* A step that works on the head as part of a disposal. *)
LEMMA DisposalKept ==
  ASSUME TypeInv, ModulesInv, [Next]_vars, stack # <<>>, Len(stack') \in Nat,
         NEW b \in 1 .. Len(Rest), Len(Rest) <= Len(stack'),
         \A c \in 1 .. Len(Rest) : Level(stack', c) = Level(stack, c),
         Level(stack', b).t = "destroy",
         b + 2 \notin 1 .. Len(Rest) => ModulesGone(b)'
  PROVE  ModulesGone(b)'
<1>1. Len(stack) \in Nat /\ Len(Rest) = Len(stack) - 1
  BY LevelPop
<1>2. CASE b + 2 \in 1 .. Len(Rest)
  <2>1. /\ b \in 1 .. Len(stack) /\ b + 2 \in 1 .. Len(stack) /\ b + 2 \in 1 .. Len(stack')
        /\ \A c \in 1 .. b + 2 : c \in 1 .. Len(Rest)
    BY <1>1, <1>2
  <2>2. QED BY <1>1, <2>1, GoneKept
<1>3. QED BY <1>2

LEMMA DestroyGone ==
  ASSUME TypeInv, ModulesInv, [Next]_vars, DestroyNext \/ DestroyReturns,
         Len(stack') \in Nat, NEW b \in 1 .. Len(stack')
  PROVE  ModulesGone(b)'
<1>1. stack # <<>>
  BY DEF DestroyNext, DestroyReturns, Returns, At
<1>2. /\ Len(stack) \in Nat /\ Len(Rest) = Len(stack) - 1
      /\ \A c \in 1 .. Len(Rest) : Level(Rest, c) = Level(stack, c)
  BY <1>1, LevelPop
<1> SUFFICES ASSUME Level(stack', b).t = "destroy" PROVE ModulesGone(b)'
  BY DEF ModulesGone
<1>3. CASE DestroyNext
  <2>1. /\ UNCHANGED <<modules, records>> /\ Len(stack') = Len(stack) /\ Top.t = "destroy"
        /\ Level(stack', Len(stack)) = User("destroy", Top.inst)
        /\ \A c \in 1 .. Len(Rest) : Level(stack', c) = Level(stack, c)
    BY <1>3, DestroyEntered DEF DestroyNext, At
  <2>2. b # Len(stack)
    BY <2>1 DEF User, About
  <2>3. b \in 1 .. Len(Rest) /\ Len(Rest) <= Len(stack')
    BY <1>2, <2>1, <2>2
  <2>4. ASSUME b + 2 \notin 1 .. Len(Rest) PROVE ModulesGone(b)'
    <3> DEFINE f == Level(stack, b)
               loop == Level(stack, b + 1)
    <3>1. Level(stack', b) = f /\ f.t = "destroy"
      BY <2>1, <2>3
    <3>2. /\ b + 2 = Len(stack) /\ b + 1 = Len(Rest)
          /\ loop.t = "disposeModules"
          /\ Left(f.inst) \subseteq loop.insts \cup {Top.inst}
      BY <1>1, <2>1, <2>3, <2>4, <3>1, BelowTop
    <3>3. Level(stack', b + 1) = loop /\ Level(stack', b + 2) = User("destroy", Top.inst)
      BY <1>2, <2>1, <3>2
    <3>4. Disposing(User("destroy", Top.inst)) /\ User("destroy", Top.inst).inst = Top.inst
      BY DEF Disposing, Destroying, Leaving, User, About
    <3>5. b # Len(stack') /\ b + 1 # Len(stack')
      BY <1>2, <2>1, <3>2
    <3>6. (Left(Level(stack, b).inst))' = Left(f.inst)
      BY <2>1, <3>1 DEF Left
    <3>7. QED BY <3>1, <3>2, <3>3, <3>4, <3>5, <3>6 DEF ModulesGone, Disposing, Destroying, Leaving
  <2>5. QED BY <1>1, <2>1, <2>3, <2>4, DisposalKept
<1>4. CASE DestroyReturns
  <2>1. /\ stack' = Rest /\ Top.t = "user" /\ Top.hook = "destroy"
        /\ records' = records \ {Top.inst}
    BY <1>4 DEF DestroyReturns, Returns, At
  <2>2. /\ \A c \in 1 .. Len(Rest) : Level(stack', c) = Level(stack, c)
        /\ Len(stack') = Len(Rest) /\ b \in 1 .. Len(Rest) /\ Len(Rest) <= Len(stack')
    BY <1>2, <2>1
  <2>3. ASSUME b + 2 \notin 1 .. Len(Rest) PROVE ModulesGone(b)'
    <3> DEFINE f == Level(stack, b)
               loop == Level(stack, b + 1)
    <3>1. Level(stack', b) = f /\ f.t = "destroy"
      BY <2>2
    <3>2. /\ b + 1 = Len(Rest)
          /\ loop.t = "disposeModules"
          /\ Left(f.inst) \subseteq loop.insts \cup {Top.inst}
      BY <1>1, <2>1, <2>2, <2>3, <3>1, BelowTop
    <3>3. Level(stack', b + 1) = loop
      BY <1>2, <2>2, <3>2
    <3>4. b # Len(stack') /\ b + 1 = Len(stack')
      BY <1>2, <2>2, <3>2
    <3>5. \A i : i = f.inst => modules'[i] \cap records' \subseteq Left(i)
      <4>1. b \in 1 .. Len(stack)
        BY <1>2, <2>2
      <4>2. QED BY <3>1, <4>1, LeftShrinks DEF ModulesInv, Destroying, Leaving, Left
    <3>6. (Left(Level(stack, b).inst))' \subseteq loop.insts
      BY <2>1, <3>1, <3>2, <3>5 DEF Left
    <3>7. QED BY <3>2, <3>3, <3>4, <3>6 DEF ModulesGone
  <2>4. QED BY <1>1, <2>2, <2>3, DisposalKept
<1>5. QED BY <1>3, <1>4

LEMMA DisposeModulesGone ==
  ASSUME TypeInv, ModulesInv, [Next]_vars, DisposeModulesNext,
         Len(stack') \in Nat, NEW b \in 1 .. Len(stack')
  PROVE  ModulesGone(b)'
<1>1. stack # <<>> /\ Top.t = "disposeModules" /\ UNCHANGED <<modules, records>>
  BY DEF DisposeModulesNext, At, registryVars
<1>2. /\ Len(stack) \in Nat /\ Len(Rest) = Len(stack) - 1
      /\ \A c \in 1 .. Len(Rest) : Level(Rest, c) = Level(stack, c)
  BY <1>1, LevelPop
<1> SUFFICES ASSUME Level(stack', b).t = "destroy" PROVE ModulesGone(b)'
  BY DEF ModulesGone
<1>3. ASSUME NEW i, stack' = <<DisposeOne(i), DisposeModules(Top.insts \ {i})>> \o Rest
      PROVE  ModulesGone(b)'
  <2> DEFINE d == DisposeOne(i)
             g == DisposeModules(Top.insts \ {i})
  <2>1. stack' = <<d, g>> \o Rest
    BY <1>3
  <2>2. /\ d.t = "dispose" /\ d.inst = i
        /\ g.t = "disposeModules" /\ g.insts = Top.insts \ {i}
    BY DEF DisposeOne, DisposeModules, About
  <2> HIDE DEF d, g
  <2>3. /\ Len(stack') = Len(Rest) + 2
        /\ Level(stack', Len(Rest) + 1) = g /\ Level(stack', Len(Rest) + 2) = d
        /\ \A c \in 1 .. Len(Rest) : Level(stack', c) = Level(Rest, c)
    BY <1>1, <2>1, CalledOnTop, Zenon
  <2>4. b # Len(Rest) + 1 /\ b # Len(Rest) + 2
    BY <2>2, <2>3
  <2>5. /\ b \in 1 .. Len(Rest) /\ Len(Rest) <= Len(stack')
        /\ \A c \in 1 .. Len(Rest) : Level(stack', c) = Level(stack, c)
    BY <1>2, <2>3, <2>4
  <2>6. ASSUME b + 2 \notin 1 .. Len(Rest) PROVE ModulesGone(b)'
    <3> DEFINE f == Level(stack, b)
    <3>1. Level(stack', b) = f /\ f.t = "destroy"
      BY <2>5
    <3>2. b = Len(Rest) /\ Left(f.inst) \subseteq Top.insts
      BY <1>1, <2>5, <2>6, <3>1, BelowTop DEF Disposing, Destroying, Leaving
    <3>3. /\ Level(stack', b + 1) = g /\ Level(stack', b + 2) = d
          /\ b # Len(stack') /\ b + 1 # Len(stack')
      BY <1>2, <2>3, <3>2
    <3>4. (Left(Level(stack, b).inst))' = Left(f.inst)
      BY <1>1, <3>1 DEF Left
    <3>5. Left(f.inst) \subseteq g.insts \cup {d.inst}
      BY <2>2, <3>2
    <3>6. QED BY <2>2, <3>1, <3>3, <3>4, <3>5 DEF ModulesGone, Disposing
  <2>7. QED BY <1>1, <2>5, <2>6, DisposalKept
<1>4. ASSUME Top.insts = {}, stack' = Rest
      PROVE  ModulesGone(b)'
  <2>1. /\ \A c \in 1 .. Len(Rest) : Level(stack', c) = Level(stack, c)
        /\ Len(stack') = Len(Rest) /\ b \in 1 .. Len(Rest) /\ Len(Rest) <= Len(stack')
    BY <1>2, <1>4
  <2>2. ASSUME b + 2 \notin 1 .. Len(Rest) PROVE ModulesGone(b)'
    <3>1. Level(stack', b) = Level(stack, b) /\ Level(stack, b).t = "destroy"
      BY <2>1
    <3>2. b = Len(Rest) /\ Left(Level(stack, b).inst) = {}
      BY <1>1, <1>4, <2>1, <2>2, <3>1, BelowTop DEF Disposing, Destroying, Leaving
    <3>3. b = Len(stack') /\ b + 1 # Len(stack') /\ ~(b + 1 < Len(stack'))
      BY <1>2, <2>1, <3>2
    <3>4. (Left(Level(stack, b).inst))' = {}
      BY <1>1, <3>1, <3>2 DEF Left
    <3>5. QED BY <3>3, <3>4 DEF ModulesGone
  <2>3. QED BY <1>1, <2>1, <2>2, DisposalKept
<1>5. QED BY <1>3, <1>4 DEF DisposeModulesNext

(* A record of the registry is found under its token and name. *)
LEMMA RegisteredIsFound ==
  ASSUME UniqueNames, NEW i \in records
  PROVE  Found(i)
BY DEF UniqueNames, Found, IsFirst, Named, Bucket

LEMMA DisposeGone ==
  ASSUME TypeInv, ModulesInv, UniqueNames, [Next]_vars, DisposeNext,
         Len(stack') \in Nat, NEW b \in 1 .. Len(stack')
  PROVE  ModulesGone(b)'
<1>1. stack # <<>> /\ Top.t = "dispose" /\ UNCHANGED <<modules, records>>
  BY DEF DisposeNext, At, registryVars
<1>2. /\ Len(stack) \in Nat /\ Len(Rest) = Len(stack) - 1
      /\ \A c \in 1 .. Len(Rest) : Level(Rest, c) = Level(stack, c)
  BY <1>1, LevelPop
<1> SUFFICES ASSUME Level(stack', b).t = "destroy" PROVE ModulesGone(b)'
  BY DEF ModulesGone
<1>3. CASE Found(Top.inst)
  <2> DEFINE i == Top.inst
             d == DisposeModules(modules[i])
             g == DestroyOne(i)
  <2>1. stack' = <<d, g>> \o Rest
    BY <1>3 DEF DisposeNext
  <2>2. /\ d.t = "disposeModules" /\ d.insts = modules[i]
        /\ g.t = "destroy" /\ g.inst = i
    BY DEF DestroyOne, DisposeModules, About
  <2> HIDE DEF d, g
  <2>3. /\ Len(stack') = Len(Rest) + 2
        /\ Level(stack', Len(Rest) + 1) = g /\ Level(stack', Len(Rest) + 2) = d
        /\ \A c \in 1 .. Len(Rest) : Level(stack', c) = Level(Rest, c)
    BY <1>1, <2>1, CalledOnTop, Zenon
  <2>4. CASE b = Len(Rest) + 1
    <3>1. Level(stack', b) = g /\ Level(stack', b + 1) = d
          /\ b # Len(stack') /\ b + 1 = Len(stack')
      BY <1>2, <2>3, <2>4
    <3>2. (Left(Level(stack, b).inst))' \subseteq modules[i]
      BY <1>1, <2>2, <3>1 DEF Left
    <3>3. QED BY <2>2, <3>1, <3>2 DEF ModulesGone
  <2>5. CASE b # Len(Rest) + 1
    <3>1. b # Len(Rest) + 2
      BY <2>2, <2>3
    <3>2. /\ b \in 1 .. Len(Rest) /\ Len(Rest) <= Len(stack')
          /\ \A c \in 1 .. Len(Rest) : Level(stack', c) = Level(stack, c)
      BY <1>2, <2>3, <2>5, <3>1
    <3>3. ASSUME b + 2 \notin 1 .. Len(Rest) PROVE ModulesGone(b)'
      <4> DEFINE f == Level(stack, b)
                 loop == Level(stack, b + 1)
      <4>1. Level(stack', b) = f /\ f.t = "destroy"
        BY <3>2
      <4>2. /\ b + 1 = Len(Rest) /\ loop.t = "disposeModules"
            /\ Left(f.inst) \subseteq loop.insts \cup {i}
        BY <1>1, <3>2, <3>3, <4>1, BelowTop
      <4>3. /\ Level(stack', b + 1) = loop /\ Level(stack', b + 2) = g
            /\ b # Len(stack') /\ b + 1 # Len(stack')
        BY <1>2, <2>3, <3>2, <4>2
      <4>4. (Left(Level(stack, b).inst))' = Left(f.inst)
        BY <1>1, <4>1 DEF Left
      <4>5. QED BY <2>2, <4>2, <4>3, <4>4 DEF ModulesGone, Disposing, Destroying, Leaving
    <3>4. QED BY <1>1, <3>2, <3>3, DisposalKept
  <2>6. QED BY <2>4, <2>5
<1>4. CASE ~Found(Top.inst)
  <2>1. stack' = Rest /\ Top.inst \notin records
    BY <1>4, RegisteredIsFound DEF DisposeNext
  <2>2. /\ \A c \in 1 .. Len(Rest) : Level(stack', c) = Level(stack, c)
        /\ Len(stack') = Len(Rest) /\ b \in 1 .. Len(Rest) /\ Len(Rest) <= Len(stack')
    BY <1>2, <2>1
  <2>3. ASSUME b + 2 \notin 1 .. Len(Rest) PROVE ModulesGone(b)'
    <3> DEFINE f == Level(stack, b)
               loop == Level(stack, b + 1)
    <3>1. Level(stack', b) = f /\ f.t = "destroy"
      BY <2>2
    <3>2. /\ b + 1 = Len(Rest) /\ loop.t = "disposeModules"
          /\ Left(f.inst) \subseteq loop.insts \cup {Top.inst}
      BY <1>1, <2>2, <2>3, <3>1, BelowTop
    <3>3. Level(stack', b + 1) = loop /\ b # Len(stack') /\ b + 1 = Len(stack')
      BY <1>2, <2>2, <3>2
    <3>4. (Left(Level(stack, b).inst))' \subseteq loop.insts
      BY <1>1, <2>1, <3>1, <3>2 DEF Left
    <3>5. QED BY <3>2, <3>3, <3>4 DEF ModulesGone
  <2>4. QED BY <1>1, <2>2, <2>3, DisposalKept
<1>5. QED BY <1>3, <1>4

(* Nothing is called and nothing returns. *)
LEMMA StayGone ==
  ASSUME TypeInv, ModulesInv, [Next]_vars, stack' = stack, NEW b \in 1 .. Len(stack)
  PROVE  ModulesGone(b)'
<1> DEFINE q == Level(stack, b).inst
           one == Level(stack, b + 2)
           loop == Level(stack, b + 1)
<1> SUFFICES ASSUME Level(stack, b).t = "destroy" PROVE ModulesGone(b)'
  BY DEF ModulesGone
<1>1. \A i : i = q => modules'[i] \cap records' \subseteq Left(i)
  BY LeftShrinks DEF ModulesInv, Destroying, Leaving, Left
<1>2. modules'[q] \cap records' \subseteq Left(q)
  BY <1>1
<1>3. /\ b = Len(stack) => Left(q) = {}
      /\ b # Len(stack) => loop.t = "disposeModules"
      /\ b + 1 = Len(stack) => Left(q) \subseteq loop.insts
      /\ b + 1 < Len(stack) =>
           Disposing(one) /\ Left(q) \subseteq loop.insts \cup {one.inst}
  BY DEF ModulesInv, ModulesGone
<1>4. (Left(Level(stack, b).inst))' \subseteq Left(q)
  BY <1>2 DEF Left
<1>5. QED BY <1>3, <1>4 DEF ModulesGone, Disposing, Destroying, Leaving

(* An exception stops at user code, and so above the three frames or below. *)
LEMMA ThrowGone ==
  ASSUME TypeInv, ModulesInv, [Next]_vars, Breaks, NEW b \in 1 .. Len(stack')
  PROVE  ModulesGone(b)'
<1>1. /\ Len(stack') \in Nat /\ Len(stack) \in Nat /\ Len(stack') < Len(stack)
      /\ \A c \in 1 .. Len(stack') : Level(stack', c) = Level(stack, c)
      /\ Len(stack') # 0 => Level(stack', Len(stack')).t = "user"
  BY LevelThrow, LevelPop DEF Breaks
<1> SUFFICES ASSUME Level(stack', b).t = "destroy" PROVE ModulesGone(b)'
  BY DEF ModulesGone
<1>2. /\ b \in 1 .. Len(stack) /\ Level(stack, b).t = "destroy"
      /\ b # Len(stack') /\ b # Len(stack)
  BY <1>1
<1>3. Level(stack, b + 1).t = "disposeModules"
  BY <1>2 DEF ModulesInv, ModulesGone
<1>4. b + 1 # Len(stack')
  BY <1>1, <1>2, <1>3
<1>5. /\ b + 2 \in 1 .. Len(stack) /\ b + 2 \in 1 .. Len(stack')
      /\ \A c \in 1 .. b + 2 : c \in 1 .. Len(stack')
  BY <1>1, <1>2, <1>4
<1>6. QED BY <1>1, <1>2, <1>5, GoneKept

(* Steps that are no part of a disposal. *)
LEMMA OtherGone ==
  ASSUME TypeInv, ModulesInv, [Next]_vars, Runs, stack' # stack,
         ~(DisposeNext \/ DisposeModulesNext \/ DestroyNext \/ DestroyReturns),
         NEW b \in 1 .. Len(stack')
  PROVE  ModulesGone(b)'
<1>1. PICK m : /\ Arises(m)
               /\ \/ m = Len(stack) /\ (stack = <<>> \/ Top.t = "user")
                  \/ stack # <<>> /\ m = Len(stack) - 1 /\ (Top.t = "user" => UserReturns)
  BY DEF Runs
<1>2. /\ Len(stack) \in Nat /\ m \in Nat /\ Len(stack') \in Nat
      /\ m <= Len(stack) /\ m <= Len(stack')
      /\ \A c \in 1 .. m : Level(stack', c) = Level(stack, c)
  BY <1>1, LenProperties DEF Arises, TypeInv, TypeOK
<1> SUFFICES ASSUME Level(stack', b).t = "destroy" PROVE ModulesGone(b)'
  BY DEF ModulesGone
<1>3. b \in 1 .. m
  <2>1. b > m => Fresh(Level(stack', b))
    BY <1>1, <1>2 DEF Arises
  <2>2. b > m => DisposeNext
    BY <2>1 DEF Fresh
  <2>3. QED BY <1>2, <2>2
<1>4. Level(stack, b).t = "destroy" /\ b \in 1 .. Len(stack)
  BY <1>2, <1>3
<1>5. b + 2 \in 1 .. m
  <2>1. CASE m = Len(stack) /\ (stack = <<>> \/ Top.t = "user")
    <3>1. stack # <<>>
      BY <1>4
    <3>2. Level(stack, Len(stack)) = Top /\ Top.t = "user"
      BY <2>1, <3>1, LevelPop
    <3>3. b # Len(stack)
      BY <1>4, <3>2
    <3>4. Level(stack, b + 1).t = "disposeModules"
      BY <1>4, <3>3 DEF ModulesInv, ModulesGone
    <3>5. b + 1 # Len(stack)
      BY <3>2, <3>4
    <3>6. QED BY <1>2, <1>4, <2>1, <3>3, <3>5
  <2>2. CASE stack # <<>> /\ m = Len(stack) - 1 /\ (Top.t = "user" => UserReturns)
    <3>1. m = Len(Rest) /\ b \in 1 .. Len(Rest)
      BY <1>3, <2>2, LevelPop
    <3>2. Top.t # "disposeModules" /\ ~Disposing(Top)
      BY <2>2, DisposalActs DEF Disposing, Destroying, Leaving
    <3>3. QED BY <1>4, <2>2, <3>1, <3>2, BelowTop
  <2>3. QED BY <1>1, <2>1, <2>2
<1>6. /\ b + 2 \in 1 .. Len(stack) /\ b + 2 \in 1 .. Len(stack')
      /\ \A c \in 1 .. b + 2 : c \in 1 .. m
  BY <1>2, <1>5
<1>7. QED BY <1>2, <1>4, <1>6, GoneKept

LEMMA ModulesStep ==
  ASSUME ConstructorsDoNotReenter, TypeInv, TypeInv', NamesInv, ModulesInv, [Next]_vars
  PROVE  ModulesInv'
<1>1. Len(stack') \in Nat
  BY LenProperties DEF TypeInv, TypeOK
<1>2. UniqueNames
  BY DEF NamesInv
<1>3. ASSUME NEW b \in 1 .. Len(stack') PROVE ModulesGone(b)'
  <2>1. CASE stack' = stack
    BY <1>3, <2>1, StayGone
  <2>2. CASE DisposeNext
    BY <1>1, <1>2, <1>3, <2>2, DisposeGone
  <2>3. CASE DisposeModulesNext
    BY <1>1, <1>3, <2>3, DisposeModulesGone
  <2>4. CASE DestroyNext \/ DestroyReturns
    BY <1>1, <1>3, <2>4, DestroyGone
  <2>5. CASE Breaks
    BY <1>3, <2>5, ThrowGone
  <2>6. Runs \/ Breaks
    BY StepRuns DEF ModulesInv
  <2>7. QED BY <1>3, <2>1, <2>2, <2>3, <2>4, <2>5, <2>6, OtherGone
<1>4. OwnModules'
  BY OwnModulesStep DEF ModulesInv
<1>5. Emptied'
  BY EmptiedStep
<1>6. Younger'
  BY YoungerStep DEF ModulesInv
<1>7. Unlisted'
  BY UnlistedStep DEF ModulesInv
<1> DEFINE Gone == \A b \in 1 .. Len(stack) : ModulesGone(b)
<1>8. Gone'
  BY <1>3
<1>9. QED BY <1>4, <1>5, <1>6, <1>7, <1>8 DEF ModulesInv

(* What enters destroy(), or is still in it, has no module left. *)
LEMMA EntersEmptied ==
  ASSUME TypeInv, TypeInv', ModulesInv, [Next]_vars, NEW i \in Inst, Enters("destroy", i)
  PROVE  modules[i] \cap records = {}
<1>1. PICK m : Arises(m)
  BY StepArises DEF ModulesInv
<1>2. /\ Len(stack) \in Nat /\ m \in Nat /\ Len(stack') \in Nat
      /\ m <= Len(stack) /\ m <= Len(stack') /\ Len(stack') >= Len(stack)
  BY <1>1, LenProperties DEF Arises, Enters, TypeInv, TypeOK
<1> DEFINE f == Level(stack', Len(stack'))
<1>3. /\ Len(stack') \in 1 .. Len(stack')
      /\ f.t = "user" /\ f.hook = "destroy" /\ f.inst = i
  <2>1. Len(stack') # 0
    BY <1>2 DEF TypeInv, TypeOK, Enters
  <2>2. Len(stack') + 1 - Len(stack') = 1
    BY <1>2
  <2>3. QED BY <1>2, <2>1, <2>2 DEF Level, Enters
<1>4. CASE Len(stack') = m
  <2>1. Len(stack') = Len(stack) /\ Len(stack) \in 1 .. m /\ Len(stack) \in 1 .. Len(stack)
    BY <1>2, <1>3, <1>4
  <2>2. f = Level(stack, Len(stack))
    BY <1>1, <2>1 DEF Arises
  <2>3. QED BY <1>3, <2>1, <2>2 DEF ModulesInv, Emptied, Left
<1>5. CASE Len(stack') > m
  <2>1. Fresh(f)
    BY <1>1, <1>2, <1>3, <1>5 DEF Arises
  <2>2. DestroyNext
    BY <1>3, <2>1 DEF Fresh
  <2>3. f.inst = Top.inst /\ Left(Top.inst) = {}
    BY <2>2, DestroyEntered DEF User, About
  <2>4. QED BY <1>3, <2>3 DEF Left
<1>6. QED BY <1>2, <1>4, <1>5

(* An instance's destroy() is called when none of its modules is           *)
(* registered any longer: disposeRecord destroys the modules one by one,   *)
(* each with its own, before it comes to the record itself (485-516).      *)
(* Callbacks may re-enter the manager meanwhile, and unregister or destroy *)
(* what the loop has still to visit, or throw and end it.                  *)
THEOREM ModulesGoFirst ==
  ASSUME ConstructorsDoNotReenter
  PROVE  Spec => ModulesDestroyedFirst
<1> DEFINE Step == \A i \in Inst : Enters("destroy", i) => modules[i] \cap records = {}
           Inv == NamesInv /\ ModulesInv
<1>1. Init => Inv
  <2> SUFFICES ASSUME Init PROVE Inv
    OBVIOUS
  <2>1. stack = <<>>
    BY DEF Init
  <2>2. \A b \in 1 .. Len(stack) : FALSE
    BY <2>1
  <2>3. NamesInv
    BY DEF Init, NamesInv, UniqueNames, OneConstructor
  <2>4. Emptied /\ Younger /\ Unlisted /\ \A b \in 1 .. Len(stack) : ModulesGone(b)
    BY <2>1, <2>2 DEF Emptied, Younger, Unlisted
  <2>5. QED BY <2>3, <2>4, OwnModulesInit DEF ModulesInv
<1>2. TypeInv /\ TypeInv' /\ Inv /\ [Next]_vars => Inv'
  BY NamesStep, ModulesStep
<1>3. TypeInv /\ TypeInv' /\ Inv /\ [Next]_vars => [Step]_vars
  BY EntersEmptied
<1> HIDE DEF Inv, Step
<1>4. Spec => [][Step]_vars
  BY <1>1, <1>2, <1>3, TypeCorrect, PTL DEF Spec
<1>5. QED BY <1>4 DEF Step, ModulesDestroyedFirst


-----------------------------------------------------------------------------
(* Without a throw.  What follows holds until some call has thrown; an      *)
(* activation then either skips a registration or enters a constructor,     *)
(* and the loops that go on with the new instance lie under it.             *)

LEMMA FailedStays ==
  ASSUME [Next]_vars, failed
  PROVE  failed'
<1>1. Throw => failed'
  BY DEF Throw
<1>2. CASE Call
  BY <1>2
  DEF Call, InitializeProfile, Start, Tick, Reset, Dispose, Register, Unregister, Construct,
      historyVars
<1>3. CASE Advance
  BY <1>1, <1>3
  DEF Advance, ProfileNext, ProfileDone, ModulesNext, ModulesDone, WalkNext,
      StartIfStartedNext, HookNext, HookModulesNext, ForEachNext, DisposeAllNext,
      DisposeNext, DisposeModulesNext, DestroyNext, ConstructReturns, InitializeReturns,
      StartReturns, CallbackReturns, DestroyReturns, UserThrows, Construct, historyVars
<1>4. CASE Wait \/ UNCHANGED vars
  BY <1>4
  DEF Wait, ResolveAsync, ResolveTimeout, WaitUntilInitialized, InitializationTimeout,
      vars, historyVars
<1>5. QED BY <1>2, <1>3, <1>4 DEF Next

(* One more frame. *)
Pushed(f, s) == <<f>> \o s

LEMMA LevelPush ==
  ASSUME NEW S, NEW s \in Seq(S), NEW f \in S, NEW t, t = Pushed(f, s)
  PROVE  /\ t \in Seq(S) /\ Len(t) = Len(s) + 1 /\ Len(s) \in Nat
         /\ Level(t, Len(s) + 1) = f
         /\ \A b \in 1 .. Len(s) : Level(t, b) = Level(s, b)
<1> DEFINE q == <<f>>
<1>1. q \in Seq(S) /\ Len(q) = 1 /\ q[1] = f
  OBVIOUS
<1> HIDE DEF q
<1>2. t = q \o s
  BY DEF q, Pushed
<1>3. q \o s \in Seq(S)
  BY <1>1, ConcatProperties
<1>4. QED BY <1>1, <1>2, <1>3, LevelCall

(* The constructor of a top-level registration, on its loops. *)
LEMMA ActivationLevels ==
  ASSUME NEW S, NEW base \in Seq(S), NEW s, NEW u, NEW t,
         t = Pushed(u, ThenInitialize(s) \o base)
  PROVE  /\ Len(base) \in Nat /\ Len(t) = Len(base) + 3
         /\ Level(t, Len(base) + 1) = Walk("initialize", Len(record) + 1, 0)
         /\ Level(t, Len(base) + 2) = ModuleLoop(Len(record) + 1, ModulesOf[s])
         /\ Level(t, Len(base) + 3) = u
         /\ \A b \in 1 .. Len(base) : Level(t, b) = Level(base, b)
<1> DEFINE w == Walk("initialize", Len(record) + 1, 0)
           l == ModuleLoop(Len(record) + 1, ModulesOf[s])
           T == S \cup {u, w, l}
           q == <<l, w>>
<1>1. w \in T /\ l \in T /\ u \in T /\ base \in Seq(T)
  BY SequencesGrow
<1>2. ThenInitialize(s) = q
  BY DEF ThenInitialize
<1> HIDE DEF w, l, T
<1>3. q \in Seq(T) /\ Len(q) = 2 /\ q[1] = l /\ q[2] = w
  BY <1>1
<1> HIDE DEF q
<1> DEFINE r == q \o base
<1>4. /\ r \in Seq(T) /\ Len(base) \in Nat /\ Len(r) = Len(base) + 2
      /\ Level(r, Len(base) + 1) = w /\ Level(r, Len(base) + 2) = l
      /\ \A b \in 1 .. Len(base) : Level(r, b) = Level(base, b)
  BY <1>1, <1>3, LevelCall, ConcatProperties
<1>5. t = Pushed(u, r)
  BY <1>2
<1> HIDE DEF r
<1>6. /\ Len(t) = Len(r) + 1 /\ Level(t, Len(r) + 1) = u
      /\ \A b \in 1 .. Len(r) : Level(t, b) = Level(r, b)
  BY <1>1, <1>4, <1>5, LevelPush
<1>7. Len(t) = Len(base) + 3 /\ Level(t, Len(base) + 3) = u
  BY <1>4, <1>6
<1>8. /\ Len(base) + 1 \in 1 .. Len(r) /\ Len(base) + 2 \in 1 .. Len(r)
      /\ \A b \in 1 .. Len(base) : b \in 1 .. Len(r)
  BY <1>4
<1>9. /\ Level(t, Len(base) + 1) = w /\ Level(t, Len(base) + 2) = l
      /\ \A b \in 1 .. Len(base) : Level(t, b) = Level(base, b)
  BY <1>4, <1>6, <1>8
<1>10. QED BY <1>4, <1>7, <1>9 DEF w, l

(* The step creates the next instance, of parent p. *)
Adds(p) ==
  /\ \E s \in Service :
       record' = Append(record, [svc |-> s, parent |-> p, deps |-> Resolved(s)])
  /\ serviceModules' =
       IF p = 0 THEN serviceModules
       ELSE [serviceModules EXCEPT ![p] = Append(@, Len(record) + 1)]
  /\ UNCHANGED <<records, place, modules, flagVars, managerVars, waiterVars, historyVars>>

Keeps(m) == \A b \in 1 .. m : Level(stack', b) = Level(stack, b)

(* Its constructor runs above level m, on the loops that go on with it. *)
Begins(m) ==
  /\ Len(stack') = m + 3
  /\ Level(stack', m + 1) = Walk("initialize", Len(record) + 1, 0)
  /\ Level(stack', m + 2).t = "modules" /\ Level(stack', m + 2).inst = Len(record) + 1
  /\ Level(stack', m + 3) = User("construct", Len(record) + 1)

Skips ==
  /\ stack # <<>> /\ Top.t \in {"profile", "modules"}
  /\ UNCHANGED <<registryVars, flagVars, managerVars, waiterVars, historyVars>>
  /\ Len(stack') = Len(stack) /\ Keeps(Len(stack) - 1)
  /\ Level(stack', Len(stack)).t = Top.t
  /\ Top.t = "modules" => Level(stack', Len(stack)).inst = Top.inst

ProfileCreates ==
  /\ stack # <<>> /\ Top.t = "profile" /\ Adds(0)
  /\ Keeps(Len(stack) - 1) /\ Level(stack', Len(stack)).t = "profile"
  /\ Begins(Len(stack))

RegisterCreates ==
  /\ Calls("register") /\ ~disposed /\ Adds(0)
  /\ Keeps(Len(stack)) /\ Level(stack', Len(stack) + 1) = StartIfStarted(Len(record) + 1)
  /\ Begins(Len(stack) + 1)

ModulesCreate ==
  /\ stack # <<>> /\ Top.t = "modules" /\ Adds(Top.inst)
  /\ Len(stack') = Len(stack) + 1 /\ Keeps(Len(stack) - 1)
  /\ Level(stack', Len(stack)).t = "modules" /\ Level(stack', Len(stack)).inst = Top.inst
  /\ Level(stack', Len(stack) + 1) = User("construct", Len(record) + 1)

(* One frame in place of the head, and another on top. *)
LEMMA ReplaceLevels ==
  ASSUME TypeInv, stack # <<>>, NEW f, NEW t, t = Pushed(f, Rest)
  PROVE  /\ Len(t) = Len(stack) /\ Len(stack) \in Nat \ {0} /\ Level(t, Len(stack)) = f
         /\ t \in Seq(Frame \cup {f})
         /\ \A b \in 1 .. Len(stack) - 1 : Level(t, b) = Level(stack, b)
<1> DEFINE S == Frame \cup {f}
<1>1. f \in S /\ Rest \in Seq(S)
  BY RestFrames, SequencesGrow
<1> HIDE DEF S
<1>2. /\ t \in Seq(S) /\ Len(t) = Len(Rest) + 1 /\ Level(t, Len(Rest) + 1) = f
      /\ \A b \in 1 .. Len(Rest) : Level(t, b) = Level(Rest, b)
  BY <1>1, LevelPush
<1>3. /\ Len(stack) \in Nat \ {0} /\ Len(Rest) = Len(stack) - 1 /\ Len(Rest) + 1 = Len(stack)
      /\ \A b \in 1 .. Len(Rest) : Level(Rest, b) = Level(stack, b)
  BY LevelPop
<1>4. QED BY <1>2, <1>3 DEF S

LEMMA ProfileLevels ==
  ASSUME TypeInv, ProfileNext, ~failed'
  PROVE  Skips \/ ProfileCreates
<1>1. stack # <<>> /\ Top.t = "profile"
  BY DEF ProfileNext, At
<1>2. PICK s \in Top.svcs :
        LET remaining == <<ProfileLoop(Top.svcs \ {s})>> \o Rest
        IN \/ Construct(s, 0, ThenInitialize(s) \o remaining)
           \/ /\ stack' = remaining
              /\ UNCHANGED <<registryVars, flagVars, managerVars, waiterVars, historyVars>>
  BY DEF ProfileNext, Throw
<1>3. s \in Service
  BY <1>1, <1>2, TopFields
<1> DEFINE f == ProfileLoop(Top.svcs \ {s})
           base == Pushed(f, Rest)
<1>4. f.t = "profile"
  BY DEF ProfileLoop, About
<1> HIDE DEF f
<1>5. /\ Len(base) = Len(stack) /\ Len(stack) \in Nat \ {0} /\ Level(base, Len(stack)) = f
      /\ base \in Seq(Frame \cup {f})
      /\ \A b \in 1 .. Len(stack) - 1 : Level(base, b) = Level(stack, b)
  BY <1>1, ReplaceLevels
<1>6. \/ Construct(s, 0, ThenInitialize(s) \o base)
      \/ /\ stack' = base
         /\ UNCHANGED <<registryVars, flagVars, managerVars, waiterVars, historyVars>>
  BY <1>2 DEF f, Pushed
<1> HIDE DEF base
<1>7. CASE /\ stack' = base
           /\ UNCHANGED <<registryVars, flagVars, managerVars, waiterVars, historyVars>>
  BY <1>1, <1>4, <1>5, <1>7 DEF Skips, Keeps
<1>8. CASE Construct(s, 0, ThenInitialize(s) \o base)
  <2> DEFINE u == User("construct", Len(record) + 1)
  <2>1. stack' = Pushed(u, ThenInitialize(s) \o base)
    BY <1>8 DEF Construct, Pushed
  <2> HIDE DEF u
  <2>2. /\ Len(stack') = Len(base) + 3
        /\ Level(stack', Len(base) + 1) = Walk("initialize", Len(record) + 1, 0)
        /\ Level(stack', Len(base) + 2) = ModuleLoop(Len(record) + 1, ModulesOf[s])
        /\ Level(stack', Len(base) + 3) = u
        /\ \A b \in 1 .. Len(base) : Level(stack', b) = Level(base, b)
    BY <1>5, <2>1, ActivationLevels
  <2>3. Begins(Len(stack))
    BY <1>5, <2>2 DEF Begins, ModuleLoop, About, u
  <2>4. Keeps(Len(stack) - 1) /\ Level(stack', Len(stack)).t = "profile"
    BY <1>4, <1>5, <2>2 DEF Keeps
  <2>5. Adds(0)
    BY <1>3, <1>8 DEF Construct, Adds
  <2>6. QED BY <1>1, <2>3, <2>4, <2>5 DEF ProfileCreates
<1>9. QED BY <1>6, <1>7, <1>8

LEMMA RegisterLevels ==
  ASSUME TypeInv, NEW s \in Service, Register(s)
  PROVE  RegisterCreates
<1> DEFINE u == User("construct", Len(record) + 1)
           f == StartIfStarted(Len(record) + 1)
           S == Frame \cup {f, Walk("initialize", Len(record) + 1, 0),
                            ModuleLoop(Len(record) + 1, ModulesOf[s])}
           base == Pushed(f, stack)
<1>1. Construct(s, 0, ThenInitialize(s) \o <<f>> \o stack)
  BY DEF Register
<1>2. f \in S /\ stack \in Seq(S)
  BY SequencesGrow DEF TypeInv, TypeOK
<1>3. ThenInitialize(s) \in Seq(S)
  BY DEF ThenInitialize
<1> HIDE DEF f, S
<1>4. <<f>> \in Seq(S)
  BY <1>2
<1>5. (ThenInitialize(s) \o <<f>>) \o stack = ThenInitialize(s) \o base
  BY <1>2, <1>3, <1>4, ConcatAssociative DEF Pushed
<1>6. stack' = Pushed(u, ThenInitialize(s) \o base)
  BY <1>1, <1>5 DEF Construct, Pushed
<1>7. /\ base \in Seq(S) /\ Len(base) = Len(stack) + 1 /\ Len(stack) \in Nat
      /\ Level(base, Len(stack) + 1) = f
      /\ \A b \in 1 .. Len(stack) : Level(base, b) = Level(stack, b)
  BY <1>2, LevelPush
<1> HIDE DEF base, u
<1>8. /\ Len(stack') = Len(base) + 3
      /\ Level(stack', Len(base) + 1) = Walk("initialize", Len(record) + 1, 0)
      /\ Level(stack', Len(base) + 2) = ModuleLoop(Len(record) + 1, ModulesOf[s])
      /\ Level(stack', Len(base) + 3) = u
      /\ \A b \in 1 .. Len(base) : Level(stack', b) = Level(base, b)
  BY <1>6, <1>7, ActivationLevels
<1>9. Begins(Len(stack) + 1)
  BY <1>7, <1>8 DEF Begins, ModuleLoop, About, u
<1>10. Keeps(Len(stack)) /\ Level(stack', Len(stack) + 1) = f
  BY <1>7, <1>8 DEF Keeps
<1>11. Adds(0)
  BY DEF Register, Construct, Adds
<1>12. QED BY <1>9, <1>10, <1>11 DEF RegisterCreates, Register, f

LEMMA ModulesLevels ==
  ASSUME TypeInv, ModulesNext, ~failed'
  PROVE  Skips \/ ModulesCreate
<1>1. stack # <<>> /\ Top.t = "modules"
  BY DEF ModulesNext, At
<1>2. PICK s \in Top.svcs :
        LET remaining == <<ModuleLoop(Top.inst, Top.svcs \ {s})>> \o Rest
        IN \/ Construct(s, Top.inst, remaining)
           \/ /\ stack' = remaining
              /\ UNCHANGED <<registryVars, flagVars, managerVars, waiterVars, historyVars>>
  BY DEF ModulesNext, Throw
<1>3. s \in Service
  BY <1>1, <1>2, TopFields
<1> DEFINE f == ModuleLoop(Top.inst, Top.svcs \ {s})
           base == Pushed(f, Rest)
<1>4. f.t = "modules" /\ f.inst = Top.inst
  BY DEF ModuleLoop, About
<1> HIDE DEF f
<1>5. /\ Len(base) = Len(stack) /\ Len(stack) \in Nat \ {0} /\ Level(base, Len(stack)) = f
      /\ base \in Seq(Frame \cup {f})
      /\ \A b \in 1 .. Len(stack) - 1 : Level(base, b) = Level(stack, b)
  BY <1>1, ReplaceLevels
<1>6. \/ Construct(s, Top.inst, base)
      \/ /\ stack' = base
         /\ UNCHANGED <<registryVars, flagVars, managerVars, waiterVars, historyVars>>
  BY <1>2 DEF f, Pushed
<1> HIDE DEF base
<1>7. CASE /\ stack' = base
           /\ UNCHANGED <<registryVars, flagVars, managerVars, waiterVars, historyVars>>
  BY <1>1, <1>4, <1>5, <1>7 DEF Skips, Keeps
<1>8. CASE Construct(s, Top.inst, base)
  <2> DEFINE u == User("construct", Len(record) + 1)
             S == Frame \cup {f, u}
  <2>1. stack' = Pushed(u, base)
    BY <1>8 DEF Construct, Pushed
  <2>2. u \in S /\ base \in Seq(S)
    BY <1>5, SequencesGrow
  <2> HIDE DEF u, S
  <2>3. /\ Len(stack') = Len(base) + 1 /\ Level(stack', Len(base) + 1) = u
        /\ \A b \in 1 .. Len(base) : Level(stack', b) = Level(base, b)
    BY <2>1, <2>2, LevelPush
  <2>4. /\ Len(stack') = Len(stack) + 1 /\ Keeps(Len(stack) - 1)
        /\ Level(stack', Len(stack)).t = "modules" /\ Level(stack', Len(stack)).inst = Top.inst
        /\ Level(stack', Len(stack) + 1) = User("construct", Len(record) + 1)
    BY <1>4, <1>5, <2>3 DEF Keeps, u
  <2>5. Adds(Top.inst)
    BY <1>3, <1>8 DEF Construct, Adds
  <2>6. QED BY <1>1, <2>4, <2>5 DEF ModulesCreate
<1>9. QED BY <1>6, <1>7, <1>8

LEMMA ConstructsLevels ==
  ASSUME TypeInv, Constructs, ~failed'
  PROVE  Skips \/ ProfileCreates \/ RegisterCreates \/ ModulesCreate
BY ProfileLevels, RegisterLevels, ModulesLevels DEF Constructs

-----------------------------------------------------------------------------
(* Modules follow their parent.                                            *)
(*                                                                         *)
(* The loop that makes the modules of an instance is the running code, or  *)
(* waits for the constructor that is: its own instance's, which the head   *)
(* of the loop's walk comes before, or that of a module it makes for a     *)
(* registered parent.  Until it ends the parent's record lists none, so a  *)
(* registered module is listed or its parent's loop is still there.        *)

LoopsFor(p) ==
  \E b \in 1 .. Len(stack) : Level(stack, b).t = "modules" /\ Level(stack, b).inst = p

Listed(i) ==
  \E k \in 1 .. Len(serviceModules[record[i].parent]) : serviceModules[record[i].parent][k] = i

Making ==
  \A b \in 1 .. Len(stack) : Level(stack, b).t = "modules" =>
    \/ b = Len(stack) /\ Level(stack, b).inst \in records
    \/ /\ b + 1 = Len(stack) /\ Constructing(Top)
       /\ \/ record[Top.inst].parent = 0 /\ Level(stack, b).inst = Top.inst
          \/ record[Top.inst].parent = Level(stack, b).inst /\ Level(stack, b).inst \in records

Sited ==
  (stack # <<>> /\ Constructing(Top) /\ record[Top.inst].parent # 0) =>
    /\ Len(stack) > 1 /\ Level(stack, Len(stack) - 1).t = "modules"
    /\ Level(stack, Len(stack) - 1).inst = record[Top.inst].parent
    /\ Listed(Top.inst)

Follows(i) ==
  record[i].parent # 0 =>
    /\ record[i].parent \in records /\ Listed(i)
    /\ i \in modules[record[i].parent] \/ LoopsFor(record[i].parent)

Followed == \A i \in records : Follows(i)

FollowInv == ~failed => Making /\ Sited /\ Followed

(* No module loop and no constructor is on the stack. *)
Unmaking ==
  \A b \in 1 .. Len(stack) :
    Level(stack, b).t # "modules" /\ ~Constructing(Level(stack, b))

(* The head is the highest level. *)
LEMMA HeadLevel ==
  ASSUME TypeInv', stack' # <<>>
  PROVE  Len(stack') \in Nat \ {0} /\ Level(stack', Len(stack')) = Top'
<1>1. stack' \in Seq(Frame)
  BY DEF TypeInv, TypeOK, Frame, Hook
<1>2. Len(stack') \in Nat \ {0} /\ Head(stack') = stack'[1]
  BY <1>1, LenProperties
<1>3. Len(stack') + 1 - Len(stack') = 1
  BY <1>2
<1>4. QED BY <1>2, <1>3 DEF Level, Top

(* The levels under the head hold no constructor. *)
LEMMA SettledLevels ==
  ASSUME TypeInv, NamesInv, NEW b \in 1 .. Len(stack), b # Len(stack)
  PROVE  ~Constructing(Level(stack, b))
<1>1. stack # <<>> /\ Len(stack) \in Nat
  BY LenProperties DEF TypeInv, TypeOK
<1>2. /\ b \in 1 .. Len(Rest) /\ Len(Rest) \in Nat
      /\ Level(Rest, b) = Level(stack, b)
  BY <1>1, LevelPop
<1>3. Rest \in Seq(Settled)
  BY <1>1 DEF NamesInv, OneConstructor
<1>4. Len(Rest) + 1 - b \in 1 .. Len(Rest)
  BY <1>2
<1>5. Level(Rest, b) \in Settled
  BY <1>3, <1>4, ElementOfSeq DEF Level
<1>6. QED BY <1>2, <1>5 DEF Settled

(* When the running code neither makes modules nor is a constructor, none   *)
(* is on the stack.                                                        *)
LEMMA UnmakingHead ==
  ASSUME TypeInv, NamesInv, Making,
         stack # <<>> => Top.t # "modules" /\ ~Constructing(Top)
  PROVE  Unmaking
<1> SUFFICES ASSUME NEW b \in 1 .. Len(stack)
             PROVE  Level(stack, b).t # "modules" /\ ~Constructing(Level(stack, b))
  BY DEF Unmaking
<1>1. stack # <<>>
  BY LenProperties DEF TypeInv, TypeOK
<1>2. Level(stack, Len(stack)) = Top
  BY <1>1, LevelPop
<1>3. ~Constructing(Level(stack, b))
  BY <1>1, <1>2, SettledLevels
<1>4. Level(stack, b).t # "modules"
  BY <1>1, <1>2 DEF Making
<1>5. QED BY <1>3, <1>4

(* Nor does any other step bring one. *)
LEMMA UnmakingStep ==
  ASSUME ConstructorsDoNotReenter, TypeInv, TypeInv', NamesInv, OwnModules, Making,
         [Next]_vars, ~failed', ~(Wait \/ UNCHANGED vars),
         ~Constructs, ~ConstructReturns, ~ModulesDone
  PROVE  Unmaking /\ Unmaking' /\ Runs /\ UNCHANGED record
<1>1. ~Throw
  BY DEF Throw
<1>2. Runs
  BY <1>1, StepRuns DEF Breaks
<1>3. PICK m : Arises(m)
  BY StepArises
<1>4. /\ Len(stack) \in Nat /\ m \in Nat /\ Len(stack') \in Nat /\ m <= Len(stack)
      /\ Len(record) \in Nat
  BY <1>3, LenProperties DEF Arises, TypeInv, TypeOK
<1>5. stack # <<>> => Top.t # "modules"
  <2> SUFFICES ASSUME stack # <<>>, Top.t = "modules" PROVE FALSE
    OBVIOUS
  <2>1. \A op : ~Calls(op)
    BY DEF Calls, At
  <2>2. ~Call
    BY <2>1 DEF Call, InitializeProfile, Start, Tick, Reset, Dispose, Register, Unregister
  <2>3. ~Advance
    BY DEF Advance, Constructs, ProfileNext, ProfileDone, WalkNext, StartIfStartedNext,
           HookNext, HookModulesNext, ForEachNext, DisposeAllNext, DisposeNext,
           DisposeModulesNext, DestroyNext, InitializeReturns, StartReturns, CallbackReturns,
           DestroyReturns, UserThrows, Returns, At
  <2>4. QED BY <2>2, <2>3 DEF Next
<1>6. stack # <<>> => ~Constructing(Top)
  BY <1>1, ConstructorRuns DEF UserThrows
<1>7. Unmaking
  BY <1>5, <1>6, UnmakingHead
<1>8. UNCHANGED record
  BY RegistrySteps
  DEF ConstructReturns, DestroyReturns, ProfileDone, registryVars
<1>9. ASSUME NEW c \in 1 .. Len(stack')
      PROVE  Level(stack', c).t # "modules" /\ ~Constructing(Level(stack', c))
  <2>1. CASE c <= m
    <3>1. c \in 1 .. m /\ c \in 1 .. Len(stack)
      BY <1>4, <2>1
    <3>2. QED BY <1>3, <1>7, <3>1 DEF Arises, Unmaking
  <2>2. CASE ~(c <= m)
    <3>1. Fresh(Level(stack', c))
      BY <1>3, <1>4, <2>2 DEF Arises
    <3>2. Level(stack', c).t = "modules" => Level(stack', c).inst \in 1 .. Len(record)
      <4>1. Len(stack') + 1 - c \in 1 .. Len(stack')
        BY <1>4
      <4>2. Level(stack', c) \in Frames(Len(record))
        BY <1>8, <4>1, ElementOfSeq DEF TypeInv, Bounded, Level, Frames
      <4>3. QED BY <4>2 DEF Frames
    <3>3. Level(stack', c).t # "modules"
      BY <1>4, <1>5, <3>1, <3>2 DEF Fresh
    <3>4. QED BY <3>1, <3>3 DEF Fresh, Constructing
  <2>3. QED BY <2>1, <2>2
<1>10. Unmaking'
  BY <1>9 DEF Unmaking, Constructing
<1>11. QED BY <1>2, <1>7, <1>8, <1>10

Holds(s, j) == \E k \in 1 .. Len(s) : s[k] = j

(* What is spliced out of a list is the one it was asked for. *)
LEMMA WithoutKeeps ==
  ASSUME NEW S, NEW s \in Seq(S), NEW x, NEW j, j # x, Holds(s, j)
  PROVE  Holds(Without(s, x), j)
<1> USE DEF Holds
<1>1. CASE ~ \E k \in 1 .. Len(s) : s[k] = x
  BY <1>1 DEF Without
<1>2. CASE \E k \in 1 .. Len(s) : s[k] = x
  <2> DEFINE n == CHOOSE k \in 1 .. Len(s) : s[k] = x
             a == SubSeq(s, 1, n - 1)
             b == SubSeq(s, n + 1, Len(s))
  <2>1. n \in 1 .. Len(s) /\ s[n] = x
    BY <1>2
  <2>2. Without(s, x) = a \o b
    BY <1>2 DEF Without, RemoveAt
  <2> HIDE DEF n
  <2>3. Len(s) \in Nat
    BY LenProperties
  <2>4. /\ a \in Seq(S) /\ Len(a) = n - 1 /\ \A k \in 1 .. n - 1 : a[k] = s[k]
    <3>1. \A i \in 1 .. (n - 1) : s[i] \in S
      BY <2>1
    <3>2. QED BY <2>1, <2>3, <3>1, SubSeqProperties
  <2>5. /\ b \in Seq(S) /\ Len(b) = Len(s) - n
        /\ \A k \in 1 .. Len(s) - n : b[k] = s[n + k]
    <3>1. \A i \in (n + 1) .. Len(s) : s[i] \in S
      BY <2>1
    <3>2. QED BY <2>1, <2>3, <3>1, SubSeqProperties
  <2> HIDE DEF a, b
  <2>6. /\ Len(a \o b) = Len(a) + Len(b)
        /\ \A k \in 1 .. Len(a) + Len(b) :
             (a \o b)[k] = IF k <= Len(a) THEN a[k] ELSE b[k - Len(a)]
    BY <2>4, <2>5, ConcatProperties
  <2>7. PICK k \in 1 .. Len(s) : s[k] = j
    OBVIOUS
  <2>8. CASE k < n
    <3>1. k \in 1 .. Len(a) /\ k \in 1 .. Len(a \o b) /\ k <= Len(a)
          /\ k \in 1 .. Len(a) + Len(b)
      BY <2>1, <2>3, <2>4, <2>5, <2>6, <2>8
    <3>2. (a \o b)[k] = j
      BY <2>4, <2>6, <2>7, <3>1
    <3>3. QED BY <2>2, <3>1, <3>2
  <2>9. CASE k > n
    <3>1. /\ k - 1 \in 1 .. Len(a \o b) /\ k - 1 \in 1 .. Len(a) + Len(b) /\ ~(k - 1 <= Len(a))
          /\ (k - 1) - Len(a) = k - n /\ k - n \in 1 .. Len(s) - n /\ n + (k - n) = k
      BY <2>1, <2>3, <2>4, <2>5, <2>6, <2>9
    <3>2. (a \o b)[k - 1] = j
      BY <2>5, <2>6, <2>7, <3>1
    <3>3. QED BY <2>2, <3>1, <3>2
  <2>10. k # n
    BY <2>1, <2>7
  <2>11. QED BY <2>1, <2>8, <2>9, <2>10
<1>3. QED BY <1>1, <1>2

(* What creating an instance of parent p leaves of the registry. *)
LEMMA AddsOne ==
  ASSUME TypeInv, NEW p \in 0 .. Len(record), Adds(p)
  PROVE  /\ Len(record) \in Nat
         /\ record'[Len(record) + 1].parent = p
         /\ \A i \in Created : record'[i] = record[i]
         /\ \A i \in records : (record[i].parent # 0 /\ Listed(i)) => Listed(i)'
         /\ p # 0 => \E k \in 1 .. Len(serviceModules'[p]) : serviceModules'[p][k] = Len(record) + 1
         /\ UNCHANGED <<records, modules>>
<1> DEFINE L == Len(record)
<1>1. PICK s \in Service :
        record' = Append(record, [svc |-> s, parent |-> p, deps |-> Resolved(s)])
  BY DEF Adds
<1> DEFINE r == [svc |-> s, parent |-> p, deps |-> Resolved(s)]
<1>2. r.parent = p
  OBVIOUS
<1>3. record' = Append(record, r)
  BY <1>1
<1> HIDE DEF r
<1>4. record \in Seq(Record) /\ L \in Nat
  BY DEF TypeInv, TypeOK
<1>5. record'[L + 1] = r /\ \A i \in Created : record'[i] = record[i]
  BY <1>3, <1>4 DEF Created
<1>6. \A q \in Inst : serviceModules[q] \in Seq(Inst)
  BY DEF TypeInv, TypeOK
<1>7. /\ Created \subseteq Inst /\ records \subseteq Created
      /\ \A i \in Created : record[i].parent \in 0 .. L
  <2>1. L <= MaxInstances
    BY DEF TypeInv, TypeOK
  <2>2. Created \subseteq Inst
    BY <1>4, <2>1, BoundAssumption DEF Created, Inst
  <2>3. records \subseteq Created /\ \A i \in Created : record[i].parent \in 0 .. L
    BY DEF TypeInv, Bounded
  <2>4. QED BY <2>2, <2>3
<1>8. ASSUME NEW q \in Inst
      PROVE  /\ \A k \in 1 .. Len(serviceModules[q]) :
                  /\ k \in 1 .. Len(serviceModules'[q])
                  /\ serviceModules'[q][k] = serviceModules[q][k]
             /\ q = p => \E k \in 1 .. Len(serviceModules'[q]) : serviceModules'[q][k] = L + 1
  <2> DEFINE s0 == serviceModules[q]
             s1 == serviceModules'[q]
  <2>1. p # 0 => p \in Inst
    BY <1>7 DEF Created
  <2>2. q = p => p # 0
    BY DEF Inst
  <2>3. s1 = IF q = p THEN Append(s0, L + 1) ELSE s0
    BY <2>1, <2>2 DEF Adds, TypeInv, TypeOK
  <2>4. s0 \in Seq(Inst)
    BY <1>6
  <2>5. Len(s0) \in Nat
    BY <2>4
  <2> HIDE DEF s0, s1
  <2>6. CASE q = p
    <3>1. s1 = Append(s0, L + 1) /\ s0 \in Seq(Nat)
      <4>1. Inst \subseteq Nat
        BY DEF Inst
      <4>2. QED BY <2>3, <2>4, <2>6, <4>1, SequencesGrow
    <3>2. /\ Len(s1) = Len(s0) + 1 /\ s1[Len(s0) + 1] = L + 1
          /\ \A k \in 1 .. Len(s0) : s1[k] = s0[k]
      BY <1>4, <3>1
    <3>3. Len(s0) + 1 \in 1 .. Len(s1) /\ \A k \in 1 .. Len(s0) : k \in 1 .. Len(s1)
      BY <2>5, <3>2
    <3>4. QED BY <3>2, <3>3 DEF s0, s1
  <2>7. CASE q # p
    BY <2>3, <2>7 DEF s0, s1
  <2>8. QED BY <2>6, <2>7
<1>9. ASSUME NEW i \in records, record[i].parent # 0, Listed(i)
      PROVE  Listed(i)'
  <2> DEFINE q == record[i].parent
  <2>1. record'[i].parent = q /\ q \in Inst
    BY <1>5, <1>7, <1>9 DEF Created
  <2>2. PICK k \in 1 .. Len(serviceModules[q]) : serviceModules[q][k] = i
    BY <1>9 DEF Listed
  <2>3. QED BY <1>8, <2>1, <2>2 DEF Listed
<1>10. p # 0 => p \in Inst
  BY <1>7 DEF Created
<1>11. QED BY <1>2, <1>4, <1>5, <1>8, <1>9, <1>10 DEF Adds

LEMMA FollowedKept ==
  ASSUME TypeInv, Followed, UNCHANGED <<records, modules>>,
         \A i \in records :
           /\ record'[i] = record[i]
           /\ (record[i].parent # 0 /\ Listed(i)) => Listed(i)',
         \A q : LoopsFor(q) => LoopsFor(q)'
  PROVE  Followed'
<1>1. ASSUME NEW i \in records' PROVE Follows(i)'
  <2>1. i \in records /\ record'[i] = record[i] /\ Follows(i)
    BY <1>1 DEF Followed
  <2>2. CASE record[i].parent = 0
    BY <2>1, <2>2 DEF Follows
  <2>3. CASE record[i].parent # 0
    <3>1. record[i].parent \in records /\ Listed(i)'
      BY <2>1, <2>3 DEF Follows
    <3>2. CASE i \in modules[record[i].parent]
      BY <2>1, <3>1, <3>2 DEF Follows
    <3>3. CASE LoopsFor(record[i].parent)
      <4>1. \A q : q = record[i].parent => LoopsFor(q)'
        BY <3>3
      <4>2. LoopsFor(record[i].parent)'
        BY <2>1, <4>1 DEF LoopsFor
      <4>3. QED BY <2>1, <3>1, <4>2 DEF Follows
    <3>4. QED BY <2>1, <2>3, <3>2, <3>3 DEF Follows
  <2>4. QED BY <2>2, <2>3
<1>2. QED BY <1>1 DEF Followed

(* A constructor of a top-level registration is entered. *)
LEMMA BeginsFollow ==
  ASSUME TypeInv, TypeInv', NEW m \in Nat, Begins(m), Adds(0), Followed, Unmaking,
         \A b \in 1 .. m : Level(stack', b).t # "modules"
  PROVE  Making' /\ Sited' /\ Followed'
<1> DEFINE L == Len(record) + 1
<1>1. /\ record'[L].parent = 0
      /\ \A i \in Created : record'[i] = record[i]
      /\ \A i \in records : (record[i].parent # 0 /\ Listed(i)) => Listed(i)'
      /\ UNCHANGED <<records, modules>> /\ records \subseteq Created
  <2>1. 0 \in 0 .. Len(record)
    BY DEF TypeInv, TypeOK
  <2>2. QED BY <2>1, AddsOne DEF TypeInv, Bounded
<1>2. stack' # <<>>
  BY DEF Begins, TypeInv, TypeOK
<1>3. Len(stack') = m + 3 /\ Level(stack', m + 3) = Top'
  BY <1>2, HeadLevel DEF Begins
<1>4. Constructing(Top)' /\ Top'.inst = L
  BY <1>3 DEF Begins, Constructing, User, About
<1>5. Sited'
  BY <1>1, <1>4 DEF Sited
<1>6. ASSUME NEW b \in 1 .. Len(stack'), Level(stack', b).t = "modules"
      PROVE  b + 1 = Len(stack') /\ Level(stack', b).inst = L
  <2>1. b # m + 1
    BY <1>6 DEF Begins, Walk, About
  <2>2. b # m + 3
    BY <1>6 DEF Begins, User, About
  <2>3. b = m + 2
    BY <1>3, <1>6, <2>1, <2>2
  <2>4. QED BY <1>3, <2>3 DEF Begins
<1>7. Making'
  BY <1>1, <1>4, <1>6 DEF Making
<1>8. \A q : ~LoopsFor(q)
  BY DEF LoopsFor, Unmaking
<1>9. Followed'
  BY <1>1, <1>8, FollowedKept
<1>10. QED BY <1>5, <1>7, <1>9

LEMMA SkipsFollow ==
  ASSUME TypeInv, TypeInv', Making, Followed, Skips
  PROVE  Making' /\ Sited' /\ Followed'
<1> DEFINE n == Len(stack)
<1>1. /\ n \in Nat \ {0} /\ Level(stack, n) = Top /\ Len(stack') = n
      /\ ~Constructing(Top) /\ Level(stack', n).t = Top.t
      /\ UNCHANGED <<record, records, modules, serviceModules>>
      /\ \A b \in 1 .. n - 1 : Level(stack', b) = Level(stack, b)
  BY LevelPop DEF Skips, Keeps, Constructing, registryVars
<1>2. stack' # <<>>
  BY <1>1 DEF TypeInv, TypeOK
<1>3. Level(stack', n) = Top'
  BY <1>1, <1>2, HeadLevel
<1>4. ~Constructing(Top)'
  BY <1>1, <1>3 DEF Skips, Constructing
<1>5. Sited'
  BY <1>4 DEF Sited
<1>6. ASSUME NEW b \in 1 .. n, Level(stack, b).t = "modules"
      PROVE  b = n /\ Top.inst \in records
  BY <1>1, <1>6 DEF Making
<1>7. ASSUME NEW b \in 1 .. n, Level(stack', b).t = "modules"
      PROVE  b = n /\ Level(stack', b).inst = Top.inst /\ Top.inst \in records
  <2>1. b = n
    <3>1. ASSUME b # n PROVE FALSE
      <4>1. b \in 1 .. n - 1
        BY <1>1, <3>1
      <4>2. QED BY <1>1, <1>6, <1>7, <4>1
    <3>2. QED BY <3>1
  <2>2. Top.t = "modules"
    BY <1>1, <1>7, <2>1
  <2>3. QED BY <1>1, <1>6, <2>1, <2>2 DEF Skips
<1>8. Making'
  BY <1>1, <1>7 DEF Making
<1>9. ASSUME NEW q, LoopsFor(q) PROVE LoopsFor(q)'
  <2>1. PICK b \in 1 .. n : Level(stack, b).t = "modules" /\ Level(stack, b).inst = q
    BY <1>9 DEF LoopsFor
  <2>2. b = n
    BY <1>6, <2>1
  <2>3. Level(stack', n).t = "modules" /\ Level(stack', n).inst = q /\ n \in 1 .. Len(stack')
    BY <1>1, <2>1, <2>2 DEF Skips
  <2>4. QED BY <2>3 DEF LoopsFor
<1>10. \A i \in records : Listed(i) => Listed(i)'
  BY <1>1 DEF Listed
<1>11. Followed'
  BY <1>1, <1>9, <1>10, FollowedKept
<1>12. QED BY <1>5, <1>8, <1>11

LEMMA ModulesCreateFollow ==
  ASSUME TypeInv, TypeInv', Making, Followed, ModulesCreate
  PROVE  Making' /\ Sited' /\ Followed'
<1> DEFINE n == Len(stack)
           L == Len(record) + 1
           p == Top.inst
<1>1. /\ n \in Nat \ {0} /\ Level(stack, n) = Top /\ Len(stack') = n + 1
      /\ ~Constructing(Top) /\ Top.t = "modules"
      /\ Level(stack', n).t = "modules" /\ Level(stack', n).inst = p
      /\ Level(stack', n + 1) = User("construct", L)
      /\ \A b \in 1 .. n - 1 : Level(stack', b) = Level(stack, b)
  BY LevelPop DEF ModulesCreate, Keeps, Constructing
<1>2. stack' # <<>>
  BY <1>1 DEF TypeInv, TypeOK
<1>3. Level(stack', n + 1) = Top'
  BY <1>1, <1>2, HeadLevel
<1>4. Constructing(Top)' /\ Top'.inst = L
  BY <1>1, <1>3 DEF Constructing, User, About
<1>5. ASSUME NEW b \in 1 .. n, Level(stack, b).t = "modules"
      PROVE  b = n /\ p \in records
  BY <1>1, <1>5 DEF Making
<1>6. p \in records /\ p \in Inst /\ p \in 0 .. Len(record) /\ p # 0
  <2>1. n \in 1 .. n
    BY <1>1
  <2>2. p \in records
    BY <1>1, <1>5, <2>1
  <2>3. p \in Created /\ p \in Inst
    BY <1>1, TopFields DEF ModulesCreate
  <2>4. QED BY <2>2, <2>3 DEF Created
<1>7. /\ record'[L].parent = p
      /\ \A i \in Created : record'[i] = record[i]
      /\ \A i \in records : (record[i].parent # 0 /\ Listed(i)) => Listed(i)'
      /\ \E k \in 1 .. Len(serviceModules'[p]) : serviceModules'[p][k] = L
      /\ UNCHANGED <<records, modules>> /\ records \subseteq Created
  BY <1>6, AddsOne DEF TypeInv, Bounded, ModulesCreate
<1>9. Sited'
  <2>1. Len(stack') > 1 /\ Len(stack') - 1 = n
    BY <1>1
  <2>2. QED BY <1>1, <1>4, <1>7, <2>1 DEF Sited, Listed
<1>10. ASSUME NEW b \in 1 .. Len(stack'), Level(stack', b).t = "modules"
       PROVE  b + 1 = Len(stack') /\ Level(stack', b).inst = p
  <2>1. b # n + 1
    BY <1>1, <1>10 DEF User, About
  <2>2. ~(b \in 1 .. n - 1)
    BY <1>1, <1>5, <1>10
  <2>3. b = n
    BY <1>1, <2>1, <2>2
  <2>4. QED BY <1>1, <2>3
<1>11. Making'
  BY <1>4, <1>6, <1>7, <1>10 DEF Making
<1>12. ASSUME NEW q, LoopsFor(q) PROVE LoopsFor(q)'
  <2>1. PICK b \in 1 .. n : Level(stack, b).t = "modules" /\ Level(stack, b).inst = q
    BY <1>12 DEF LoopsFor
  <2>2. b = n /\ q = p
    BY <1>1, <1>5, <2>1
  <2>3. n \in 1 .. Len(stack')
    BY <1>1
  <2>4. QED BY <1>1, <2>2, <2>3 DEF LoopsFor
<1>13. Followed'
  BY <1>7, <1>12, FollowedKept
<1>14. QED BY <1>9, <1>11, <1>13

LEMMA ConstructsFollow ==
  ASSUME ConstructorsDoNotReenter, TypeInv, TypeInv', NamesInv, Making, Followed, Constructs,
         ~failed'
  PROVE  Making' /\ Sited' /\ Followed'
<1>1. Len(stack) \in Nat
  BY LenProperties DEF TypeInv, TypeOK
<1>2. CASE Skips
  BY <1>2, SkipsFollow
<1>3. CASE ModulesCreate
  BY <1>3, ModulesCreateFollow
<1>4. CASE ProfileCreates
  <2>1. Unmaking
    BY <1>4, UnmakingHead DEF ProfileCreates, Constructing
  <2>2. ASSUME NEW b \in 1 .. Len(stack) PROVE Level(stack', b).t # "modules"
    <3>1. CASE b = Len(stack)
      BY <1>4, <3>1 DEF ProfileCreates
    <3>2. CASE b # Len(stack)
      <4>1. b \in 1 .. Len(stack) - 1
        BY <1>1, <3>2
      <4>2. QED BY <1>4, <2>1, <2>2, <4>1 DEF ProfileCreates, Keeps, Unmaking
    <3>3. QED BY <3>1, <3>2
  <2>3. QED BY <1>1, <1>4, <2>1, <2>2, BeginsFollow DEF ProfileCreates
<1>5. CASE RegisterCreates
  <2>1. stack # <<>> => Top.t # "modules" /\ ~Constructing(Top)
    BY <1>5
    DEF RegisterCreates, Calls, At, Constructing, ConstructorsDoNotReenter, Operation
  <2>2. Unmaking
    BY <2>1, UnmakingHead
  <2>3. ASSUME NEW b \in 1 .. Len(stack) + 1 PROVE Level(stack', b).t # "modules"
    <3>1. CASE b = Len(stack) + 1
      BY <1>5, <3>1 DEF RegisterCreates, StartIfStarted, About
    <3>2. CASE b # Len(stack) + 1
      <4>1. b \in 1 .. Len(stack)
        BY <1>1, <3>2
      <4>2. QED BY <1>5, <2>2, <4>1 DEF RegisterCreates, Keeps, Unmaking
    <3>3. QED BY <3>1, <3>2
  <2>4. Len(stack) + 1 \in Nat
    BY <1>1
  <2>5. QED BY <1>5, <2>2, <2>3, <2>4, BeginsFollow DEF RegisterCreates
<1>6. QED BY <1>2, <1>3, <1>4, <1>5, ConstructsLevels

LEMMA UnmakingSites ==
  ASSUME TypeInv', Unmaking'
  PROVE  Making' /\ Sited'
<1>1. Making'
  BY DEF Unmaking, Making, Constructing
<1>2. Sited'
  <2> SUFFICES ASSUME stack' # <<>>, Constructing(Top)' PROVE FALSE
    BY DEF Sited
  <2>1. Len(stack') \in 1 .. Len(stack') /\ Level(stack', Len(stack')) = Top'
    BY HeadLevel
  <2>2. QED BY <2>1 DEF Unmaking, Constructing
<1>3. QED BY <1>1, <1>2

(* A constructor returns: the loop it came from goes on. *)
LEMMA ReturnFollows ==
  ASSUME TypeInv, TypeInv', NamesInv, Making, Sited, Followed, ConstructReturns
  PROVE  Making' /\ Sited' /\ Followed'
<1> DEFINE n == Len(stack)
           c == Top.inst
<1>1. /\ stack # <<>> /\ Constructing(Top) /\ stack' = Rest
      /\ UNCHANGED <<record, modules, serviceModules>> /\ records' = records \cup {c}
  BY DEF ConstructReturns, Returns, At, Constructing
<1>2. /\ n \in Nat \ {0} /\ Level(stack, n) = Top /\ Len(stack') = n - 1
      /\ \A b \in 1 .. n - 1 : Level(stack', b) = Level(stack, b)
  BY <1>1, LevelPop
<1>3. ~(stack' # <<>> /\ Constructing(Top)')
  <2> SUFFICES ASSUME stack' # <<>>, Constructing(Top)' PROVE FALSE
    OBVIOUS
  <2>1. Level(stack', Len(stack')) = Top' /\ Len(stack') \in Nat \ {0}
    BY HeadLevel
  <2>2. n - 1 \in 1 .. n - 1 /\ n - 1 \in 1 .. n /\ n - 1 # n
    BY <1>2, <2>1
  <2>3. Constructing(Level(stack, n - 1))
    BY <1>2, <2>1, <2>2 DEF Constructing
  <2>4. QED BY <2>2, <2>3, SettledLevels
<1>4. Sited'
  BY <1>3 DEF Sited
<1>5. ASSUME NEW b \in 1 .. n, Level(stack, b).t = "modules"
      PROVE  /\ b = n - 1 /\ b \in 1 .. Len(stack') /\ Level(stack', b) = Level(stack, b)
             /\ \/ record[c].parent = 0 /\ Level(stack, b).inst = c
                \/ record[c].parent = Level(stack, b).inst /\ Level(stack, b).inst \in records
  <2>1. b # n
    BY <1>1, <1>2, <1>5 DEF Constructing
  <2>2. /\ b + 1 = n
        /\ \/ record[c].parent = 0 /\ Level(stack, b).inst = c
           \/ record[c].parent = Level(stack, b).inst /\ Level(stack, b).inst \in records
    BY <1>5, <2>1 DEF Making
  <2>3. QED BY <1>2, <2>2
<1>6. Making'
  <2>1. ASSUME NEW b \in 1 .. Len(stack'), Level(stack', b).t = "modules"
        PROVE  b = Len(stack') /\ Level(stack', b).inst \in records'
    <3>1. b \in 1 .. n - 1 /\ b \in 1 .. n
      BY <1>2
    <3>2. Level(stack, b).t = "modules"
      BY <1>2, <2>1, <3>1
    <3>3. QED BY <1>1, <1>2, <1>5, <3>1, <3>2
  <2>2. QED BY <2>1 DEF Making
<1>7. ASSUME NEW q, LoopsFor(q) PROVE LoopsFor(q)'
  <2>1. PICK b \in 1 .. n : Level(stack, b).t = "modules" /\ Level(stack, b).inst = q
    BY <1>7 DEF LoopsFor
  <2>2. QED BY <1>5, <2>1 DEF LoopsFor
<1>8. ASSUME NEW i \in records PROVE Follows(i)'
  <2>1. Follows(i) /\ record'[i] = record[i] /\ UNCHANGED <<record, modules, serviceModules>>
    BY <1>1 DEF Followed
  <2>2. CASE record[i].parent = 0
    BY <2>1, <2>2 DEF Follows
  <2>3. CASE record[i].parent # 0
    <3>1. record[i].parent \in records' /\ Listed(i)'
      BY <1>1, <2>1, <2>3 DEF Follows, Listed
    <3>2. CASE i \in modules[record[i].parent]
      BY <2>1, <3>1, <3>2 DEF Follows
    <3>3. CASE LoopsFor(record[i].parent)
      <4>1. \A q : q = record[i].parent => LoopsFor(q)'
        BY <1>7, <3>3
      <4>2. LoopsFor(record[i].parent)'
        BY <2>1, <4>1 DEF LoopsFor
      <4>3. QED BY <2>1, <3>1, <4>2 DEF Follows
    <3>4. QED BY <2>1, <2>3, <3>2, <3>3 DEF Follows
  <2>4. QED BY <2>2, <2>3
<1>9. \A i : i = c => Follows(i)'
  <2> SUFFICES ASSUME NEW i, i = c, record[i].parent # 0 PROVE Follows(i)'
    BY <1>1 DEF Follows
  <2> DEFINE q == record[i].parent
  <2>1. n > 1 /\ Level(stack, n - 1).t = "modules" /\ Level(stack, n - 1).inst = q /\ Listed(i)
    BY <1>1 DEF Sited
  <2>2. n - 1 \in 1 .. n
    BY <1>2, <2>1
  <2>3. q \in records
    BY <1>5, <2>1, <2>2
  <2>4. LoopsFor(q)
    BY <2>1, <2>2 DEF LoopsFor
  <2>5. \A p : p = q => LoopsFor(p)'
    BY <1>7, <2>4
  <2>6. LoopsFor(record[i].parent)' /\ Listed(i)'
    BY <1>1, <2>1, <2>5 DEF LoopsFor, Listed
  <2>7. QED BY <1>1, <2>3, <2>6 DEF Follows
<1>10. Followed'
  BY <1>1, <1>8, <1>9 DEF Followed
<1>11. QED BY <1>4, <1>6, <1>10

(* The loop ends: the parent's record lists what it made. *)
LEMMA DoneFollows ==
  ASSUME TypeInv, TypeInv', NamesInv, Making, Followed, ModulesDone
  PROVE  Unmaking' /\ Followed'
<1> DEFINE n == Len(stack)
           p == Top.inst
           own == {j \in 1 .. Len(record) : record[j].parent = p}
<1>1. /\ stack # <<>> /\ Top.t = "modules" /\ ~Constructing(Top) /\ stack' = Rest
      /\ UNCHANGED <<record, records, serviceModules>>
      /\ modules' = [modules EXCEPT ![p] = own]
  BY DEF ModulesDone, At, Constructing
<1>2. /\ n \in Nat \ {0} /\ Level(stack, n) = Top /\ Len(stack') = n - 1
      /\ \A b \in 1 .. n - 1 : Level(stack', b) = Level(stack, b)
  BY <1>1, LevelPop
<1>3. ASSUME NEW b \in 1 .. n, Level(stack, b).t = "modules"
      PROVE  b = n
  BY <1>1, <1>3 DEF Making
<1>4. Unmaking'
  <2>1. ASSUME NEW b \in 1 .. Len(stack')
        PROVE  Level(stack', b).t # "modules" /\ ~Constructing(Level(stack', b))
    <3>1. b \in 1 .. n /\ b # n /\ Level(stack', b) = Level(stack, b)
      BY <1>2
    <3>2. QED BY <1>3, <3>1, SettledLevels
  <2>2. QED BY <2>1 DEF Unmaking, Constructing
<1>5. ASSUME NEW i \in records PROVE Follows(i)'
  <2> DEFINE q == record[i].parent
  <2>1. Follows(i) /\ record'[i] = record[i]
    BY <1>1 DEF Followed
  <2>2. CASE q = 0
    BY <2>1, <2>2 DEF Follows
  <2>3. CASE q # 0
    <3>1. q \in records /\ Listed(i)'
      BY <1>1, <2>1, <2>3 DEF Follows, Listed
    <3>2. q \in Inst /\ i \in 1 .. Len(record) /\ modules \in [Inst -> SUBSET Inst]
      BY <3>1 DEF TypeInv, TypeOK, Bounded, Created
    <3>3. LoopsFor(q) => q = p
      BY <1>2, <1>3 DEF LoopsFor
    <3>4. i \in modules'[q]
      <4>1. CASE q = p
        BY <1>1, <3>2, <4>1
      <4>2. CASE q # p
        BY <1>1, <2>1, <2>3, <3>2, <3>3, <4>2 DEF Follows
      <4>3. QED BY <4>1, <4>2
    <3>5. QED BY <1>1, <2>1, <3>1, <3>4 DEF Follows
  <2>4. QED BY <2>2, <2>3
<1>6. QED BY <1>1, <1>4, <1>5 DEF Followed

(* An instance leaves the registry when it has no modules left there. *)
LEMMA DestroyFollows ==
  ASSUME TypeInv, OwnModules, Emptied, Followed, Unmaking, DestroyReturns
  PROVE  Followed'
<1> DEFINE g == Top.inst
           o == record[g].parent
<1>1. /\ stack # <<>> /\ Top.t = "user" /\ Top.hook = "destroy"
      /\ UNCHANGED record /\ records' = records \ {g}
      /\ modules' = [modules EXCEPT ![g] = {}]
      /\ serviceModules' = IF o = 0 THEN serviceModules
                           ELSE [serviceModules EXCEPT ![o] = Without(@, g)]
  BY DEF DestroyReturns, Returns, At
<1>2. Len(stack) \in 1 .. Len(stack) /\ Level(stack, Len(stack)) = Top
  BY <1>1, LevelPop
<1>3. modules[g] \cap records = {}
  BY <1>1, <1>2 DEF Emptied, Left
<1>4. /\ modules \in [Inst -> SUBSET Inst] /\ serviceModules \in [Inst -> Seq(Inst)]
      /\ records \subseteq Inst
  BY DEF TypeInv, TypeOK
<1>5. ASSUME NEW i \in records, i # g PROVE Follows(i)'
  <2> DEFINE q == record[i].parent
  <2>1. Follows(i) /\ record'[i] = record[i] /\ ~LoopsFor(q)
    BY <1>1 DEF Followed, Unmaking, LoopsFor
  <2>2. CASE q = 0
    BY <2>1, <2>2 DEF Follows
  <2>3. CASE q # 0
    <3>1. q \in records /\ Listed(i) /\ i \in modules[q]
      BY <2>1, <2>3 DEF Follows
    <3>2. q # g /\ q \in Inst
      BY <1>3, <1>4, <3>1
    <3>3. q \in records' /\ i \in modules'[q]
      BY <1>1, <1>4, <3>1, <3>2
    <3>4. \E k \in 1 .. Len(serviceModules'[q]) : serviceModules'[q][k] = i
      <4>1. \E k \in 1 .. Len(serviceModules[q]) : serviceModules[q][k] = i
        BY <3>1 DEF Listed
      <4>2. CASE q = o
        <5> DEFINE s == serviceModules[q]
        <5>1. serviceModules'[q] = Without(s, g)
          BY <1>1, <1>4, <2>3, <3>2, <4>2
        <5>2. s \in Seq(Inst) /\ Holds(s, i)
          BY <1>4, <3>2, <4>1 DEF Holds
        <5> HIDE DEF s
        <5>3. \A x : x # i => Holds(Without(s, x), i)
          BY <5>2, WithoutKeeps
        <5>4. QED BY <1>5, <5>1, <5>3 DEF Holds
      <4>3. CASE q # o
        <5>1. serviceModules'[q] = serviceModules[q]
          BY <1>1, <1>4, <3>2, <4>3
        <5>2. QED BY <4>1, <5>1
      <4>4. QED BY <4>2, <4>3
    <3>5. QED BY <2>1, <3>3, <3>4 DEF Follows, Listed
  <2>4. QED BY <2>2, <2>3
<1>6. QED BY <1>1, <1>5 DEF Followed

(* No other step touches the registry. *)
LEMMA RegistryKept ==
  ASSUME [Next]_vars, ~Constructs, ~ConstructReturns, ~ModulesDone, ~DestroyReturns
  PROVE  UNCHANGED registryVars
<1>1. CASE Call
  BY <1>1
  DEF Call, Constructs, InitializeProfile, Start, Tick, Reset, Dispose, Unregister
<1>2. CASE Advance
  BY <1>2
  DEF Advance, Constructs, ProfileDone, WalkNext, StartIfStartedNext, HookNext,
      HookModulesNext, ForEachNext, DisposeAllNext, DisposeNext, DisposeModulesNext,
      DestroyNext, InitializeReturns, StartReturns, CallbackReturns, UserThrows
<1>3. CASE Wait \/ UNCHANGED vars
  BY <1>3
  DEF Wait, ResolveAsync, ResolveTimeout, WaitUntilInitialized, InitializationTimeout, vars
<1>4. QED BY <1>1, <1>2, <1>3 DEF Next

LEMMA FollowStep ==
  ASSUME ConstructorsDoNotReenter, TypeInv, TypeInv', NamesInv, ModulesInv, FollowInv,
         [Next]_vars
  PROVE  FollowInv'
<1> SUFFICES ASSUME ~failed' PROVE Making' /\ Sited' /\ Followed'
  BY DEF FollowInv
<1>1. Making /\ Sited /\ Followed
  BY FailedStays DEF FollowInv
<1>2. OwnModules /\ Emptied
  BY DEF ModulesInv
<1>3. CASE Wait \/ UNCHANGED vars
  <2>1. UNCHANGED <<record, records, modules, serviceModules, stack>>
    BY <1>3
    DEF Wait, ResolveAsync, ResolveTimeout, WaitUntilInitialized, InitializationTimeout, vars,
        registryVars
  <2>2. Top' = Top
    BY <2>1 DEF Top
  <2>3. Making' /\ Sited'
    BY <1>1, <2>1, <2>2 DEF Making, Sited, Constructing, Listed
  <2>4. Followed'
    <3>1. \A q : LoopsFor(q) => LoopsFor(q)'
      BY <2>1 DEF LoopsFor
    <3>2. \A i \in records : Listed(i) => Listed(i)'
      BY <2>1 DEF Listed
    <3>3. QED BY <1>1, <2>1, <3>1, <3>2, FollowedKept
  <2>5. QED BY <2>3, <2>4
<1>4. CASE Constructs
  BY <1>1, <1>4, ConstructsFollow
<1>5. CASE ConstructReturns
  BY <1>1, <1>5, ReturnFollows
<1>6. CASE ModulesDone
  BY <1>1, <1>6, DoneFollows, UnmakingSites
<1>7. CASE ~(Wait \/ UNCHANGED vars) /\ ~Constructs /\ ~ConstructReturns /\ ~ModulesDone
  <2>1. Unmaking /\ Unmaking'
    BY <1>1, <1>2, <1>7, UnmakingStep
  <2>2. Making' /\ Sited'
    BY <2>1, UnmakingSites
  <2>3. CASE DestroyReturns
    BY <1>1, <1>2, <2>1, <2>2, <2>3, DestroyFollows
  <2>4. CASE ~DestroyReturns
    <3>1. UNCHANGED <<record, records, modules, serviceModules>>
      BY <1>7, <2>4, RegistryKept DEF registryVars
    <3>2. \A q : ~LoopsFor(q)
      BY <2>1 DEF Unmaking, LoopsFor
    <3>3. \A i \in records : Listed(i) => Listed(i)'
      BY <3>1 DEF Listed
    <3>4. QED BY <1>1, <2>2, <3>1, <3>2, <3>3, FollowedKept
  <2>5. QED BY <2>3, <2>4
<1>8. QED BY <1>3, <1>4, <1>5, <1>6, <1>7

(* Between calls, and unless something threw, a registered module has a    *)
(* registered parent that knows it, as a record and as an instance: the    *)
(* constructor of BaseServiceModule adds the module to the parent's        *)
(* instance (base-service.ts:173), activateRegistrations adds it to the    *)
(* parent's record (337-339), and a parent leaves the registry after its   *)
(* modules (492-494).                                                      *)
THEOREM ModulesFollow ==
  ASSUME ConstructorsDoNotReenter
  PROVE  Spec => []ModulesFollowParent
<1> DEFINE Inv == NamesInv /\ ModulesInv /\ FollowInv
<1>1. Init => Inv
  <2> SUFFICES ASSUME Init PROVE Inv
    OBVIOUS
  <2>1. stack = <<>> /\ records = {}
    BY DEF Init
  <2>2. \A b \in 1 .. Len(stack) : FALSE
    BY <2>1
  <2>3. NamesInv
    BY DEF Init, NamesInv, UniqueNames, OneConstructor
  <2>4. Emptied /\ Younger /\ Unlisted /\ \A b \in 1 .. Len(stack) : ModulesGone(b)
    BY <2>1, <2>2 DEF Emptied, Younger, Unlisted
  <2>5. FollowInv
    BY <2>1, <2>2 DEF FollowInv, Making, Sited, Followed
  <2>6. QED BY <2>3, <2>4, <2>5, OwnModulesInit DEF ModulesInv
<1>2. TypeInv /\ TypeInv' /\ Inv /\ [Next]_vars => Inv'
  BY NamesStep, ModulesStep, FollowStep
<1>3. Inv => ModulesFollowParent
  <2> SUFFICES ASSUME Inv, stack = <<>>, ~failed, NEW i \in records, record[i].parent # 0
               PROVE  /\ record[i].parent \in records
                      /\ i \in modules[record[i].parent]
                      /\ Listed(i)
    BY DEF ModulesFollowParent, Listed
  <2>1. Follows(i)
    BY DEF FollowInv, Followed
  <2>2. ~LoopsFor(record[i].parent)
    BY DEF LoopsFor
  <2>3. QED BY <2>1, <2>2 DEF Follows
<1> HIDE DEF Inv
<1>4. QED BY <1>1, <1>2, <1>3, TypeCorrect, PTL DEF Spec

-----------------------------------------------------------------------------
(* Nobody is left behind.                                                  *)
(*                                                                         *)
(* A registered service has the flag of a hook, or some frame still owes   *)
(* it the call: its own hook, the walk of its record or of its parent's,   *)
(* the loop of start(), or the look at `started' that ends a late          *)
(* registration.  A walk owes the modules behind its position, and finds   *)
(* them because by then the record lists them.  What is being constructed  *)
(* is owed the same in advance, by the loops under its constructor; except *)
(* that the profile's own services have nothing that starts them, so the   *)
(* manager must not be started before the profile is through.  A callback  *)
(* that starts the profile again from inside it breaks that: hence the     *)
(* assumption.                                                             *)

OneProfile == \A h \in Hook : <<h, "initializeProfile">> \notin Reentrant

(* Frame f will see to hook h of instance i, a module of p or of nobody. *)
Owes(f, h, i, p) ==
  \/ f.t \in {"hook", "user"} /\ f.hook = h /\ f.inst = i
  \/ f.t = "walk" /\ f.hook = h /\ f.inst = i /\ f.n = 0
  \/ f.t = "walk" /\ f.hook = h /\ f.inst = p /\ f.n < i
  \/ h = "start" /\ f.t = "forEach" /\ f.hook = "start" /\ i \in f.insts
  \/ h = "start" /\ f.t = "startIfStarted" /\ f.inst \in {i, p}

OwesTree(f, h, i) ==
  \/ f.t = "walk" /\ f.hook = h /\ f.inst = i /\ f.n = 0
  \/ h = "start" /\ f.t = "startIfStarted" /\ f.inst = i

OwedIn(s, h, i, p) == \E b \in 1 .. Len(s) : Owes(Level(s, b), h, i, p)
TreeIn(s, h, i) == \E b \in 1 .. Len(s) : OwesTree(Level(s, b), h, i)

(* The same from level m up. *)
OwedFrom(s, m, h, i, p) == \E b \in m .. Len(s) : Owes(Level(s, b), h, i, p)

Due(h, i) == i \in Flagged(h) \/ OwedIn(stack, h, i, record[i].parent)

(* The same for the hooks in H, which start() is among once it was called.  *)
AllDue(H) == \A i \in records, h \in H : (h = "start" => started) => Due(h, i)

(* What is promised to an instance: its own walk, and its start once the    *)
(* manager has started.                                                    *)
PromisedTo(H, s, i) == \A h \in H : (h = "start" => started) => TreeIn(s, h, i)

Promised(H) ==
  \A b \in 1 .. Len(stack) :
    LET f == Level(stack, b) IN
    (f.t = "modules" \/ (Constructing(f) /\ record[f.inst].parent = 0)) =>
      PromisedTo(H, stack, f.inst)

ProfileAlone ==
  /\ started => initialized
  /\ \A b \in 1 .. Len(stack) : Level(stack, b).t = "profile" => b = 1 /\ ~initialized

BehindInv == ~failed => ProfileAlone /\ Promised(Counted) /\ AllDue(Counted)

(* Stack t keeps the frames of s that may owe a call. *)
Keeping(s, t) ==
  \A b \in 1 .. Len(s) :
    (Level(s, b).t \notin {"profile", "modules"} /\ ~Constructing(Level(s, b)))
      => b \in 1 .. Len(t) /\ Level(t, b) = Level(s, b)

LEMMA KeepingOwes ==
  ASSUME NEW s, NEW t, Keeping(s, t), NEW h \in Counted, NEW i
  PROVE  /\ \A p : OwedIn(s, h, i, p) => OwedIn(t, h, i, p)
         /\ TreeIn(s, h, i) => TreeIn(t, h, i)
<1>1. ASSUME NEW p, OwedIn(s, h, i, p) PROVE OwedIn(t, h, i, p)
  <2>1. PICK b \in 1 .. Len(s) : Owes(Level(s, b), h, i, p)
    BY <1>1 DEF OwedIn
  <2>2. Level(s, b).t \notin {"profile", "modules"} /\ ~Constructing(Level(s, b))
    BY <2>1 DEF Owes, Constructing, Counted
  <2>3. QED BY <2>1, <2>2 DEF Keeping, OwedIn
<1>2. ASSUME TreeIn(s, h, i) PROVE TreeIn(t, h, i)
  <2>1. PICK b \in 1 .. Len(s) : OwesTree(Level(s, b), h, i)
    BY <1>2 DEF TreeIn
  <2>2. Level(s, b).t \notin {"profile", "modules"} /\ ~Constructing(Level(s, b))
    BY <2>1 DEF OwesTree, Constructing
  <2>3. QED BY <2>1, <2>2 DEF Keeping, TreeIn
<1>3. QED BY <1>1, <1>2

(* What an activation does to the stack spares those frames. *)
LEMMA MakingKeeps ==
  ASSUME TypeInv, (Constructs /\ ~failed') \/ ConstructReturns \/ ModulesDone
  PROVE  Keeping(stack, stack')
<1> DEFINE n == Len(stack)
<1>1. n \in Nat
  BY LenProperties DEF TypeInv, TypeOK
<1>2. ASSUME stack # <<>>, Top.t \in {"profile", "modules"} \/ Constructing(Top),
             n - 1 <= Len(stack'), Len(stack') \in Nat,
             \A b \in 1 .. n - 1 : Level(stack', b) = Level(stack, b)
      PROVE  Keeping(stack, stack')
  <2>1. n \in Nat \ {0} /\ Level(stack, n) = Top
    BY <1>2, LevelPop
  <2>2. ASSUME NEW b \in 1 .. n,
               Level(stack, b).t \notin {"profile", "modules"}, ~Constructing(Level(stack, b))
        PROVE  b \in 1 .. Len(stack') /\ Level(stack', b) = Level(stack, b)
    <3>1. b # n
      BY <1>2, <2>1, <2>2
    <3>2. b \in 1 .. n - 1
      BY <2>1, <3>1
    <3>3. QED BY <1>2, <2>1, <3>2
  <2>3. QED BY <2>2 DEF Keeping
<1>3. CASE ConstructReturns
  <2>1. stack # <<>> /\ Constructing(Top) /\ stack' = Rest
    BY <1>3 DEF ConstructReturns, Returns, At, Constructing
  <2>2. QED BY <1>2, <2>1, LevelPop
<1>4. CASE ModulesDone
  <2>1. stack # <<>> /\ Top.t = "modules" /\ stack' = Rest
    BY <1>4 DEF ModulesDone, At
  <2>2. QED BY <1>2, <2>1, LevelPop
<1>5. CASE Constructs /\ ~failed'
  <2>1. CASE Skips
    BY <1>1, <1>2, <2>1 DEF Skips, Keeps
  <2>2. CASE ProfileCreates
    BY <1>1, <1>2, <2>2 DEF ProfileCreates, Keeps, Begins
  <2>3. CASE ModulesCreate
    BY <1>1, <1>2, <2>3 DEF ModulesCreate, Keeps
  <2>4. CASE RegisterCreates
    BY <1>1, <2>4 DEF RegisterCreates, Keeps, Begins, Keeping
  <2>5. QED BY <1>5, <2>1, <2>2, <2>3, <2>4, ConstructsLevels
<1>6. QED BY <1>3, <1>4, <1>5

(* Instances that were owed a call before such a step are owed it after. *)
LEMMA DueKept ==
  ASSUME Keeping(stack, stack'), UNCHANGED <<isInitialized, isStarted>>,
         NEW i, record'[i] = record[i], NEW h \in Counted, Due(h, i)
  PROVE  Due(h, i)'
<1>1. CASE i \in Flagged(h)
  BY <1>1 DEF Due, Flagged, Counted
<1>2. CASE OwedIn(stack, h, i, record[i].parent)
  <2> DEFINE p == record[i].parent
  <2>1. \A q : OwedIn(stack, h, i, q) => OwedIn(stack', h, i, q)
    BY KeepingOwes
  <2>2. OwedIn(stack', h, i, record'[i].parent)
    BY <1>2, <2>1
  <2>3. QED BY <2>2 DEF Due
<1>3. QED BY <1>1, <1>2 DEF Due

(* start() is the only step that sets the flag. *)
LEMMA StartedBy ==
  ASSUME [Next]_vars, ~started, started'
  PROVE  Start
<1>1. CASE Call
  BY <1>1
  DEF Call, InitializeProfile, Tick, Reset, Dispose, Register, Unregister, Construct,
      managerVars
<1>2. CASE Advance
  BY <1>2
  DEF Advance, ProfileNext, ProfileDone, ModulesNext, ModulesDone, WalkNext,
      StartIfStartedNext, HookNext, HookModulesNext, ForEachNext, DisposeAllNext,
      DisposeNext, DisposeModulesNext, DestroyNext, ConstructReturns, InitializeReturns,
      StartReturns, CallbackReturns, DestroyReturns, UserThrows, Construct, managerVars
<1>3. CASE Wait \/ UNCHANGED vars
  BY <1>3
  DEF Wait, ResolveAsync, ResolveTimeout, WaitUntilInitialized, InitializationTimeout,
      vars, managerVars
<1>4. QED BY <1>1, <1>2, <1>3 DEF Next

(* Nor does any but the end of the profile say it is initialized. *)
LEMMA InitializedBy ==
  ASSUME [Next]_vars
  PROVE  initialized' = initialized \/ (ProfileDone /\ initialized')
<1>1. CASE Call
  BY <1>1
  DEF Call, InitializeProfile, Start, Tick, Reset, Dispose, Register, Unregister, Construct,
      managerVars
<1>2. CASE Advance
  BY <1>2
  DEF Advance, ProfileNext, ProfileDone, ModulesNext, ModulesDone, WalkNext,
      StartIfStartedNext, HookNext, HookModulesNext, ForEachNext, DisposeAllNext,
      DisposeNext, DisposeModulesNext, DestroyNext, ConstructReturns, InitializeReturns,
      StartReturns, CallbackReturns, DestroyReturns, UserThrows, Construct, managerVars
<1>3. CASE Wait \/ UNCHANGED vars
  BY <1>3
  DEF Wait, ResolveAsync, ResolveTimeout, WaitUntilInitialized, InitializationTimeout,
      vars, managerVars
<1>4. QED BY <1>1, <1>2, <1>3 DEF Next

LEMMA ProfileAloneStep ==
  ASSUME OneProfile, TypeInv, TypeInv', OwnModules, ProfileAlone, [Next]_vars, ~failed'
  PROVE  ProfileAlone'
<1> DEFINE n == Len(stack)
<1>1. started' => initialized'
  <2>1. CASE started
    BY <2>1, InitializedBy DEF ProfileAlone
  <2>2. CASE ~started
    BY <2>2, StartedBy DEF Start
  <2>3. QED BY <2>1, <2>2
<1>2. PICK m : Arises(m)
  BY StepArises
<1>3. n \in Nat /\ m \in Nat /\ Len(stack') \in Nat /\ m <= n
  BY <1>2, LenProperties DEF Arises, TypeInv, TypeOK
<1>4. ASSUME stack # <<>>, Top.t = "profile"
      PROVE  n = 1 /\ ~initialized
  <2>1. n \in 1 .. n /\ Level(stack, n) = Top
    BY <1>4, LevelPop
  <2>2. QED BY <1>4, <2>1 DEF ProfileAlone
<1>5. ASSUME NEW b \in 1 .. Len(stack'), Level(stack', b).t = "profile"
      PROVE  b = 1 /\ ~initialized'
  <2>1. CASE ProfileDone
    <3>1. stack # <<>> /\ Top.t = "profile" /\ stack' = Rest
      BY <2>1 DEF ProfileDone, At
    <3>2. n = 1
      BY <1>4, <3>1
    <3>3. Len(Rest) = n - 1
      BY <3>1, LevelPop
    <3>4. Len(stack') = 0
      BY <3>1, <3>2, <3>3
    <3>5. QED BY <3>4
  <2>2. CASE Constructs
    <3>1. initialized' = initialized
      BY <2>2 DEF Constructs, ProfileNext, ModulesNext, Register, Construct, managerVars
    <3>2. ASSUME b \in 1 .. n, Level(stack', b) = Level(stack, b)
          PROVE  b = 1 /\ ~initialized
      BY <1>5, <3>2 DEF ProfileAlone
    <3>3. CASE Skips
      <4>1. CASE b \in 1 .. n - 1
        BY <1>3, <3>1, <3>2, <3>3, <4>1 DEF Skips, Keeps
      <4>2. CASE b = n
        BY <1>4, <1>5, <3>1, <3>3, <4>2 DEF Skips
      <4>3. QED BY <1>3, <3>3, <4>1, <4>2 DEF Skips
    <3>4. CASE ProfileCreates
      <4>1. n = 1 /\ ~initialized
        BY <1>4, <3>4 DEF ProfileCreates
      <4>2. Len(stack') = 4
        BY <3>4, <4>1 DEF ProfileCreates, Begins
      <4>3. b # 2 /\ b # 3 /\ b # 4
        BY <1>5, <3>4, <4>1 DEF ProfileCreates, Begins, Walk, User, About
      <4>4. QED BY <3>1, <4>1, <4>2, <4>3
    <3>5. CASE RegisterCreates
      <4>1. b # n + 1 /\ b # n + 2 /\ b # n + 3 /\ b # n + 4
        BY <1>3, <1>5, <3>5 DEF RegisterCreates, Begins, Walk, User, About, StartIfStarted
      <4>2. b \in 1 .. n
        BY <1>3, <3>5, <4>1 DEF RegisterCreates, Begins
      <4>3. QED BY <3>1, <3>2, <3>5, <4>2 DEF RegisterCreates, Keeps
    <3>6. CASE ModulesCreate
      <4>1. b # n /\ b # n + 1
        BY <1>5, <3>6 DEF ModulesCreate, User, About
      <4>2. b \in 1 .. n - 1 /\ b \in 1 .. n
        BY <1>3, <3>6, <4>1 DEF ModulesCreate
      <4>3. QED BY <3>1, <3>2, <3>6, <4>2 DEF ModulesCreate, Keeps
    <3>7. QED BY <2>2, <3>3, <3>4, <3>5, <3>6, ConstructsLevels
  <2>3. CASE InitializeProfile
    <3>1. stack = <<>> /\ ~initialized /\ initialized' = initialized
      <4>1. stack # <<>> => Top.hook \in Hook
        BY TopFields
      <4>2. stack = <<>>
        BY <2>3, <4>1 DEF InitializeProfile, Calls, OneProfile, At
      <4>3. QED BY <2>3, <4>2 DEF InitializeProfile, managerVars
    <3> DEFINE f == ProfileLoop(Profile)
    <3>2. stack' = Pushed(f, stack)
      BY <2>3 DEF InitializeProfile, Pushed
    <3> HIDE DEF f
    <3>3. stack \in Seq({f}) /\ f \in {f} /\ Len(stack) = 0
      BY <3>1
    <3>4. Len(stack') = Len(stack) + 1
      BY <3>2, <3>3, LevelPush
    <3>5. QED BY <3>1, <3>3, <3>4
  <2>4. CASE ~ProfileDone /\ ~Constructs /\ ~InitializeProfile
    <3>1. ~(b > m)
      <4>1. ~Fresh(Level(stack', b))
        BY <1>5, <2>4 DEF Fresh, Constructs
      <4>2. QED BY <1>2, <1>3, <4>1 DEF Arises
    <3>2. b \in 1 .. m /\ b \in 1 .. n
      BY <1>3, <3>1
    <3>3. Level(stack', b) = Level(stack, b)
      BY <1>2, <3>2 DEF Arises
    <3>4. QED BY <1>5, <2>4, <3>2, <3>3, InitializedBy DEF ProfileAlone
  <2>5. QED BY <2>1, <2>2, <2>3, <2>4
<1>6. QED BY <1>1, <1>5 DEF ProfileAlone

LEMMA PromiseKept ==
  ASSUME NEW H \in SUBSET Counted, Keeping(stack, stack'), NEW i, PromisedTo(H, stack, i)
  PROVE  PromisedTo(H, stack', i)
BY KeepingOwes DEF PromisedTo

(* The instance that begins is promised its hooks. *)
LEMMA PromiseBegins ==
  ASSUME NEW H \in SUBSET Counted, NEW m \in Nat, Begins(m),
         (started /\ "start" \in H) =>
           m \in 1 .. m /\ Level(stack', m) = StartIfStarted(Len(record) + 1)
  PROVE  PromisedTo(H, stack', Len(record) + 1)
<1> DEFINE L == Len(record) + 1
<1>1. m + 1 \in 1 .. Len(stack') /\ OwesTree(Level(stack', m + 1), "initialize", L)
  BY DEF Begins, OwesTree, Walk, About
<1>2. ASSUME started, "start" \in H
      PROVE  m \in 1 .. Len(stack') /\ OwesTree(Level(stack', m), "start", L)
  BY <1>2 DEF Begins, OwesTree, StartIfStarted, About
<1>3. QED BY <1>1, <1>2 DEF PromisedTo, TreeIn, Counted

LEMMA PromisedStep ==
  ASSUME ConstructorsDoNotReenter, TypeInv, TypeInv', NamesInv, OwnModules, Making, Followed,
         NEW H \in SUBSET Counted, "start" \in H => ProfileAlone, Promised(H),
         [Next]_vars, ~failed'
  PROVE  Promised(H)'
<1> DEFINE n == Len(stack)
           L == Len(record) + 1
<1>1. n \in Nat /\ Len(record) \in Nat
  BY LenProperties DEF TypeInv, TypeOK
<1>2. CASE Wait \/ UNCHANGED vars
  <2>1. UNCHANGED <<record, started, stack>>
    BY <1>2
    DEF Wait, ResolveAsync, ResolveTimeout, WaitUntilInitialized, InitializationTimeout, vars,
        registryVars, managerVars
  <2>2. QED BY <2>1 DEF Promised, PromisedTo, Constructing
<1>3. CASE Unmaking'
  BY <1>3 DEF Unmaking, Promised, Constructing
<1>4. CASE Constructs \/ ConstructReturns
  <2>1. started' = started
    BY <1>4
    DEF Constructs, ProfileNext, ModulesNext, Register, Construct, ConstructReturns, managerVars
  <2>2. Keeping(stack, stack')
    BY <1>4, MakingKeeps
  <2>3. ASSUME NEW b \in 1 .. n,
               Level(stack, b).t = "modules"
               \/ (Constructing(Level(stack, b)) /\ record[Level(stack, b).inst].parent = 0)
        PROVE  PromisedTo(H, stack', Level(stack, b).inst)
    <3>1. PromisedTo(H, stack, Level(stack, b).inst)
      BY <2>3 DEF Promised, PromisedTo
    <3>2. \A i : PromisedTo(H, stack, i) => PromisedTo(H, stack', i)
      BY <2>2, PromiseKept
    <3>3. QED BY <3>1, <3>2
  <2>4. ASSUME NEW b \in 1 .. Len(stack'),
               Level(stack', b).t = "modules"
               \/ (Constructing(Level(stack', b)) /\ record'[Level(stack', b).inst].parent = 0)
        PROVE  PromisedTo(H, stack', Level(stack', b).inst)
    <3>1. CASE ConstructReturns
      <4>1. stack # <<>> /\ stack' = Rest /\ record' = record
        BY <3>1 DEF ConstructReturns, Returns, At
      <4>2. b \in 1 .. n /\ Level(stack', b) = Level(stack, b)
        BY <4>1, LevelPop
      <4>3. QED BY <2>3, <2>4, <4>1, <4>2
    <3>2. CASE Skips
      <4>1. record' = record /\ Len(stack') = n /\ stack # <<>>
        BY <3>2 DEF Skips, registryVars
      <4>2. CASE b \in 1 .. n - 1
        <5>1. b \in 1 .. n /\ Level(stack', b) = Level(stack, b)
          BY <1>1, <3>2, <4>2 DEF Skips, Keeps
        <5>2. QED BY <2>3, <2>4, <4>1, <5>1
      <4>3. CASE b = n
        <5>1. b \in 1 .. n /\ Level(stack, b) = Top
          BY <4>1, <4>3, LevelPop
        <5>2. Level(stack', b).t = Top.t /\ Top.t # "user"
          BY <3>2, <4>3 DEF Skips
        <5>3. Top.t = "modules" /\ Level(stack', b).inst = Top.inst
          BY <2>4, <3>2, <4>3, <5>2 DEF Skips, Constructing
        <5>4. QED BY <2>3, <5>1, <5>3
      <4>4. QED BY <1>1, <4>1, <4>2, <4>3
    <3>3. CASE ProfileCreates
      <4>1. stack # <<>> /\ Top.t = "profile" /\ n \in 1 .. n /\ Level(stack, n) = Top
        BY <3>3, LevelPop DEF ProfileCreates
      <4>2. Unmaking
        BY <4>1, UnmakingHead DEF Constructing
      <4>3. PromisedTo(H, stack', L)
        <5>1. "start" \in H => ~started
          BY <4>1 DEF ProfileAlone
        <5>2. QED BY <1>1, <3>3, <5>1, PromiseBegins DEF ProfileCreates
      <4>4. b \notin 1 .. n
        <5>1. CASE b = n
          BY <2>4, <3>3, <5>1 DEF ProfileCreates, Constructing
        <5>2. CASE b # n
          <6> SUFFICES ASSUME b \in 1 .. n PROVE FALSE
            OBVIOUS
          <6>1. b \in 1 .. n - 1 /\ b \in 1 .. n
            BY <1>1, <5>2
          <6>2. Level(stack', b) = Level(stack, b)
            BY <3>3, <6>1 DEF ProfileCreates, Keeps
          <6>3. QED BY <2>4, <4>2, <6>1, <6>2 DEF Unmaking
        <5>3. QED BY <5>1, <5>2
      <4>5. Level(stack', b).inst = L
        <5>1. Len(stack') = n + 3
          BY <3>3 DEF ProfileCreates, Begins
        <5>2. b \in {n + 1, n + 2, n + 3}
          BY <1>1, <4>4, <5>1
        <5>3. QED BY <3>3, <5>2 DEF ProfileCreates, Begins, Walk, User, About
      <4>6. QED BY <4>3, <4>5
    <3>4. CASE RegisterCreates
      <4>1. Unmaking
        <5>1. stack # <<>> => Top.t # "modules" /\ ~Constructing(Top)
          BY <3>4
          DEF RegisterCreates, Calls, At, Constructing, ConstructorsDoNotReenter, Operation
        <5>2. QED BY <5>1, UnmakingHead
      <4>2. PromisedTo(H, stack', L)
        BY <1>1, <3>4, PromiseBegins DEF RegisterCreates
      <4>3. b \notin 1 .. n
        <5> SUFFICES ASSUME b \in 1 .. n PROVE FALSE
          OBVIOUS
        <5>1. Level(stack', b) = Level(stack, b)
          BY <3>4 DEF RegisterCreates, Keeps
        <5>2. QED BY <2>4, <4>1, <5>1 DEF Unmaking
      <4>4. Level(stack', b).inst = L
        <5>1. Len(stack') = n + 4 /\ n + 1 + 1 = n + 2 /\ n + 1 + 2 = n + 3 /\ n + 1 + 3 = n + 4
          BY <1>1, <3>4 DEF RegisterCreates, Begins
        <5>2. b \in {n + 1, n + 2, n + 3, n + 4}
          BY <1>1, <4>3, <5>1
        <5>3. QED
          BY <1>1, <3>4, <5>1, <5>2 DEF RegisterCreates, Begins, Walk, User, About, StartIfStarted
      <4>5. QED BY <4>2, <4>4
    <3>5. CASE ModulesCreate
      <4> DEFINE p == Top.inst
      <4>1. /\ stack # <<>> /\ Top.t = "modules" /\ n \in 1 .. n /\ Level(stack, n) = Top
            /\ Len(stack') = n + 1
        BY <3>5, LevelPop DEF ModulesCreate
      <4>2. p \in 0 .. Len(record) /\ p # 0
        <5>1. p \in Created
          BY <4>1, TopFields
        <5>2. QED BY <1>1, <5>1 DEF Created
      <4>3. record'[L].parent = p
        BY <3>5, <4>2, AddsOne DEF ModulesCreate
      <4>4. b # n + 1
        BY <2>4, <3>5, <4>2, <4>3 DEF ModulesCreate, User, About
      <4>5. CASE b = n
        BY <2>3, <3>5, <4>1, <4>5 DEF ModulesCreate
      <4>6. CASE b \in 1 .. n - 1
        <5>1. b \in 1 .. n /\ b # n /\ Level(stack', b) = Level(stack, b)
          BY <1>1, <3>5, <4>6 DEF ModulesCreate, Keeps
        <5>2. ~Constructing(Level(stack, b))
          BY <5>1, SettledLevels
        <5>3. QED BY <2>3, <2>4, <5>1, <5>2
      <4>7. QED BY <1>1, <4>1, <4>4, <4>5, <4>6
    <3>6. QED BY <1>4, <3>1, <3>2, <3>3, <3>4, <3>5, ConstructsLevels
  <2>5. QED BY <2>1, <2>4 DEF Promised, PromisedTo, Constructing
<1>5. CASE ModulesDone
  BY <1>3, <1>5, DoneFollows
<1>6. CASE ~(Wait \/ UNCHANGED vars) /\ ~Constructs /\ ~ConstructReturns /\ ~ModulesDone
  BY <1>3, <1>6, UnmakingStep
<1>7. QED BY <1>2, <1>4, <1>5, <1>6

(* The loops that owe calls. *)
LEMMA OwingActs ==
  ASSUME [Next]_vars, stack # <<>>, ~(Wait \/ UNCHANGED vars)
  PROVE  /\ Top.t = "walk" => WalkNext
         /\ Top.t = "hook" => HookNext
         /\ Top.t = "startIfStarted" => StartIfStartedNext
         /\ Top.t = "forEach" => ForEachNext
         /\ (Top.t = "user" /\ Top.hook = "initialize" /\ UserReturns) => InitializeReturns
         /\ (Top.t = "user" /\ Top.hook = "start" /\ UserReturns) => StartReturns
<1>1. ASSUME Top.t \in {"walk", "hook", "startIfStarted", "forEach"}
      PROVE  /\ Top.t = "walk" => WalkNext
             /\ Top.t = "hook" => HookNext
             /\ Top.t = "startIfStarted" => StartIfStartedNext
             /\ Top.t = "forEach" => ForEachNext
  <2>1. \A op : ~Calls(op)
    BY <1>1 DEF Calls, At
  <2>2. ~Call
    BY <2>1
    DEF Call, InitializeProfile, Start, Tick, Reset, Dispose, Register, Unregister
  <2>3. Advance
    BY <2>2 DEF Next
  <2>4. QED
    BY <1>1, <2>3
    DEF Advance, ProfileNext, ProfileDone, ModulesNext, ModulesDone, WalkNext,
        StartIfStartedNext, HookNext, HookModulesNext, ForEachNext, DisposeAllNext,
        DisposeNext, DisposeModulesNext, DestroyNext, ConstructReturns, InitializeReturns,
        StartReturns, CallbackReturns, DestroyReturns, UserThrows, Returns, At
<1>2. /\ (Top.t = "user" /\ Top.hook = "initialize" /\ UserReturns) => InitializeReturns
      /\ (Top.t = "user" /\ Top.hook = "start" /\ UserReturns) => StartReturns
  BY DEF UserReturns, ConstructReturns, InitializeReturns, StartReturns, CallbackReturns,
         DestroyReturns, Returns
<1>3. QED BY <1>1, <1>2

(* Two frames in place of the head, of which one owes the call. *)
LEMMA OwedOnTop ==
  ASSUME TypeInv, stack # <<>>, NEW f, NEW g, NEW h, NEW i, NEW p,
         Owes(f, h, i, p) \/ Owes(g, h, i, p)
  PROVE  stack' = <<f, g>> \o Rest => OwedFrom(stack', Len(stack), h, i, p)
<1> SUFFICES ASSUME stack' = <<f, g>> \o Rest PROVE OwedFrom(stack', Len(stack), h, i, p)
  OBVIOUS
<1>1. /\ Len(stack') = Len(Rest) + 2
      /\ Level(stack', Len(Rest) + 1) = g /\ Level(stack', Len(Rest) + 2) = f
  BY CalledOnTop, Zenon
<1>2. Len(Rest) \in Nat /\ Len(stack) = Len(Rest) + 1
  BY LevelPop
<1>3. /\ Len(Rest) + 1 \in Len(stack) .. Len(stack')
      /\ Len(Rest) + 2 \in Len(stack) .. Len(stack')
  BY <1>1, <1>2
<1>4. QED BY <1>1, <1>3 DEF OwedFrom

(* What the head owes, it does, or leaves to the frames it puts in its      *)
(* place.                                                                  *)
LEMMA HeadOwes ==
  ASSUME TypeInv, OwnModules, [Next]_vars, ~(Wait \/ UNCHANGED vars),
         stack # <<>>, Top.t = "user" => UserReturns,
         NEW i \in Created, NEW h \in Counted, Owes(Top, h, i, record[i].parent),
         (Top.t = "walk" /\ Top.inst = record[i].parent) => i \in modules[Top.inst],
         h = "start" => started
  PROVE  i \in (Flagged(h))' \/ OwedFrom(stack', Len(stack), h, i, record[i].parent)
<1> DEFINE p == record[i].parent
<1>1. /\ i \in Created /\ i \in Nat \ {0} /\ p < i /\ p \in Nat
  BY DEF OwnModules, TypeInv, Bounded, Created
<1>2. CASE Top.t = "user"
  <2>1. Top.hook = h /\ Top.inst = i
    BY <1>2 DEF Owes
  <2>2. CASE h = "initialize"
    BY <1>2, <2>1, <2>2, OwingActs DEF InitializeReturns, Flagged
  <2>3. CASE h = "start"
    BY <1>2, <2>1, <2>3, OwingActs DEF StartReturns, Flagged
  <2>4. QED BY <2>2, <2>3 DEF Counted
<1>3. CASE Top.t = "hook"
  <2>1. HookNext /\ Top.hook = h /\ Top.inst = i
    BY <1>3, OwingActs DEF Owes
  <2>2. CASE i \in Flagged(h)
    BY <2>2, FlagsGrow DEF Flagged
  <2>3. CASE i \notin Flagged(h)
    <3> DEFINE f == User(h, i)
               g == RunHookModules(h, i, 1)
    <3>1. Owes(f, h, i, p)
      BY DEF Owes, User, About
    <3>2. stack' = <<f, g>> \o Rest
      BY <2>1, <2>3 DEF HookNext
    <3> HIDE DEF f, g, p
    <3>3. OwedFrom(stack', Len(stack), h, i, p)
      BY <3>1, <3>2, OwedOnTop
    <3>4. QED BY <3>3 DEF p
  <2>4. QED BY <2>2, <2>3
<1>4. CASE Top.t = "walk"
  <2> DEFINE w == Top.inst
             later == {j \in modules[w] : j > Top.n}
  <2>1. /\ WalkNext /\ Top.hook = h
        /\ (w = i /\ Top.n = 0) \/ (w = p /\ Top.n < i)
    BY <1>4, OwingActs DEF Owes
  <2>2. CASE Top.n = 0
    <3> DEFINE f == RunHook(h, w)
               g == Walk(h, w, w)
    <3>1. Owes(f, h, i, p) \/ Owes(g, h, i, p)
      BY <1>1, <2>1 DEF Owes, RunHook, Walk, About
    <3>2. stack' = <<f, g>> \o Rest
      BY <2>1, <2>2 DEF WalkNext
    <3> HIDE DEF f, g, p
    <3>3. OwedFrom(stack', Len(stack), h, i, p)
      BY <3>1, <3>2, OwedOnTop
    <3>4. QED BY <3>3 DEF p
  <2>3. CASE Top.n # 0
    <3>1. w = p /\ Top.n < i /\ p # 0
      <4>1. w \in Created
        BY <1>4, TopFields
      <4>2. QED BY <2>1, <2>3, <4>1 DEF Created
    <3>2. i \in later
      BY <1>4, <3>1
    <3>3. PICK j \in later :
            /\ \A k \in later : j <= k
            /\ stack' = <<RunHook(h, j), Walk(h, w, j)>> \o Rest
      BY <2>1, <2>3, <3>2 DEF WalkNext
    <3>4. j <= i /\ j \in Nat
      <4>1. later \subseteq Nat
        <5>1. w \in Inst
          BY <1>4, TopFields
        <5>2. QED BY <5>1 DEF TypeInv, TypeOK, Inst
      <4>2. QED BY <3>2, <3>3, <4>1
    <3> DEFINE f == RunHook(h, j)
               g == Walk(h, w, j)
    <3>5. Owes(f, h, i, p) \/ Owes(g, h, i, p)
      BY <1>1, <3>1, <3>4 DEF Owes, RunHook, Walk, About
    <3>6. stack' = <<f, g>> \o Rest
      BY <3>3
    <3> HIDE DEF f, g, p
    <3>7. OwedFrom(stack', Len(stack), h, i, p)
      BY <3>5, <3>6, OwedOnTop
    <3>8. QED BY <3>7 DEF p
  <2>4. QED BY <2>2, <2>3
<1>5. CASE Top.t = "startIfStarted"
  <2> DEFINE f == Walk("start", Top.inst, 0)
             s == <<f>> \o Rest
  <2>1. h = "start" /\ Top.inst \in {i, p} /\ started /\ StartIfStartedNext
    BY <1>5, OwingActs DEF Owes
  <2>2. Owes(f, h, i, p)
    BY <1>1, <2>1 DEF Owes, Walk, About
  <2>3. stack' = s
    BY <2>1 DEF StartIfStartedNext
  <2>4. Len(s) = Len(Rest) + 1 /\ Level(s, Len(Rest) + 1) = f
    BY CallAlone
  <2> HIDE DEF f, s, p
  <2>5. Len(Rest) + 1 \in Len(stack) .. Len(stack')
    BY <2>3, <2>4, LevelPop
  <2>6. OwedFrom(stack', Len(stack), h, i, p)
    BY <2>2, <2>3, <2>4, <2>5 DEF OwedFrom
  <2>7. QED BY <2>6 DEF p
<1>6. CASE Top.t = "forEach"
  <2>1. h = "start" /\ Top.hook = "start" /\ i \in Top.insts /\ ForEachNext
    BY <1>6, OwingActs DEF Owes
  <2>2. PICK j \in Top.insts :
          stack' = <<RunHook("start", j), ForEach("start", Top.insts \ {j})>> \o Rest
    BY <2>1 DEF ForEachNext
  <2> DEFINE f == RunHook("start", j)
             g == ForEach("start", Top.insts \ {j})
  <2>3. Owes(f, h, i, p) \/ Owes(g, h, i, p)
    BY <2>1 DEF Owes, RunHook, ForEach, About
  <2>4. stack' = <<f, g>> \o Rest
    BY <2>2
  <2> HIDE DEF f, g, p
  <2>5. OwedFrom(stack', Len(stack), h, i, p)
    BY <2>3, <2>4, OwedOnTop
  <2>6. QED BY <2>5 DEF p
<1>7. QED BY <1>2, <1>3, <1>4, <1>5, <1>6 DEF Owes

(* start() owes the hook to every registered service. *)
LEMMA StartOwes ==
  ASSUME TypeInv, Start, NEW i \in records, NEW p
  PROVE  OwedIn(stack', "start", i, p)
<1> DEFINE f == ForEach("start", records)
           S == Frame \cup {f}
<1>1. stack' = Pushed(f, stack)
  BY DEF Start, Pushed
<1>2. Owes(f, "start", i, p)
  BY DEF Owes, ForEach, About
<1>3. f \in S /\ stack \in Seq(S)
  BY SequencesGrow DEF TypeInv, TypeOK
<1> HIDE DEF f, S
<1>4. Len(stack') = Len(stack) + 1 /\ Len(stack) \in Nat /\ Level(stack', Len(stack) + 1) = f
  BY <1>1, <1>3, LevelPush
<1>5. Len(stack) + 1 \in 1 .. Len(stack')
  BY <1>4
<1>6. QED BY <1>2, <1>4, <1>5 DEF OwedIn

(* A step outside activations: the frames under the head stay, and the head *)
(* does what it owes.                                                      *)
LEMMA OtherDue ==
  ASSUME NEW H \in SUBSET Counted, TypeInv, OwnModules, Followed, Unmaking, AllDue(H), Runs,
         [Next]_vars, ~(Wait \/ UNCHANGED vars), UNCHANGED record,
         NEW i \in records, NEW h \in H, h = "start" => started'
  PROVE  Due(h, i)'
<1> DEFINE n == Len(stack)
           p == record[i].parent
<1>1. CASE h = "start" /\ ~started
  <2>1. Start
    BY <1>1, StartedBy
  <2>2. OwedIn(stack', h, i, record'[i].parent)
    BY <1>1, <2>1, StartOwes
  <2>3. QED BY <2>2 DEF Due
<1>2. CASE h = "start" => started
  <2>1. Due(h, i)
    BY <1>2 DEF AllDue
  <2>2. CASE i \in Flagged(h)
    <3>1. i \in (Flagged(h))'
      BY <2>2, FlagsGrow DEF Flagged
    <3>2. QED BY <3>1 DEF Due
  <2>3. CASE OwedIn(stack, h, i, p)
    <3>1. PICK b \in 1 .. n : Owes(Level(stack, b), h, i, p)
      BY <2>3 DEF OwedIn
    <3>2. PICK m :
            /\ Arises(m)
            /\ \/ m = n
               \/ stack # <<>> /\ m = n - 1 /\ (Top.t = "user" => UserReturns)
      BY DEF Runs
    <3>3. n \in Nat /\ m \in Nat /\ m <= n /\ m <= Len(stack') /\ Len(stack') \in Nat
      BY <3>2, LenProperties DEF Arises, TypeInv, TypeOK
    <3>4. CASE b <= m
      <4>1. b \in 1 .. m /\ b \in 1 .. Len(stack')
        BY <3>3, <3>4
      <4>2. Level(stack', b) = Level(stack, b)
        BY <3>2, <4>1 DEF Arises
      <4>3. OwedIn(stack', h, i, record'[i].parent)
        BY <3>1, <4>1, <4>2 DEF OwedIn
      <4>4. QED BY <4>3 DEF Due
    <3>5. CASE ~(b <= m)
      <4>1. b = n /\ stack # <<>> /\ (Top.t = "user" => UserReturns)
        BY <3>2, <3>3, <3>5
      <4>2. Owes(Top, h, i, p)
        BY <3>1, <4>1, LevelPop
      <4>3. i \in Created /\ (Top.t = "walk" => Top.inst # 0)
        BY <4>1, TopFields DEF TypeInv, Bounded, Created
      <4>4. (Top.t = "walk" /\ Top.inst = p) => i \in modules[Top.inst]
        BY <4>3 DEF Followed, Follows, LoopsFor, Unmaking
      <4>5. i \in (Flagged(h))' \/ OwedFrom(stack', n, h, i, record'[i].parent)
        BY <1>2, <4>1, <4>2, <4>3, <4>4, HeadOwes
      <4>6. \A c \in n .. Len(stack') : c \in 1 .. Len(stack')
        BY <3>3, <4>1
      <4>7. QED BY <4>5, <4>6 DEF Due, OwedFrom, OwedIn
    <3>6. QED BY <3>4, <3>5
  <2>4. QED BY <2>1, <2>2, <2>3 DEF Due
<1>3. QED BY <1>1, <1>2

(* What enters the registry is owed what it was promised. *)
LEMMA EntersDue ==
  ASSUME NEW H \in SUBSET Counted, TypeInv, Making, Sited, Promised(H), ConstructReturns,
         NEW c, c = Top.inst, NEW h \in H, h = "start" => started
  PROVE  Due(h, c)'
<1> DEFINE n == Len(stack)
           p == record[c].parent
<1>1. /\ stack # <<>> /\ Constructing(Top) /\ UNCHANGED <<record, started>>
      /\ c \in Created
  <2>1. stack # <<>> /\ Constructing(Top) /\ UNCHANGED <<record, started>>
    BY DEF ConstructReturns, Returns, At, Constructing, managerVars
  <2>2. QED BY <2>1, TopFields DEF Constructing
<1>2. n \in 1 .. n /\ n \in Nat /\ Level(stack, n) = Top
  BY <1>1, LevelPop
<1>3. Keeping(stack, stack')
  BY MakingKeeps
<1>4. OwedIn(stack, h, c, p)
  <2>1. CASE p = 0
    <3>1. TreeIn(stack, h, c)
      BY <1>1, <1>2, <2>1 DEF Promised, PromisedTo
    <3>2. PICK b \in 1 .. n : OwesTree(Level(stack, b), h, c)
      BY <3>1 DEF TreeIn
    <3>3. QED BY <3>2 DEF OwesTree, OwedIn, Owes
  <2>2. CASE p # 0
    <3>1. n > 1 /\ Level(stack, n - 1).t = "modules" /\ Level(stack, n - 1).inst = p
      BY <1>1, <2>2 DEF Sited
    <3>2. n - 1 \in 1 .. n
      BY <1>2, <3>1
    <3>3. TreeIn(stack, h, p)
      BY <3>1, <3>2 DEF Promised, PromisedTo
    <3>4. PICK b \in 1 .. n : OwesTree(Level(stack, b), h, p)
      BY <3>3 DEF TreeIn
    <3>5. 0 < c
      BY <1>1 DEF Created
    <3>6. QED BY <3>4, <3>5 DEF OwesTree, OwedIn, Owes
  <2>3. QED BY <2>1, <2>2
<1>5. \A q : OwedIn(stack, h, c, q) => OwedIn(stack', h, c, q)
  BY <1>3, KeepingOwes
<1>6. OwedIn(stack', h, c, record'[c].parent)
  BY <1>1, <1>4, <1>5
<1>7. QED BY <1>6 DEF Due

LEMMA AllDueStep ==
  ASSUME ConstructorsDoNotReenter, TypeInv, TypeInv', NamesInv, OwnModules, Making, Sited,
         Followed, NEW H \in SUBSET Counted, Promised(H), AllDue(H), [Next]_vars, ~failed'
  PROVE  AllDue(H)'
<1>1. /\ records \subseteq Created /\ \A i \in Created : record'[i] = record[i]
  BY RecordsStay DEF TypeInv, Bounded
<1>2. CASE Wait \/ UNCHANGED vars
  <2>1. UNCHANGED <<record, records, isInitialized, isStarted, started, stack>>
    BY <1>2
    DEF Wait, ResolveAsync, ResolveTimeout, WaitUntilInitialized, InitializationTimeout, vars,
        registryVars, flagVars, managerVars
  <2>2. QED BY <2>1 DEF AllDue, Due, Flagged
<1>3. CASE Constructs \/ ModulesDone
  <2>1. UNCHANGED <<records, isInitialized, isStarted, started>>
    BY <1>3
    DEF Constructs, ProfileNext, ModulesNext, Register, Construct, ModulesDone, registryVars,
        flagVars, managerVars
  <2>2. Keeping(stack, stack')
    BY <1>3, MakingKeeps
  <2>3. \A i \in records, h \in H : Due(h, i) => Due(h, i)'
    BY <1>1, <2>1, <2>2, DueKept
  <2>4. QED BY <2>1, <2>3 DEF AllDue
<1>4. CASE ConstructReturns
  <2>1. /\ UNCHANGED <<isInitialized, isStarted, started>>
        /\ records' = records \cup {Top.inst}
    BY <1>4 DEF ConstructReturns, managerVars
  <2>2. Keeping(stack, stack')
    BY <1>4, MakingKeeps
  <2>3. \A i \in records, h \in H : Due(h, i) => Due(h, i)'
    BY <1>1, <2>1, <2>2, DueKept
  <2>4. \A h \in H : \A c : (c = Top.inst /\ (h = "start" => started)) => Due(h, c)'
    BY <1>4, EntersDue
  <2>5. QED BY <2>1, <2>3, <2>4 DEF AllDue
<1>5. CASE ~(Wait \/ UNCHANGED vars) /\ ~Constructs /\ ~ConstructReturns /\ ~ModulesDone
  <2>1. Unmaking /\ Runs /\ UNCHANGED record
    BY <1>5, UnmakingStep
  <2>2. records' \subseteq records
    <3>1. CASE DestroyReturns
      BY <3>1 DEF DestroyReturns
    <3>2. CASE ~DestroyReturns
      BY <1>5, <3>2, RegistryKept DEF registryVars
    <3>3. QED BY <3>1, <3>2
  <2>3. \A i \in records, h \in H : (h = "start" => started') => Due(h, i)'
    BY <1>5, <2>1, OtherDue
  <2>4. QED BY <2>2, <2>3 DEF AllDue
<1>6. QED BY <1>2, <1>3, <1>4, <1>5

LEMMA BehindStep ==
  ASSUME ConstructorsDoNotReenter, OneProfile, TypeInv, TypeInv', NamesInv, ModulesInv,
         FollowInv, BehindInv, [Next]_vars
  PROVE  BehindInv'
<1> SUFFICES ASSUME ~failed' PROVE ProfileAlone' /\ Promised(Counted)' /\ AllDue(Counted)'
  BY DEF BehindInv
<1>1. /\ Making /\ Sited /\ Followed /\ OwnModules
      /\ ProfileAlone /\ Promised(Counted) /\ AllDue(Counted)
  BY FailedStays DEF FollowInv, BehindInv, ModulesInv
<1>2. QED BY <1>1, ProfileAloneStep, PromisedStep, AllDueStep

(* Between calls, and unless something threw, every registered service is  *)
(* initialized, and started once the manager is: whether the profile       *)
(* brought it (133-143), a call of register(), from outside or from a      *)
(* callback of another service (150-169), or its parent, and whatever      *)
(* callbacks unregistered while the loops of start() and of the walks went *)
(* over their snapshots.                                                   *)
THEOREM NobodyIsLeftBehind ==
  ASSUME ConstructorsDoNotReenter, OneProfile
  PROVE  Spec => []NobodyLeftBehind
<1> DEFINE Inv == NamesInv /\ ModulesInv /\ FollowInv /\ BehindInv
<1>1. Init => Inv
  <2> SUFFICES ASSUME Init PROVE Inv
    OBVIOUS
  <2>1. stack = <<>> /\ records = {} /\ ~started
    BY DEF Init
  <2>2. \A b \in 1 .. Len(stack) : FALSE
    BY <2>1
  <2>3. NamesInv
    BY DEF Init, NamesInv, UniqueNames, OneConstructor
  <2>4. Emptied /\ Younger /\ Unlisted /\ \A b \in 1 .. Len(stack) : ModulesGone(b)
    BY <2>1, <2>2 DEF Emptied, Younger, Unlisted
  <2>5. FollowInv
    BY <2>1, <2>2 DEF FollowInv, Making, Sited, Followed
  <2>6. BehindInv
    BY <2>1, <2>2 DEF BehindInv, ProfileAlone, Promised, AllDue
  <2>7. QED BY <2>3, <2>4, <2>5, <2>6, OwnModulesInit DEF ModulesInv
<1>2. TypeInv /\ TypeInv' /\ Inv /\ [Next]_vars => Inv'
  BY NamesStep, ModulesStep, FollowStep, BehindStep
<1>3. Inv => NobodyLeftBehind
  <2> SUFFICES ASSUME Inv, stack = <<>>, ~failed
               PROVE  records \subseteq isInitialized /\ (started => records \subseteq isStarted)
    BY DEF NobodyLeftBehind
  <2>1. AllDue(Counted)
    BY DEF BehindInv
  <2>2. \A h, i, p : ~OwedIn(stack, h, i, p)
    BY DEF OwedIn
  <2>3. QED BY <2>1, <2>2 DEF AllDue, Due, Flagged, Counted
<1> HIDE DEF Inv
<1>4. QED BY <1>1, <1>2, <1>3, TypeCorrect, PTL DEF Spec

-----------------------------------------------------------------------------
(* Disposal is complete.                                                   *)
(*                                                                         *)
(* The loop of dispose() goes over a snapshot, so what counts is that no   *)
(* service enters the registry behind it.  Nothing above the loop makes    *)
(* services: a module loop, a profile and a constructor are never put      *)
(* there, because register() and initializeProfile() ask throwIfDisposed.  *)
(* So the registry holds only what the loop has left, and the one instance *)
(* it is disposing of, which has gone when that call returns.  And every   *)
(* instance is registered or destroyed, unless its constructor runs.       *)

Ending ==
  \A b \in 1 .. Len(stack) : Level(stack, b).t = "disposeAll" =>
    /\ disposed
    /\ \A c \in 1 .. Len(stack) : b < c =>
         Level(stack, c).t \notin {"profile", "modules"} /\ ~Constructing(Level(stack, c))
    /\ b = Len(stack) => records \subseteq Level(stack, b).insts
    /\ b < Len(stack) =>
         /\ Disposing(Level(stack, b + 1))
         /\ records \subseteq Level(stack, b).insts \cup {Level(stack, b + 1).inst}

AllKnown ==
  \A i \in Created : i \in Known \/ (stack # <<>> /\ Constructing(Top) /\ i = Top.inst)

Unsubscribed ==
  (disposed /\ subscribed) => \E b \in 1 .. Len(stack) : Level(stack, b).t = "disposeAll"

EndInv == ~failed => Ending /\ AllKnown /\ Unsubscribed

(* dispose() is never taken back, and is the only step that sets its flag; *)
(* the subscriptions are never renewed.                                    *)
LEMMA DisposedGrows ==
  ASSUME [Next]_vars, disposed
  PROVE  disposed'
<1>1. CASE Call
  BY <1>1
  DEF Call, InitializeProfile, Start, Tick, Reset, Dispose, Register, Unregister, Construct,
      managerVars
<1>2. CASE Advance
  BY <1>2
  DEF Advance, ProfileNext, ProfileDone, ModulesNext, ModulesDone, WalkNext,
      StartIfStartedNext, HookNext, HookModulesNext, ForEachNext, DisposeAllNext,
      DisposeNext, DisposeModulesNext, DestroyNext, ConstructReturns, InitializeReturns,
      StartReturns, CallbackReturns, DestroyReturns, UserThrows, Construct, managerVars
<1>3. CASE Wait \/ UNCHANGED vars
  BY <1>3
  DEF Wait, ResolveAsync, ResolveTimeout, WaitUntilInitialized, InitializationTimeout,
      vars, managerVars
<1>4. QED BY <1>1, <1>2, <1>3 DEF Next

LEMMA DisposedBy ==
  ASSUME [Next]_vars, ~disposed, disposed'
  PROVE  Dispose
<1>1. CASE Call
  BY <1>1
  DEF Call, InitializeProfile, Start, Tick, Reset, Register, Unregister, Construct,
      managerVars
<1>2. CASE Advance
  BY <1>2
  DEF Advance, ProfileNext, ProfileDone, ModulesNext, ModulesDone, WalkNext,
      StartIfStartedNext, HookNext, HookModulesNext, ForEachNext, DisposeAllNext,
      DisposeNext, DisposeModulesNext, DestroyNext, ConstructReturns, InitializeReturns,
      StartReturns, CallbackReturns, DestroyReturns, UserThrows, Construct, managerVars
<1>3. CASE Wait \/ UNCHANGED vars
  BY <1>3
  DEF Wait, ResolveAsync, ResolveTimeout, WaitUntilInitialized, InitializationTimeout,
      vars, managerVars
<1>4. QED BY <1>1, <1>2, <1>3 DEF Next

LEMMA SubscribedShrinks ==
  ASSUME [Next]_vars, subscribed'
  PROVE  subscribed
<1>1. CASE Call
  BY <1>1
  DEF Call, InitializeProfile, Start, Tick, Reset, Dispose, Register, Unregister, Construct,
      managerVars
<1>2. CASE Advance
  BY <1>2
  DEF Advance, ProfileNext, ProfileDone, ModulesNext, ModulesDone, WalkNext,
      StartIfStartedNext, HookNext, HookModulesNext, ForEachNext, DisposeAllNext,
      DisposeNext, DisposeModulesNext, DestroyNext, ConstructReturns, InitializeReturns,
      StartReturns, CallbackReturns, DestroyReturns, UserThrows, Construct, managerVars
<1>3. CASE Wait \/ UNCHANGED vars
  BY <1>3
  DEF Wait, ResolveAsync, ResolveTimeout, WaitUntilInitialized, InitializationTimeout,
      vars, managerVars
<1>4. QED BY <1>1, <1>2, <1>3 DEF Next

LEMMA DisposedStays ==
  ASSUME [Next]_vars
  PROVE  /\ disposed => disposed'
         /\ disposed' => disposed \/ Dispose
         /\ subscribed' => subscribed
BY DisposedGrows, DisposedBy, SubscribedShrinks

(* A service enters the registry when its constructor returns, and leaves  *)
(* it for the destroyed ones.                                              *)
LEMMA KnownStays ==
  ASSUME TypeInv, [Next]_vars
  PROVE  /\ Known \subseteq Known'
         /\ ~ConstructReturns => records' \subseteq records
<1>1. CASE Constructs
  <2>1. UNCHANGED <<records, isDestroyed>>
    BY <1>1 DEF Constructs, ProfileNext, ModulesNext, Register, Construct, registryVars, flagVars
  <2>2. QED BY <2>1 DEF Known
<1>2. CASE ConstructReturns
  BY <1>2 DEF ConstructReturns, Known
<1>3. CASE DestroyReturns
  BY <1>3 DEF DestroyReturns, Known
<1>4. CASE ~Constructs /\ ~ConstructReturns /\ ~DestroyReturns
  <2>1. UNCHANGED <<records, isDestroyed>>
    <3>1. CASE Call
      BY <1>4, <3>1
      DEF Call, Constructs, InitializeProfile, Start, Tick, Reset, Dispose, Unregister,
          registryVars, flagVars
    <3>2. CASE Advance
      BY <1>4, <3>2
      DEF Advance, Constructs, ProfileDone, ModulesDone, WalkNext, StartIfStartedNext,
          HookNext, HookModulesNext, ForEachNext, DisposeAllNext, DisposeNext,
          DisposeModulesNext, DestroyNext, InitializeReturns, StartReturns, CallbackReturns,
          UserThrows, registryVars, flagVars
    <3>3. CASE Wait \/ UNCHANGED vars
      BY <3>3
      DEF Wait, ResolveAsync, ResolveTimeout, WaitUntilInitialized, InitializationTimeout,
          vars, registryVars, flagVars
    <3>4. QED BY <3>1, <3>2, <3>3 DEF Next
  <2>2. QED BY <2>1 DEF Known
<1>5. QED BY <1>1, <1>2, <1>3, <1>4

(* Everything else leaves the instances that were created as they are. *)
LEMMA RecordKept ==
  ASSUME [Next]_vars, ~Constructs
  PROVE  UNCHANGED record
BY RegistrySteps
DEF ConstructReturns, DestroyReturns, ProfileDone, Wait, ResolveAsync, ResolveTimeout,
    WaitUntilInitialized, InitializationTimeout, registryVars

LEMMA AllKnownStep ==
  ASSUME ConstructorsDoNotReenter, TypeInv, TypeInv', AllKnown, [Next]_vars, ~failed'
  PROVE  AllKnown'
<1> DEFINE L == Len(record) + 1
<1>1. Known \subseteq Known'
  BY KnownStays
<1>2. CASE Wait \/ UNCHANGED vars
  <2>1. UNCHANGED <<record, stack>>
    BY <1>2
    DEF Wait, ResolveAsync, ResolveTimeout, WaitUntilInitialized, InitializationTimeout, vars,
        registryVars
  <2>2. Top' = Top
    BY <2>1 DEF Top
  <2>3. QED BY <1>1, <2>1, <2>2 DEF AllKnown, Created, Constructing
<1>3. CASE Constructs
  <2>1. ~(stack # <<>> /\ Constructing(Top))
    BY <1>3
    DEF Constructs, ProfileNext, ModulesNext, Register, Calls, At, Constructing,
        ConstructorsDoNotReenter, Operation
  <2>2. CASE Skips
    BY <1>1, <2>1, <2>2 DEF AllKnown, Skips, registryVars, Created
  <2>3. ASSUME NEW p, Adds(p), stack' # <<>>, Level(stack', Len(stack')) = User("construct", L)
        PROVE  AllKnown'
    <3>1. Created' = Created \cup {L}
      <4>1. PICK r : record' = Append(record, r)
        BY <2>3 DEF Adds
      <4>2. record \in Seq(Record)
        BY DEF TypeInv, TypeOK
      <4>3. Len(record') = L /\ Len(record) \in Nat
        BY <4>1, <4>2
      <4>4. QED BY <4>3 DEF Created
    <3>2. Top' = User("construct", L)
      BY <2>3, HeadLevel
    <3>3. Constructing(Top)' /\ Top'.inst = L
      BY <3>2 DEF Constructing, User, About
    <3>4. QED BY <1>1, <2>1, <2>3, <3>1, <3>3 DEF AllKnown
  <2>4. CASE ProfileCreates
    <3>1. Level(stack', Len(stack')) = User("construct", L) /\ stack' # <<>> /\ Adds(0)
      BY <2>4 DEF ProfileCreates, Begins, TypeInv, TypeOK
    <3>2. QED BY <2>3, <3>1
  <2>5. CASE RegisterCreates
    <3>1. Level(stack', Len(stack')) = User("construct", L) /\ stack' # <<>> /\ Adds(0)
      BY <2>5 DEF RegisterCreates, Begins, TypeInv, TypeOK
    <3>2. QED BY <2>3, <3>1
  <2>6. CASE ModulesCreate
    <3>1. Level(stack', Len(stack')) = User("construct", L) /\ stack' # <<>> /\ Adds(Top.inst)
      BY <2>6 DEF ModulesCreate, TypeInv, TypeOK
    <3>2. QED BY <2>3, <3>1
  <2>7. QED BY <1>3, <2>2, <2>4, <2>5, <2>6, ConstructsLevels
<1>4. CASE ConstructReturns
  <2>1. UNCHANGED record /\ Top.inst \in records'
    BY <1>4 DEF ConstructReturns
  <2>2. QED BY <1>1, <2>1 DEF AllKnown, Created, Known
<1>5. CASE ~(Wait \/ UNCHANGED vars) /\ ~Constructs /\ ~ConstructReturns
  <2>1. ~(stack # <<>> /\ Constructing(Top))
    BY <1>5, ConstructorRuns DEF UserThrows, Throw
  <2>2. UNCHANGED record
    BY <1>5, RecordKept
  <2>3. QED BY <1>1, <2>1, <2>2 DEF AllKnown, Created
<1>6. QED BY <1>2, <1>3, <1>4, <1>5

(* What acts on the loop of dispose(). *)
LEMMA EndingActs ==
  ASSUME [Next]_vars, stack # <<>>, Top.t = "disposeAll", ~(Wait \/ UNCHANGED vars)
  PROVE  DisposeAllNext
<1>1. \A op : ~Calls(op)
  BY DEF Calls, At
<1>2. ~Call
  BY <1>1
  DEF Call, InitializeProfile, Start, Tick, Reset, Dispose, Register, Unregister
<1>3. Advance
  BY <1>2 DEF Next
<1>4. QED
  BY <1>3
  DEF Advance, ProfileNext, ProfileDone, ModulesNext, ModulesDone, WalkNext,
      StartIfStartedNext, HookNext, HookModulesNext, ForEachNext, DisposeNext,
      DisposeModulesNext, DestroyNext, ConstructReturns, InitializeReturns, StartReturns,
      CallbackReturns, DestroyReturns, UserThrows, Returns, At

(* The frames the loop puts in its place. *)
LEMMA EndingLevels ==
  ASSUME TypeInv, DisposeAllNext
  PROVE  \/ /\ stack' = Rest /\ subscribed' = FALSE
         \/ \E i \in Top.insts :
              /\ Len(stack') = Len(stack) + 1
              /\ Level(stack', Len(stack)) = DisposeAll(Top.insts \ {i})
              /\ Level(stack', Len(stack) + 1) = DisposeOne(i)
<1>1. stack # <<>>
  BY DEF DisposeAllNext, At
<1>2. CASE stack' = Rest /\ subscribed' = FALSE
  BY <1>2
<1>3. ASSUME NEW i \in Top.insts, stack' = <<DisposeOne(i), DisposeAll(Top.insts \ {i})>> \o Rest
      PROVE  /\ Len(stack') = Len(stack) + 1
             /\ Level(stack', Len(stack)) = DisposeAll(Top.insts \ {i})
             /\ Level(stack', Len(stack) + 1) = DisposeOne(i)
  <2> DEFINE f == DisposeOne(i)
             g == DisposeAll(Top.insts \ {i})
  <2>1. stack' = <<f, g>> \o Rest
    BY <1>3
  <2> HIDE DEF f, g
  <2>2. /\ Len(stack') = Len(Rest) + 2
        /\ Level(stack', Len(Rest) + 1) = g /\ Level(stack', Len(Rest) + 2) = f
    BY <1>1, <2>1, CalledOnTop, Zenon
  <2>3. Len(Rest) + 1 = Len(stack) /\ Len(Rest) + 2 = Len(stack) + 1
    BY <1>1, LevelPop
  <2>4. QED BY <2>2, <2>3 DEF f, g
<1>4. QED BY <1>2, <1>3 DEF DisposeAllNext

LEMMA UnsubscribedStep ==
  ASSUME TypeInv, TypeInv', OwnModules, Unsubscribed, [Next]_vars, ~failed'
  PROVE  Unsubscribed'
<1> DEFINE n == Len(stack)
<1> SUFFICES ASSUME disposed', subscribed'
             PROVE  \E b \in 1 .. Len(stack') : Level(stack', b).t = "disposeAll"
  BY DEF Unsubscribed
<1>1. CASE stack' = stack /\ disposed
  BY <1>1, DisposedStays DEF Unsubscribed
<1>2. CASE Dispose
  <2> DEFINE f == DisposeAll(records)
             S == Frame \cup {f}
  <2>1. stack' = Pushed(f, stack)
    BY <1>2 DEF Dispose, Pushed
  <2>2. f.t = "disposeAll"
    BY DEF DisposeAll, About
  <2>3. f \in S /\ stack \in Seq(S)
    BY SequencesGrow DEF TypeInv, TypeOK
  <2> HIDE DEF f, S
  <2>4. Len(stack') = n + 1 /\ n \in Nat /\ Level(stack', n + 1) = f
    BY <2>1, <2>3, LevelPush
  <2>5. n + 1 \in 1 .. Len(stack')
    BY <2>4
  <2>6. QED BY <2>2, <2>4, <2>5
<1>3. CASE ~(stack' = stack) /\ disposed
  <2>1. PICK b \in 1 .. n : Level(stack, b).t = "disposeAll"
    BY <1>3, DisposedStays DEF Unsubscribed
  <2>2. Runs
    BY StepRuns DEF Breaks, Throw
  <2>3. PICK m :
          /\ Arises(m)
          /\ m = n \/ (stack # <<>> /\ m = n - 1)
    BY <2>2 DEF Runs
  <2>4. n \in Nat /\ m \in Nat /\ m <= n /\ m <= Len(stack') /\ Len(stack') \in Nat
    BY <2>3, LenProperties DEF Arises, TypeInv, TypeOK
  <2>5. CASE b <= m
    <3>1. b \in 1 .. m /\ b \in 1 .. Len(stack')
      BY <2>4, <2>5
    <3>2. QED BY <2>1, <2>3, <3>1 DEF Arises
  <2>6. CASE ~(b <= m)
    <3>1. b = n /\ stack # <<>>
      BY <2>3, <2>4, <2>6
    <3>2. Top.t = "disposeAll"
      BY <2>1, <3>1, LevelPop
    <3>3. ~(Wait \/ UNCHANGED vars)
      BY <1>3
      DEF Wait, ResolveAsync, ResolveTimeout, WaitUntilInitialized, InitializationTimeout, vars
    <3>4. DisposeAllNext
      BY <3>1, <3>2, <3>3, EndingActs
    <3>5. Len(stack') = n + 1 /\ \E S : Level(stack', n) = DisposeAll(S)
      BY <3>4, EndingLevels
    <3>6. n \in 1 .. Len(stack')
      BY <2>4, <3>1, <3>5
    <3>7. Level(stack', n).t = "disposeAll"
      BY <3>5 DEF DisposeAll, About
    <3>8. QED BY <3>6, <3>7
  <2>7. QED BY <2>5, <2>6
<1>4. QED BY <1>1, <1>2, <1>3, DisposedStays

(* Under the loop of dispose() nothing makes services. *)
LEMMA NothingIsMade ==
  ASSUME TypeInv, Ending, NEW b \in 1 .. Len(stack), Level(stack, b).t = "disposeAll"
  PROVE  /\ stack # <<>> /\ disposed /\ ~Constructs /\ ~InitializeProfile /\ ~ConstructReturns
         /\ Top.t \notin {"profile", "modules"}
<1>1. stack # <<>> /\ Len(stack) \in 1 .. Len(stack) /\ Level(stack, Len(stack)) = Top
  <2>1. stack # <<>>
    BY LenProperties DEF TypeInv, TypeOK
  <2>2. QED BY <2>1, LevelPop
<1>2. Top.t \notin {"profile", "modules"} /\ ~Constructing(Top)
  <2>1. CASE b = Len(stack)
    BY <1>1, <2>1 DEF Constructing
  <2>2. CASE b # Len(stack)
    <3>1. b < Len(stack)
      BY <1>1, <2>2
    <3>2. QED BY <1>1, <3>1 DEF Ending
  <2>3. QED BY <2>1, <2>2
<1>3. disposed
  BY DEF Ending
<1>4. ~Constructs /\ ~InitializeProfile /\ ~ConstructReturns
  BY <1>2, <1>3
  DEF Constructs, ProfileNext, ModulesNext, Register, InitializeProfile, ConstructReturns,
      Returns, At, Constructing
<1>5. QED BY <1>1, <1>2, <1>3, <1>4

(* The instance the loop is disposing of is out when its frame is popped,  *)
(* and until then its frame is there.                                      *)
LEMMA DisposedNext ==
  ASSUME TypeInv, UniqueNames, [Next]_vars, stack # <<>>, stack' # stack, Disposing(Top),
         Top.t = "user" => UserReturns
  PROVE  \/ stack' = Rest /\ Top.inst \notin records'
         \/ /\ Len(stack') >= Len(stack)
            /\ Disposing(Level(stack', Len(stack)))
            /\ Level(stack', Len(stack)).inst = Top.inst
<1> DEFINE n == Len(stack)
           i == Top.inst
<1>1. Len(Rest) + 1 = n /\ n \in Nat
  BY LevelPop
<1>2. CASE Top.t = "dispose"
  <2>1. DisposeNext
    BY <1>2, DisposalActs
  <2>2. CASE Found(i)
    <3> DEFINE f == DisposeModules(modules[i])
               g == DestroyOne(i)
    <3>1. stack' = <<f, g>> \o Rest
      BY <2>1, <2>2 DEF DisposeNext
    <3>2. g.t = "destroy" /\ g.inst = i
      BY DEF DestroyOne, About
    <3> HIDE DEF f, g
    <3>3. Len(stack') = Len(Rest) + 2 /\ Level(stack', Len(Rest) + 1) = g
      BY <3>1, CalledOnTop, Zenon
    <3>4. QED BY <1>1, <3>2, <3>3 DEF Disposing, Destroying
  <2>3. CASE ~Found(i)
    <3>1. i \notin records
      BY <2>3, RegisteredIsFound
    <3>2. QED BY <2>1, <2>3, <3>1 DEF DisposeNext, registryVars
  <2>4. QED BY <2>2, <2>3
<1>3. CASE Top.t = "destroy"
  <2> DEFINE f == User("destroy", i)
             s == <<f>> \o Rest
  <2>1. stack' = s
    BY <1>3, DisposalActs DEF DestroyNext
  <2>2. Len(s) = Len(Rest) + 1 /\ Level(s, Len(Rest) + 1) = f
    BY CallAlone
  <2>3. f.t = "user" /\ f.hook = "destroy" /\ f.inst = i
    BY DEF User, About
  <2> HIDE DEF f, s
  <2>4. QED BY <1>1, <2>1, <2>2, <2>3 DEF Disposing, Destroying, Leaving
<1>4. CASE Leaving(Top)
  BY <1>4, DisposalActs DEF Leaving, DestroyReturns, Returns
<1>5. QED BY <1>2, <1>3, <1>4 DEF Disposing, Destroying

LEMMA EndingStep ==
  ASSUME TypeInv, TypeInv', OwnModules, UniqueNames, Ending, [Next]_vars, ~failed'
  PROVE  Ending'
<1> DEFINE n == Len(stack)
<1>1. Runs
  BY StepRuns DEF Breaks, Throw
<1>2. PICK m :
        /\ Arises(m)
        /\ \/ m = n /\ (stack' = stack \/ stack = <<>> \/ Top.t = "user")
           \/ stack # <<>> /\ m = n - 1 /\ (Top.t = "user" => UserReturns)
  BY <1>1 DEF Runs
<1>3. n \in Nat /\ m \in Nat /\ m <= n /\ m <= Len(stack') /\ Len(stack') \in Nat
  BY <1>2, LenProperties DEF Arises, TypeInv, TypeOK
<1>4. stack # <<>> => n \in 1 .. n /\ Level(stack, n) = Top
  BY LevelPop
<1>5. ASSUME NEW b \in 1 .. Len(stack'), Level(stack', b).t = "disposeAll"
      PROVE  /\ disposed'
             /\ \A c \in 1 .. Len(stack') : b < c =>
                  /\ Level(stack', c).t \notin {"profile", "modules"}
                  /\ ~Constructing(Level(stack', c))
             /\ b = Len(stack') => records' \subseteq Level(stack', b).insts
             /\ b < Len(stack') =>
                  /\ Disposing(Level(stack', b + 1))
                  /\ records' \subseteq Level(stack', b).insts \cup {Level(stack', b + 1).inst}
  <2>1. CASE stack' = stack
    <3>1. ~ConstructReturns /\ disposed
      BY <1>5, <2>1, NothingIsMade DEF Ending
    <3>2. records' \subseteq records /\ disposed'
      BY <3>1, KnownStays, DisposedStays
    <3>3. QED BY <1>5, <2>1, <3>2 DEF Ending
  <2>2. CASE ~(stack' = stack) /\ b <= m
    <3>1. b \in 1 .. m /\ b \in 1 .. n
      BY <1>3, <2>2
    <3>2. Level(stack', b) = Level(stack, b) /\ Level(stack, b).t = "disposeAll"
      BY <1>2, <1>5, <3>1 DEF Arises
    <3>3. /\ stack # <<>> /\ disposed /\ ~Constructs /\ ~InitializeProfile /\ ~ConstructReturns
          /\ Top.t \notin {"profile", "modules"}
      BY <3>1, <3>2, NothingIsMade
    <3>4. records' \subseteq records /\ disposed'
      BY <3>3, KnownStays, DisposedStays
    <3>5. UNCHANGED record
      BY <3>3, RecordKept
    <3>6. ASSUME NEW c \in 1 .. Len(stack'), b < c
          PROVE  Level(stack', c).t \notin {"profile", "modules"} /\ ~Constructing(Level(stack', c))
      <4>1. CASE c <= m
        <5>1. c \in 1 .. m /\ c \in 1 .. n
          BY <1>3, <4>1
        <5>2. Level(stack', c) = Level(stack, c)
          BY <1>2, <5>1 DEF Arises
        <5>3. QED BY <3>1, <3>2, <3>6, <5>1, <5>2 DEF Ending
      <4>2. CASE ~(c <= m)
        <5> DEFINE f == Level(stack', c)
        <5>1. Fresh(f)
          BY <1>2, <1>3, <4>2 DEF Arises
        <5>2. f.t = "modules" => f.inst \in 1 .. Len(record)
          <6>1. Len(stack') + 1 - c \in 1 .. Len(stack')
            BY <1>3
          <6>2. f \in Frames(Len(record))
            BY <3>5, <6>1, ElementOfSeq DEF TypeInv, Bounded, Level, Frames
          <6>3. QED BY <6>2 DEF Frames
        <5>3. Len(record) \in Nat
          BY DEF TypeInv, TypeOK
        <5>4. f.t # "modules"
          BY <3>3, <5>1, <5>2, <5>3 DEF Fresh
        <5>5. f.t # "profile" /\ ~Constructing(f)
          BY <3>3, <5>1 DEF Fresh, Constructs, Constructing
        <5>6. QED BY <5>4, <5>5
      <4>3. QED BY <4>1, <4>2
    <3>7. CASE b + 1 <= m
      <4>1. b + 1 \in 1 .. m /\ b + 1 \in 1 .. n /\ b < n /\ b # Len(stack')
        BY <1>3, <3>7
      <4>2. Level(stack', b + 1) = Level(stack, b + 1)
        BY <1>2, <4>1 DEF Arises
      <4>3. /\ Disposing(Level(stack, b + 1))
            /\ records \subseteq Level(stack, b).insts \cup {Level(stack, b + 1).inst}
        BY <3>1, <3>2, <4>1 DEF Ending
      <4>4. QED BY <3>2, <3>4, <3>6, <4>1, <4>2, <4>3
    <3>8. CASE ~(b + 1 <= m)
      <4>1. b = m
        BY <1>3, <2>2, <3>8
      <4>2. m = n - 1 /\ (Top.t = "user" => UserReturns)
        <5>1. m = n => Top = Level(stack, b)
          BY <1>4, <3>3, <4>1
        <5>2. ~(m = n)
          BY <1>2, <2>2, <3>2, <3>3, <5>1
        <5>3. QED BY <1>2, <5>2
      <4>3. b + 1 = n /\ b < n
        BY <1>3, <4>1, <4>2
      <4>4. Disposing(Top) /\ records \subseteq Level(stack, b).insts \cup {Top.inst}
        BY <1>4, <3>1, <3>2, <3>3, <4>3 DEF Ending
      <4>5. CASE stack' = Rest /\ Top.inst \notin records'
        <5>1. Len(stack') = b
          BY <3>3, <4>3, <4>5, LevelPop
        <5>2. QED BY <1>3, <3>2, <3>4, <3>6, <4>4, <4>5, <5>1
      <4>6. CASE /\ Len(stack') >= n
                 /\ Disposing(Level(stack', n)) /\ Level(stack', n).inst = Top.inst
        <5>1. b # Len(stack')
          BY <1>3, <4>3, <4>6
        <5>2. QED BY <3>2, <3>4, <3>6, <4>3, <4>4, <4>6, <5>1
      <4>7. QED BY <2>2, <3>3, <4>2, <4>4, <4>5, <4>6, DisposedNext
    <3>9. QED BY <3>7, <3>8
  <2>3. CASE ~(stack' = stack) /\ ~(b <= m)
    <3>1. Fresh(Level(stack', b))
      BY <1>2, <1>3, <2>3 DEF Arises
    <3>2. Dispose \/ DisposeAllNext
      BY <1>5, <3>1 DEF Fresh
    <3>3. CASE Dispose
      <4> DEFINE f == DisposeAll(records)
                 S == Frame \cup {f}
      <4>1. stack' = Pushed(f, stack) /\ ~disposed /\ disposed' /\ UNCHANGED records
        BY <3>3 DEF Dispose, Pushed, registryVars
      <4>2. f.insts = records
        BY DEF DisposeAll, About
      <4>3. f \in S /\ stack \in Seq(S)
        BY SequencesGrow DEF TypeInv, TypeOK
      <4> HIDE DEF f, S
      <4>4. /\ Len(stack') = n + 1 /\ Level(stack', n + 1) = f
            /\ \A c \in 1 .. n : Level(stack', c) = Level(stack, c)
        BY <4>1, <4>3, LevelPush
      <4>5. ~(b \in 1 .. n)
        BY <1>5, <4>1, <4>4 DEF Ending
      <4>6. b = n + 1
        BY <1>3, <4>4, <4>5
      <4>7. QED BY <1>3, <4>1, <4>2, <4>4, <4>6
    <3>4. CASE DisposeAllNext
      <4>1. stack # <<>> /\ Top.t = "disposeAll" /\ UNCHANGED <<disposed, records>>
        BY <3>4 DEF DisposeAllNext, At, registryVars
      <4>2. m = n - 1
        BY <1>2, <2>3, <4>1
      <4>3. disposed /\ records \subseteq Top.insts
        BY <1>4, <4>1 DEF Ending
      <4>4. ~(stack' = Rest)
        BY <1>3, <2>3, <4>1, <4>2, LevelPop
      <4>5. PICK i \in Top.insts :
              /\ Len(stack') = n + 1
              /\ Level(stack', n) = DisposeAll(Top.insts \ {i})
              /\ Level(stack', n + 1) = DisposeOne(i)
        BY <3>4, <4>4, EndingLevels
      <4>6. b # n + 1
        BY <1>5, <4>5 DEF DisposeOne, About
      <4>7. b = n
        BY <1>3, <2>3, <4>2, <4>5, <4>6
      <4>8. /\ Level(stack', b).insts = Top.insts \ {i}
            /\ Level(stack', b + 1).t = "dispose" /\ Level(stack', b + 1).inst = i
        BY <4>5, <4>7 DEF DisposeAll, DisposeOne, About
      <4>9. \A c \in 1 .. Len(stack') : b < c => c = b + 1
        BY <1>3, <4>5, <4>7
      <4>10. b < Len(stack') /\ b # Len(stack')
        BY <1>3, <4>5, <4>7
      <4>11. QED BY <4>1, <4>3, <4>8, <4>9, <4>10 DEF Disposing, Constructing
    <3>5. QED BY <3>2, <3>3, <3>4
  <2>4. QED BY <2>1, <2>2, <2>3
<1>6. QED BY <1>5 DEF Ending, Disposing, Destroying, Leaving, Constructing

LEMMA EndStep ==
  ASSUME ConstructorsDoNotReenter, TypeInv, TypeInv', OwnModules, UniqueNames, EndInv,
         [Next]_vars
  PROVE  EndInv'
<1> SUFFICES ASSUME ~failed' PROVE Ending' /\ AllKnown' /\ Unsubscribed'
  BY DEF EndInv
<1>1. Ending /\ AllKnown /\ Unsubscribed
  BY FailedStays DEF EndInv
<1>2. QED BY <1>1, EndingStep, AllKnownStep, UnsubscribedStep

(* When the loop of dispose() has gone through its snapshot of the registry *)
(* (303-305), and nothing has thrown, no service is registered and every   *)
(* instance there ever was has been destroyed, those that callbacks created *)
(* or unregistered before included; once nothing runs any more the manager *)
(* is off the scheduler (307-309).                                         *)
THEOREM DisposalIsComplete ==
  ASSUME ConstructorsDoNotReenter
  PROVE  Spec => []DisposeIsComplete
<1> DEFINE Inv == NamesInv /\ OwnModules /\ EndInv
<1>1. Init => Inv
  <2> SUFFICES ASSUME Init PROVE Inv
    OBVIOUS
  <2>1. stack = <<>> /\ records = {} /\ ~disposed /\ Created = {}
    BY DEF Init, Created
  <2>2. \A b \in 1 .. Len(stack) : FALSE
    BY <2>1
  <2>3. NamesInv
    BY DEF Init, NamesInv, UniqueNames, OneConstructor
  <2>4. EndInv
    BY <2>1, <2>2 DEF EndInv, Ending, AllKnown, Unsubscribed
  <2>5. QED BY <2>3, <2>4, OwnModulesInit
<1>2. TypeInv /\ TypeInv' /\ Inv /\ [Next]_vars => Inv'
  BY NamesStep, OwnModulesStep, EndStep DEF NamesInv
<1>3. TypeInv /\ Inv => DisposeIsComplete
  <2> SUFFICES ASSUME TypeInv, Inv, ~failed
               PROVE  /\ (At("disposeAll") /\ Top.insts = {}) =>
                           records = {} /\ 1 .. Len(record) \subseteq isDestroyed
                      /\ (stack = <<>> /\ disposed) => ~subscribed
    BY DEF DisposeIsComplete
  <2>1. Ending /\ AllKnown /\ Unsubscribed
    BY DEF EndInv
  <2>2. ASSUME At("disposeAll"), Top.insts = {}
        PROVE  records = {} /\ 1 .. Len(record) \subseteq isDestroyed
    <3>1. stack # <<>> /\ Top.t = "disposeAll"
      BY <2>2 DEF At
    <3>2. Len(stack) \in 1 .. Len(stack) /\ Level(stack, Len(stack)) = Top
      BY <3>1, LevelPop
    <3>3. records = {}
      BY <2>1, <2>2, <3>1, <3>2 DEF Ending
    <3>4. QED BY <2>1, <3>1, <3>3 DEF AllKnown, Known, Created, Constructing
  <2>3. (stack = <<>> /\ disposed) => ~subscribed
    BY <2>1 DEF Unsubscribed
  <2>4. QED BY <2>2, <2>3
<1> HIDE DEF Inv
<1>4. QED BY <1>1, <1>2, <1>3, TypeCorrect, PTL DEF Spec

-----------------------------------------------------------------------------
(* A service starts after it is initialized.                               *)
(*                                                                         *)
(* start() is called by the loops of start() itself, over a snapshot of    *)
(* the registry, and by what ends a late registration.  The second lies    *)
(* under the walk that initializes the service and its modules, and what   *)
(* it will start that walk still owes its initialize().  The first begins  *)
(* when no initialize() is running, and then nothing is left of any        *)
(* activation: it keeps running code on top of it until it ends.  Hence    *)
(* all that is registered is initialized, and it stays so; what is created *)
(* later is none of the loop's business, because an instance whose modules *)
(* are still being made is not initialized.                                *)

Entries(p) == {serviceModules[p][k] : k \in 1 .. Len(serviceModules[p])}

TopLevel(p) == record[p].parent = 0

(* The walk that is to initialize p and its modules, not yet begun. *)
OwnWalk(f, p) == f.t = "walk" /\ f.hook = "initialize" /\ f.inst = p /\ f.n = 0

(* Modules have no modules.  The loop that makes an instance's modules lies *)
(* on the walk that will initialize the instance.                          *)
Flat ==
  /\ \A j \in Created : ~TopLevel(j) => TopLevel(record[j].parent)
  /\ \A b \in 1 .. Len(stack) : Level(stack, b).t = "modules" =>
       /\ TopLevel(Level(stack, b).inst) /\ Level(stack, b).inst \notin isInitialized
       /\ b > 1 /\ OwnWalk(Level(stack, b - 1), Level(stack, b).inst)

Increasing(s) == \A k, l \in 1 .. Len(s) : k < l => s[k] < s[l]

(* An instance lists its modules in the order they were made, and none that *)
(* was destroyed.                                                          *)
Ordered ==
  \A p \in Inst : Increasing(serviceModules[p]) /\ Entries(p) \cap isDestroyed = {}

Activating(f) ==
  \/ f.t \in {"walk", "hook", "hookModules"} /\ f.hook = "initialize"
  \/ f.t = "modules" \/ Constructing(f)

Initializes(f) == f.t = "user" /\ f.hook = "initialize"

Initializing == \E b \in 1 .. Len(stack) : Initializes(Level(stack, b))

(* Whatever else lies on an activation, some initialize() called it. *)
Linked ==
  \A b, c \in 1 .. Len(stack) :
    (b <= c /\ Activating(Level(stack, b))) =>
      Activating(Level(stack, c)) \/ \E d \in b .. c : Initializes(Level(stack, d))

(* Frame f calls start() of instance i, or may call it. *)
Starts(f, i) ==
  /\ f.hook = "start"
  /\ \/ f.t \in {"walk", "hook", "hookModules", "user"} /\ i = f.inst
     \/ f.t \in {"walk", "hook", "hookModules"} /\ i \in Entries(f.inst)
     \/ f.t = "walk" /\ i \in modules[f.inst]
     \/ f.t = "forEach" /\ \E j \in f.insts : i \in {j} \cup Entries(j)

(* Frame f will, when the activation above it ends. *)
WillStart(f, i) ==
  f.t = "startIfStarted" /\ i \in {f.inst} \cup Entries(f.inst) \cup modules[f.inst]

Begun == \A b \in 1 .. Len(stack), i \in Inst : Starts(Level(stack, b), i) => i \in isInitialized

Awaited ==
  \A b \in 1 .. Len(stack) : Level(stack, b).t = "startIfStarted" =>
    /\ TopLevel(Level(stack, b).inst)
    /\ \A i \in Inst : WillStart(Level(stack, b), i) =>
         i \in isInitialized \/ OwedFrom(stack, b + 1, "initialize", i, record[i].parent)

FirstInv ==
  /\ isInitialized \subseteq Created
  /\ ~failed => Flat /\ Ordered /\ Linked /\ Begun /\ Awaited

(* What is spliced out of a list: the first entry that is x. *)
LEMMA WithoutAt ==
  ASSUME NEW S, NEW s \in Seq(S), NEW x, Holds(s, x)
  PROVE  \E n \in 1 .. Len(s) :
           /\ s[n] = x
           /\ Len(Without(s, x)) = Len(s) - 1
           /\ \A k \in 1 .. Len(s) - 1 : Without(s, x)[k] = IF k < n THEN s[k] ELSE s[k + 1]
<1> DEFINE n == CHOOSE k \in 1 .. Len(s) : s[k] = x
           a == SubSeq(s, 1, n - 1)
           b == SubSeq(s, n + 1, Len(s))
<1>1. n \in 1 .. Len(s) /\ s[n] = x
  BY DEF Holds
<1>2. Without(s, x) = a \o b
  BY DEF Holds, Without, RemoveAt
<1> HIDE DEF n
<1>3. Len(s) \in Nat
  BY LenProperties
<1>4. /\ a \in Seq(S) /\ Len(a) = n - 1 /\ \A k \in 1 .. n - 1 : a[k] = s[k]
  <2>1. \A i \in 1 .. (n - 1) : s[i] \in S
    BY <1>1
  <2>2. QED BY <1>1, <1>3, <2>1, SubSeqProperties
<1>5. /\ b \in Seq(S) /\ Len(b) = Len(s) - n
      /\ \A k \in 1 .. Len(s) - n : b[k] = s[n + k]
  <2>1. \A i \in (n + 1) .. Len(s) : s[i] \in S
    BY <1>1
  <2>2. QED BY <1>1, <1>3, <2>1, SubSeqProperties
<1> HIDE DEF a, b
<1>6. /\ Len(a \o b) = Len(a) + Len(b)
      /\ \A k \in 1 .. Len(a) + Len(b) :
           (a \o b)[k] = IF k <= Len(a) THEN a[k] ELSE b[k - Len(a)]
  BY <1>4, <1>5, ConcatProperties
<1> DEFINE w == a \o b
<1> HIDE DEF w
<1>7. Len(w) = Len(s) - 1
  BY <1>1, <1>3, <1>4, <1>5, <1>6 DEF w
<1>8. ASSUME NEW k \in 1 .. Len(s) - 1
      PROVE  w[k] = IF k < n THEN s[k] ELSE s[k + 1]
  <2>1. k \in 1 .. Len(a) + Len(b)
    BY <1>1, <1>3, <1>4, <1>5
  <2>2. CASE k < n
    <3>1. k <= Len(a) /\ k \in 1 .. n - 1
      BY <1>1, <1>4, <2>2
    <3>2. QED BY <1>4, <1>6, <2>1, <2>2, <3>1 DEF w
  <2>3. CASE ~(k < n)
    <3>1. /\ ~(k <= Len(a)) /\ k - Len(a) = (k + 1) - n /\ (k + 1) - n \in 1 .. Len(s) - n
          /\ n + ((k + 1) - n) = k + 1
      BY <1>1, <1>3, <1>4, <2>3
    <3>2. QED BY <1>5, <1>6, <2>1, <2>3, <3>1 DEF w
  <2>4. QED BY <2>2, <2>3
<1>9. QED BY <1>1, <1>2, <1>7, <1>8 DEF w

LEMMA WithoutIncreases ==
  ASSUME NEW s \in Seq(Nat), NEW x, Increasing(s)
  PROVE  /\ Increasing(Without(s, x))
         /\ \A k \in 1 .. Len(Without(s, x)) :
              Without(s, x)[k] # x /\ \E l \in 1 .. Len(s) : s[l] = Without(s, x)[k]
<1> DEFINE w == Without(s, x)
<1>1. CASE ~Holds(s, x)
  <2>1. w = s
    BY <1>1 DEF Without, Holds
  <2> HIDE DEF w
  <2>2. QED BY <1>1, <2>1 DEF Holds, w
<1>2. CASE Holds(s, x)
  <2>1. PICK n \in 1 .. Len(s) :
          /\ s[n] = x
          /\ Len(w) = Len(s) - 1
          /\ \A k \in 1 .. Len(s) - 1 : w[k] = IF k < n THEN s[k] ELSE s[k + 1]
    BY <1>2, WithoutAt
  <2> HIDE DEF w
  <2>2. Len(s) \in Nat /\ \A k \in 1 .. Len(s) : s[k] \in Nat
    BY LenProperties, ElementOfSeq
  <2>3. ASSUME NEW k \in 1 .. Len(w)
        PROVE  \E q \in 1 .. Len(s) : q # n /\ w[k] = s[q] /\ q = IF k < n THEN k ELSE k + 1
    <3>1. k \in 1 .. Len(s) - 1
      BY <2>1
    <3>2. k \in 1 .. Len(s) /\ k + 1 \in 1 .. Len(s)
      BY <2>2, <3>1
    <3>3. CASE k < n
      BY <2>1, <3>1, <3>2, <3>3
    <3>4. CASE ~(k < n)
      BY <2>1, <3>1, <3>2, <3>4
    <3>5. QED BY <3>3, <3>4
  <2>4. \A q \in 1 .. Len(s) : q # n => s[q] # x
    <3> SUFFICES ASSUME NEW q \in 1 .. Len(s), q # n PROVE s[q] # s[n]
      BY <2>1
    <3>1. q < n \/ n < q
      BY <2>2
    <3>2. s[q] < s[n] \/ s[n] < s[q]
      BY <3>1 DEF Increasing
    <3>3. QED BY <2>2, <3>2
  <2>5. ASSUME NEW k \in 1 .. Len(w), NEW l \in 1 .. Len(w), k < l
        PROVE  w[k] < w[l]
    <3>1. PICK q \in 1 .. Len(s) : w[k] = s[q] /\ q = IF k < n THEN k ELSE k + 1
      BY <2>3
    <3>2. PICK r \in 1 .. Len(s) : w[l] = s[r] /\ r = IF l < n THEN l ELSE l + 1
      BY <2>3
    <3>3. q < r
      BY <2>5, <3>1, <3>2
    <3>4. QED BY <3>1, <3>2, <3>3 DEF Increasing
  <2>6. Increasing(w)
    BY <2>5 DEF Increasing
  <2>7. \A k \in 1 .. Len(w) : w[k] # x /\ \E l \in 1 .. Len(s) : s[l] = w[k]
    BY <2>3, <2>4
  <2>8. QED BY <2>6, <2>7 DEF w
<1>3. QED BY <1>1, <1>2

LEMMA AppendIncreases ==
  ASSUME NEW s \in Seq(Nat), NEW x \in Nat, Increasing(s), \A k \in 1 .. Len(s) : s[k] < x
  PROVE  /\ Increasing(Append(s, x))
         /\ {Append(s, x)[k] : k \in 1 .. Len(Append(s, x))} = {s[k] : k \in 1 .. Len(s)} \cup {x}
<1> DEFINE w == Append(s, x)
<1>1. /\ Len(s) \in Nat /\ Len(w) = Len(s) + 1 /\ w[Len(s) + 1] = x
      /\ \A k \in 1 .. Len(s) : w[k] = s[k]
  BY LenProperties
<1> HIDE DEF w
<1>2. \A k \in 1 .. Len(w) : k \in 1 .. Len(s) \/ k = Len(s) + 1
  BY <1>1
<1>3. \A k \in 1 .. Len(s) : k \in 1 .. Len(w) /\ s[k] \in Nat
  BY <1>1, ElementOfSeq
<1>4. ASSUME NEW k \in 1 .. Len(w), NEW l \in 1 .. Len(w), k < l
      PROVE  w[k] < w[l]
  <2>1. k \in 1 .. Len(s)
    BY <1>1, <1>4
  <2>2. CASE l \in 1 .. Len(s)
    BY <1>1, <1>4, <2>1, <2>2 DEF Increasing
  <2>3. CASE l = Len(s) + 1
    BY <1>1, <2>1, <2>3
  <2>4. QED BY <1>2, <2>2, <2>3
<1>5. Increasing(w)
  BY <1>4 DEF Increasing
<1>6. Len(s) + 1 \in 1 .. Len(w)
  BY <1>1
<1>7. {w[k] : k \in 1 .. Len(w)} = {s[k] : k \in 1 .. Len(s)} \cup {x}
  BY <1>1, <1>2, <1>3, <1>6
<1>8. QED BY <1>5, <1>7 DEF w

(* The steps that set the flags of initialize() and of destroy(). *)
LEMMA FlagsSetBy ==
  ASSUME [Next]_vars
  PROVE  /\ isInitialized' = isInitialized \/ InitializeReturns
         /\ isDestroyed' = isDestroyed \/ DestroyReturns
<1>1. CASE Call
  BY <1>1
  DEF Call, InitializeProfile, Start, Tick, Reset, Dispose, Register, Unregister, Construct,
      flagVars
<1>2. CASE Advance
  BY <1>2
  DEF Advance, ProfileNext, ProfileDone, ModulesNext, ModulesDone, WalkNext,
      StartIfStartedNext, HookNext, HookModulesNext, ForEachNext, DisposeAllNext,
      DisposeNext, DisposeModulesNext, DestroyNext, ConstructReturns, StartReturns,
      CallbackReturns, UserThrows, Construct, InitializeReturns, DestroyReturns, flagVars
<1>3. CASE Wait \/ UNCHANGED vars
  BY <1>3
  DEF Wait, ResolveAsync, ResolveTimeout, WaitUntilInitialized, InitializationTimeout,
      vars, flagVars
<1>4. QED BY <1>1, <1>2, <1>3 DEF Next

LEMMA InitializedCreated ==
  ASSUME TypeInv, TypeInv', isInitialized \subseteq Created, [Next]_vars
  PROVE  isInitialized' \subseteq Created'
<1>1. CASE InitializeReturns
  <2>1. stack # <<>> /\ Top.t = "user" /\ isInitialized' = isInitialized \cup {Top.inst}
    BY <1>1 DEF InitializeReturns, Returns, At
  <2>2. QED BY <2>1, TopFields, RecordsStay
<1>2. QED BY <1>1, FlagsSetBy, RecordsStay

(* What an instance lists are its own modules. *)
LEMMA EntriesType ==
  ASSUME TypeInv, OwnModules, NEW p \in Inst
  PROVE  /\ serviceModules[p] \in Seq(Nat) /\ Len(serviceModules[p]) \in Nat
         /\ Entries(p) \subseteq OwnOf(p) /\ OwnOf(p) \subseteq Created /\ Created \subseteq Inst
         /\ \A k \in 1 .. Len(serviceModules[p]) : serviceModules[p][k] \in Created
<1>1. /\ serviceModules[p] \in Seq(OwnOf(p)) /\ OwnOf(p) \subseteq Created
      /\ Created \subseteq Nat
  BY DEF OwnModules, OwnOf, Created
<1>2. Created \subseteq Inst
  BY BoundAssumption DEF TypeInv, TypeOK, Created, Inst
<1>3. serviceModules[p] \in Seq(Nat)
  BY <1>1, SequencesGrow
<1>4. \A k \in 1 .. Len(serviceModules[p]) : serviceModules[p][k] \in OwnOf(p)
  BY <1>1, ElementOfSeq
<1>5. QED BY <1>1, <1>2, <1>3, <1>4, LenProperties DEF Entries

(* What creating an instance of parent p does to the lists. *)
LEMMA AddsEntries ==
  ASSUME TypeInv, OwnModules, NEW p \in 0 .. Len(record), Adds(p), NEW q \in Inst,
         Increasing(serviceModules[q])
  PROVE  /\ Increasing(serviceModules'[q])
         /\ Entries(q)' = IF q = p THEN Entries(q) \cup {Len(record) + 1} ELSE Entries(q)
<1> DEFINE L == Len(record) + 1
           s == serviceModules[q]
<1>1. L \in Nat /\ s \in Seq(Nat) /\ \A k \in 1 .. Len(s) : s[k] < L
  <2>1. Len(record) \in Nat
    BY DEF TypeInv, TypeOK
  <2>2. QED BY <2>1, EntriesType DEF Created
<1>2. q # 0
  BY DEF Inst
<1>3. serviceModules'[q] = IF q = p THEN Append(s, L) ELSE s
  BY <1>2 DEF Adds, TypeInv, TypeOK
<1> HIDE DEF s, L
<1>4. CASE q = p
  <2>1. /\ Increasing(Append(s, L))
        /\ {Append(s, L)[k] : k \in 1 .. Len(Append(s, L))} = {s[k] : k \in 1 .. Len(s)} \cup {L}
    BY <1>1, AppendIncreases DEF s
  <2>2. QED BY <1>3, <1>4, <2>1 DEF Entries, s, L
<1>5. CASE q # p
  BY <1>3, <1>5 DEF Entries, s
<1>6. QED BY <1>4, <1>5

(* What an activation adds to the registry. *)
LEMMA ConstructsAdd ==
  ASSUME TypeInv, Constructs, ~failed'
  PROVE  /\ UNCHANGED <<records, modules, isInitialized, isDestroyed, initialized, started>>
         /\ \/ UNCHANGED <<record, serviceModules>>
            \/ \E p \in 0 .. Len(record) :
                 Adds(p) /\ (p # 0 => stack # <<>> /\ Top.t = "modules" /\ p = Top.inst)
<1>1. CASE Skips
  BY <1>1 DEF Skips, registryVars, flagVars, managerVars
<1>2. CASE ProfileCreates \/ RegisterCreates
  <2>1. 0 \in 0 .. Len(record)
    BY DEF TypeInv, TypeOK
  <2>2. QED BY <1>2, <2>1 DEF ProfileCreates, RegisterCreates, Adds, flagVars, managerVars
<1>3. CASE ModulesCreate
  <2>1. stack # <<>> /\ Top.t = "modules" /\ Adds(Top.inst)
    BY <1>3 DEF ModulesCreate
  <2>2. Top.inst \in 0 .. Len(record)
    BY <2>1, TopFields DEF Created
  <2>3. QED BY <2>1, <2>2 DEF Adds, flagVars, managerVars
<1>4. QED BY <1>1, <1>2, <1>3, ConstructsLevels

LEMMA OrderedStep ==
  ASSUME TypeInv, OwnModules, isDestroyed \subseteq Created, Ordered, [Next]_vars, ~failed'
  PROVE  Ordered'
<1>1. ASSUME UNCHANGED <<serviceModules, isDestroyed>> PROVE Ordered'
  BY <1>1 DEF Ordered, Entries
<1>2. CASE Constructs
  <2>1. CASE UNCHANGED <<record, serviceModules>>
    BY <1>1, <1>2, <2>1, ConstructsAdd
  <2>2. ASSUME NEW p \in 0 .. Len(record), Adds(p)
        PROVE  Ordered'
    <3>1. isDestroyed' = isDestroyed /\ Len(record) + 1 \notin isDestroyed
      <4>1. Len(record) \in Nat
        BY DEF TypeInv, TypeOK
      <4>2. QED BY <1>2, <4>1, ConstructsAdd DEF Created
    <3>2. ASSUME NEW q \in Inst
          PROVE  Increasing(serviceModules'[q]) /\ Entries(q)' \cap isDestroyed = {}
      <4>1. Increasing(serviceModules[q]) /\ Entries(q) \cap isDestroyed = {}
        BY DEF Ordered
      <4>2. QED BY <2>2, <3>1, <4>1, AddsEntries
    <3>3. QED BY <3>1, <3>2 DEF Ordered, Increasing, Entries
  <2>3. QED BY <1>2, <2>1, <2>2, ConstructsAdd
<1>3. CASE DestroyReturns
  <2> DEFINE g == Top.inst
             o == record[g].parent
  <2>1. /\ isDestroyed' = isDestroyed \cup {g}
        /\ serviceModules' = IF o = 0 THEN serviceModules
                             ELSE [serviceModules EXCEPT ![o] = Without(@, g)]
        /\ stack # <<>> /\ Top.t = "user"
    BY <1>3 DEF DestroyReturns, Returns, At
  <2>2. g \in Created /\ serviceModules \in [Inst -> Seq(Inst)]
    BY <2>1, TopFields DEF TypeInv, TypeOK
  <2>3. ASSUME NEW q \in Inst
        PROVE  Increasing(serviceModules'[q]) /\ Entries(q)' \cap isDestroyed' = {}
    <3> DEFINE s == serviceModules[q]
    <3>1. Increasing(s) /\ Entries(q) \cap isDestroyed = {} /\ s \in Seq(Nat) /\ q # 0
      BY EntriesType DEF Ordered, Inst
    <3>2. CASE q = o
      <4>1. serviceModules'[q] = Without(s, g)
        BY <2>1, <2>2, <3>1, <3>2
      <4> HIDE DEF g
      <4>2. /\ Increasing(Without(s, g))
            /\ \A k \in 1 .. Len(Without(s, g)) :
                 Without(s, g)[k] # g /\ \E l \in 1 .. Len(s) : s[l] = Without(s, g)[k]
        BY <3>1, WithoutIncreases
      <4> DEFINE w == Without(s, g)
      <4>3. serviceModules'[q] = w
        BY <4>1
      <4>4. /\ Increasing(w)
            /\ \A k \in 1 .. Len(w) : w[k] # g /\ \E l \in 1 .. Len(s) : s[l] = w[k]
        BY <4>2
      <4> HIDE DEF w
      <4>5. Increasing(serviceModules'[q])
        BY <4>3, <4>4
      <4>6. Entries(q)' = {w[k] : k \in 1 .. Len(w)}
        BY <4>3 DEF Entries
      <4>7. Entries(q) = {s[k] : k \in 1 .. Len(s)}
        BY DEF Entries
      <4> HIDE DEF s
      <4>8. Entries(q)' \subseteq Entries(q) /\ g \notin Entries(q)'
        BY <4>4, <4>6, <4>7
      <4>9. QED BY <2>1, <3>1, <4>5, <4>8
    <3>3. CASE q # o
      <4>1. serviceModules'[q] = s
        BY <2>1, <2>2, <3>3
      <4>2. g \notin Entries(q)
        BY <3>3, EntriesType DEF OwnOf
      <4>3. Entries(q)' = Entries(q)
        BY <4>1 DEF Entries
      <4>4. QED BY <2>1, <3>1, <4>1, <4>2, <4>3
    <3>4. QED BY <3>2, <3>3
  <2>4. QED BY <2>3 DEF Ordered, Increasing, Entries
<1>4. CASE ~Constructs /\ ~DestroyReturns
  <2>1. UNCHANGED serviceModules
    <3>1. CASE ModulesDone \/ ConstructReturns
      BY <3>1 DEF ModulesDone, ConstructReturns
    <3>2. CASE ~(ModulesDone \/ ConstructReturns)
      BY <1>4, <3>2, RegistryKept DEF registryVars
    <3>3. QED BY <3>1, <3>2
  <2>2. QED BY <1>1, <1>4, <2>1, FlagsSetBy
<1>5. QED BY <1>2, <1>3, <1>4

(* The frame an activation works on goes on, and the frames of the instance *)
(* it creates.                                                             *)
Again(b) ==
  /\ stack # <<>> /\ b = Len(stack) /\ Top.t \in {"profile", "modules"}
  /\ Level(stack', b).t = Top.t
  /\ Top.t = "modules" => Level(stack', b).inst = Top.inst

Anew(b) ==
  LET f == Level(stack', b)
      L == Len(record) + 1
  IN \/ /\ f.t = "startIfStarted" /\ f.inst = L /\ Adds(0)
        /\ b + 1 \in 1 .. Len(stack') /\ OwnWalk(Level(stack', b + 1), L)
     \/ OwnWalk(f, L)
     \/ /\ f.t = "modules" /\ f.inst = L /\ Adds(0)
        /\ b > 1 /\ OwnWalk(Level(stack', b - 1), L)
     \/ Constructing(f) /\ f.inst = L

LEMMA BeginsBuild ==
  ASSUME NEW m \in Nat, Begins(m), Adds(0), NEW b \in m + 1 .. Len(stack')
  PROVE  Anew(b)
<1>1. b \in {m + 1, m + 2, m + 3} /\ Len(stack') = m + 3
  BY DEF Begins
<1>2. OwnWalk(Level(stack', m + 1), Len(record) + 1)
  BY DEF Begins, OwnWalk, Walk, About
<1>3. CASE b = m + 1
  BY <1>2, <1>3 DEF Anew
<1>4. CASE b = m + 2
  <2>1. b > 1 /\ b - 1 = m + 1
    BY <1>4
  <2>2. Level(stack', b).t = "modules" /\ Level(stack', b).inst = Len(record) + 1
    BY <1>4 DEF Begins
  <2>3. QED BY <1>2, <2>1, <2>2 DEF Anew
<1>5. CASE b = m + 3
  BY <1>5 DEF Begins, Anew, Constructing, User, About
<1>6. QED BY <1>1, <1>3, <1>4, <1>5

LEMMA ConstructsBuild ==
  ASSUME TypeInv, Constructs, ~failed'
  PROVE  /\ Keeps(Len(stack) - 1) /\ Len(stack) \in Nat /\ Len(stack') \in Nat
         /\ Len(stack) <= Len(stack')
         /\ \A b \in 1 .. Len(stack') :
              \/ b \in 1 .. Len(stack) /\ Level(stack', b) = Level(stack, b)
              \/ Again(b) \/ Anew(b)
<1> DEFINE n == Len(stack)
<1>1. n \in Nat
  BY LenProperties DEF TypeInv, TypeOK
<1>2. CASE Skips
  <2>1. Keeps(n - 1) /\ Len(stack') = n
    BY <1>2 DEF Skips
  <2>2. ASSUME NEW b \in 1 .. Len(stack')
        PROVE  (b \in 1 .. n /\ Level(stack', b) = Level(stack, b)) \/ Again(b)
    <3>1. CASE b = n
      BY <1>2, <3>1 DEF Skips, Again
    <3>2. CASE b # n
      <4>1. b \in 1 .. n - 1 /\ b \in 1 .. n
        BY <1>1, <2>1, <3>2
      <4>2. QED BY <2>1, <4>1 DEF Keeps
    <3>3. QED BY <3>1, <3>2
  <2>3. QED BY <1>1, <2>1, <2>2
<1>3. CASE ProfileCreates
  <2>1. Keeps(n - 1) /\ Len(stack') = n + 3 /\ Begins(n) /\ Adds(0)
    BY <1>3 DEF ProfileCreates, Begins
  <2>2. ASSUME NEW b \in 1 .. Len(stack')
        PROVE  (b \in 1 .. n /\ Level(stack', b) = Level(stack, b)) \/ Again(b) \/ Anew(b)
    <3>1. CASE b = n
      BY <1>3, <3>1 DEF ProfileCreates, Again
    <3>2. CASE b < n
      <4>1. b \in 1 .. n - 1 /\ b \in 1 .. n
        BY <1>1, <2>1, <3>2
      <4>2. QED BY <2>1, <4>1 DEF Keeps
    <3>3. CASE b > n
      <4>1. b \in n + 1 .. Len(stack')
        BY <1>1, <2>1, <3>3
      <4>2. QED BY <1>1, <2>1, <4>1, BeginsBuild
    <3>4. QED BY <1>1, <2>1, <3>1, <3>2, <3>3
  <2>3. QED BY <1>1, <2>1, <2>2
<1>4. CASE RegisterCreates
  <2>1. /\ Keeps(n) /\ Len(stack') = n + 4 /\ Begins(n + 1) /\ Adds(0)
        /\ Level(stack', n + 1) = StartIfStarted(Len(record) + 1)
    BY <1>1, <1>4 DEF RegisterCreates, Begins
  <2>2. ASSUME NEW b \in 1 .. Len(stack')
        PROVE  (b \in 1 .. n /\ Level(stack', b) = Level(stack, b)) \/ Anew(b)
    <3>1. CASE b = n + 1
      <4>1. b + 1 \in 1 .. Len(stack') /\ b + 1 = n + 1 + 1
        BY <1>1, <2>1, <3>1
      <4>2. Level(stack', b).t = "startIfStarted" /\ Level(stack', b).inst = Len(record) + 1
        BY <2>1, <3>1 DEF StartIfStarted, About
      <4>3. OwnWalk(Level(stack', b + 1), Len(record) + 1)
        BY <2>1, <4>1 DEF Begins, OwnWalk, Walk, About
      <4>4. QED BY <2>1, <4>1, <4>2, <4>3 DEF Anew
    <3>2. CASE b <= n
      <4>1. b \in 1 .. n
        BY <1>1, <2>1, <3>2
      <4>2. QED BY <2>1, <4>1 DEF Keeps
    <3>3. CASE b > n + 1
      <4>1. b \in (n + 1) + 1 .. Len(stack') /\ n + 1 \in Nat
        BY <1>1, <2>1, <3>3
      <4>2. QED BY <2>1, <4>1, BeginsBuild
    <3>4. QED BY <1>1, <2>1, <3>1, <3>2, <3>3
  <2>3. Keeps(n - 1)
    BY <1>1, <2>1 DEF Keeps
  <2>4. QED BY <1>1, <2>1, <2>2, <2>3
<1>5. CASE ModulesCreate
  <2>1. Keeps(n - 1) /\ Len(stack') = n + 1
    BY <1>5 DEF ModulesCreate
  <2>2. ASSUME NEW b \in 1 .. Len(stack')
        PROVE  (b \in 1 .. n /\ Level(stack', b) = Level(stack, b)) \/ Again(b) \/ Anew(b)
    <3>1. CASE b = n
      BY <1>5, <3>1 DEF ModulesCreate, Again
    <3>2. CASE b < n
      <4>1. b \in 1 .. n - 1 /\ b \in 1 .. n
        BY <1>1, <2>1, <3>2
      <4>2. QED BY <2>1, <4>1 DEF Keeps
    <3>3. CASE b = n + 1
      BY <1>5, <3>3 DEF ModulesCreate, Anew, Constructing, User, About
    <3>4. QED BY <1>1, <2>1, <3>1, <3>2, <3>3
  <2>3. QED BY <1>1, <2>1, <2>2
<1>6. QED BY <1>2, <1>3, <1>4, <1>5, ConstructsLevels

(* A new instance has no modules yet. *)
LEMMA NewIsTopLevel ==
  ASSUME TypeInv, TypeInv', OwnModules, Adds(0)
  PROVE  /\ Len(record) + 1 \in Inst /\ record'[Len(record) + 1].parent = 0
         /\ serviceModules' = serviceModules /\ modules' = modules
         /\ Entries(Len(record) + 1) = {} /\ modules[Len(record) + 1] = {}
<1> DEFINE L == Len(record) + 1
<1>1. L - 1 \in Nat /\ 0 \in 0 .. Len(record)
  BY DEF TypeInv, TypeOK
<1>2. record'[L].parent = 0 /\ modules' = modules /\ serviceModules' = serviceModules
  BY <1>1, AddsOne DEF Adds
<1>3. L \in Inst
  <2>1. PICK r : record' = Append(record, r)
    BY DEF Adds
  <2>2. record \in Seq(Record)
    BY DEF TypeInv, TypeOK
  <2>3. Len(record') = L
    BY <2>1, <2>2
  <2>4. L <= MaxInstances
    BY <2>3 DEF TypeInv, TypeOK
  <2>5. QED BY <1>1, <2>4, BoundAssumption DEF Inst
<1>4. OwnOf(L) = {}
  BY <1>1 DEF OwnOf, OwnModules, Created, TypeInv, TypeOK, Record
<1>5. Entries(L) \subseteq OwnOf(L) /\ modules[L] \subseteq OwnOf(L)
  BY <1>3, EntriesType DEF OwnModules
<1>6. QED BY <1>2, <1>3, <1>4, <1>5

LEMMA FlatStep ==
  ASSUME ConstructorsDoNotReenter, TypeInv, TypeInv', NamesInv, OwnModules, Making, Followed,
         isInitialized \subseteq Created, Flat, [Next]_vars, ~failed'
  PROVE  Flat'
<1> DEFINE n == Len(stack)
           L == Len(record) + 1
<1>1. CASE Wait \/ UNCHANGED vars
  <2>1. UNCHANGED <<record, isInitialized, stack>>
    BY <1>1
    DEF Wait, ResolveAsync, ResolveTimeout, WaitUntilInitialized, InitializationTimeout, vars,
        registryVars, flagVars
  <2>2. QED BY <2>1 DEF Flat, TopLevel, Created
<1>2. ASSUME UNCHANGED record, Unmaking' PROVE Flat'
  BY <1>2 DEF Flat, TopLevel, Created, Unmaking, Constructing
<1>3. CASE ModulesDone
  BY <1>2, <1>3, DoneFollows DEF ModulesDone
<1>4. CASE ~(Wait \/ UNCHANGED vars) /\ ~Constructs /\ ~ConstructReturns /\ ~ModulesDone
  BY <1>2, <1>4, UnmakingStep
<1>5. CASE ConstructReturns
  <2>1. /\ stack # <<>> /\ stack' = Rest /\ UNCHANGED <<record, isInitialized>>
    BY <1>5 DEF ConstructReturns, Returns, At
  <2>2. /\ n \in Nat \ {0} /\ Len(stack') = n - 1
        /\ \A b \in 1 .. n - 1 : Level(stack', b) = Level(stack, b)
    BY <2>1, LevelPop
  <2>3. ASSUME NEW b \in 1 .. Len(stack'), Level(stack', b).t = "modules"
        PROVE  /\ TopLevel(Level(stack', b).inst) /\ Level(stack', b).inst \notin isInitialized
               /\ b > 1 /\ OwnWalk(Level(stack', b - 1), Level(stack', b).inst)
    <3>1. b \in 1 .. n - 1 /\ b \in 1 .. n /\ Level(stack', b) = Level(stack, b)
      BY <2>2
    <3>2. /\ TopLevel(Level(stack, b).inst) /\ Level(stack, b).inst \notin isInitialized
          /\ b > 1 /\ OwnWalk(Level(stack, b - 1), Level(stack, b).inst)
      BY <2>3, <3>1 DEF Flat
    <3>3. b - 1 \in 1 .. n - 1
      BY <3>1, <3>2
    <3>4. QED BY <2>2, <3>1, <3>2, <3>3
  <2>4. QED BY <2>1, <2>3 DEF Flat, TopLevel, Created
<1>6. CASE Constructs
  <2>1. /\ UNCHANGED isInitialized
        /\ \/ UNCHANGED <<record, serviceModules>>
           \/ \E p \in 0 .. Len(record) :
                Adds(p) /\ (p # 0 => stack # <<>> /\ Top.t = "modules" /\ p = Top.inst)
    BY <1>6, ConstructsAdd
  <2>2. /\ Keeps(n - 1) /\ n \in Nat /\ Len(stack') \in Nat /\ n <= Len(stack')
        /\ \A b \in 1 .. Len(stack') :
             (b \in 1 .. n /\ Level(stack', b) = Level(stack, b)) \/ Again(b) \/ Anew(b)
    BY <1>6, ConstructsBuild
  <2>3. /\ \A i \in Created : record'[i] = record[i] /\ i # L
        /\ Len(record) \in Nat
        /\ \A i \in Created' : i \in Created \/ (i = L /\ record' # record)
    <3>1. Len(record) \in Nat /\ record \in Seq(Record)
      BY DEF TypeInv, TypeOK
    <3>2. \A i \in Created : record'[i] = record[i] /\ i # L
      BY <3>1, RecordsStay DEF Created
    <3>3. CASE record' = record
      BY <3>1, <3>2, <3>3 DEF Created
    <3>4. ASSUME NEW p, Adds(p)
          PROVE  Len(record') = L
      <4>1. PICK r : record' = Append(record, r)
        BY <3>4 DEF Adds
      <4>2. QED BY <3>1, <4>1
    <3>5. QED BY <2>1, <3>1, <3>2, <3>3, <3>4 DEF Created
  <2>4. ASSUME stack # <<>>, Top.t = "modules"
        PROVE  /\ Top.inst \in Created /\ TopLevel(Top.inst) /\ Top.inst \notin isInitialized
               /\ n > 1 /\ OwnWalk(Level(stack, n - 1), Top.inst)
    <3>1. n \in 1 .. n /\ Level(stack, n) = Top
      BY <2>4, LevelPop
    <3>2. QED BY <2>4, <3>1, TopFields DEF Flat
  <2>5. \A i \in Created : TopLevel(i) <=> record'[i].parent = 0
    BY <2>3 DEF TopLevel
  <2>6. ASSUME NEW j \in Created', record'[j].parent # 0
        PROVE  record'[record'[j].parent].parent = 0
    <3>1. CASE j \in Created
      <4>1. ~TopLevel(j) /\ record'[j].parent = record[j].parent
        BY <2>3, <2>6, <3>1 DEF TopLevel
      <4>2. TopLevel(record[j].parent) /\ record[j].parent \in Created
        <5>1. record[j].parent \in 0 .. Len(record)
          BY <3>1 DEF TypeInv, Bounded
        <5>2. QED BY <3>1, <4>1, <5>1 DEF Flat, TopLevel, Created
      <4>3. QED BY <2>5, <4>1, <4>2
    <3>2. CASE j = L /\ record' # record
      <4>1. PICK p \in 0 .. Len(record) :
              Adds(p) /\ (p # 0 => stack # <<>> /\ Top.t = "modules" /\ p = Top.inst)
        BY <2>1, <3>2
      <4>2. record'[j].parent = p
        BY <3>2, <4>1, AddsOne
      <4>3. QED BY <2>4, <2>5, <2>6, <4>1, <4>2
    <3>3. QED BY <2>3, <3>1, <3>2
  <2>7. ASSUME NEW b \in 1 .. Len(stack'), Level(stack', b).t = "modules"
        PROVE  /\ record'[Level(stack', b).inst].parent = 0
               /\ Level(stack', b).inst \notin isInitialized
               /\ b > 1 /\ OwnWalk(Level(stack', b - 1), Level(stack', b).inst)
    <3> DEFINE q == Level(stack', b).inst
    <3>1. CASE b \in 1 .. n /\ Level(stack', b) = Level(stack, b)
      <4>1. q \in Created
        BY <2>7, <3>1, LevelType DEF Frames, Created
      <4>2. TopLevel(q) /\ q \notin isInitialized /\ b > 1 /\ OwnWalk(Level(stack, b - 1), q)
        BY <2>7, <3>1 DEF Flat
      <4>3. b - 1 \in 1 .. n - 1
        BY <2>2, <3>1, <4>2
      <4>4. Level(stack', b - 1) = Level(stack, b - 1)
        BY <2>2, <4>3 DEF Keeps
      <4>5. QED BY <2>5, <4>1, <4>2, <4>4
    <3>2. CASE Again(b)
      <4>1. stack # <<>> /\ b = n /\ Top.t = "modules" /\ q = Top.inst
        BY <2>7, <3>2 DEF Again
      <4>2. n - 1 \in 1 .. n - 1
        BY <2>2, <2>4, <4>1
      <4>3. Level(stack', b - 1) = Level(stack, n - 1)
        BY <2>2, <4>1, <4>2 DEF Keeps
      <4>4. QED BY <2>4, <2>5, <4>1, <4>3
    <3>3. CASE Anew(b)
      <4>1. /\ q = L /\ Adds(0) /\ b > 1 /\ OwnWalk(Level(stack', b - 1), L)
        BY <2>7, <3>3 DEF Anew, OwnWalk, Constructing
      <4>2. record'[L].parent = 0
        BY <4>1, NewIsTopLevel
      <4>3. L \notin isInitialized
        BY <2>3
      <4>4. QED BY <4>1, <4>2, <4>3
    <3>4. QED BY <2>2, <3>1, <3>2, <3>3
  <2>8. QED BY <2>1, <2>6, <2>7 DEF Flat, TopLevel
<1>7. QED BY <1>1, <1>3, <1>4, <1>5, <1>6

(* What the loops of the two hooks put on the stack in their place. *)
Succeeds(f) ==
  LET h == Top.hook
      i == Top.inst
  IN \/ Top.t = "startIfStarted" /\ f = Walk("start", i, 0)
     \/ Top.t = "walk" /\ (f = RunHook(h, i) \/ f = Walk(h, i, i))
     \/ Top.t = "walk" /\ \E j \in modules[i] : f = RunHook(h, j) \/ f = Walk(h, i, j)
     \/ Top.t = "hook" /\ (f = User(h, i) \/ f = RunHookModules(h, i, 1))
     \/ Top.t = "hookModules" /\ f = RunHookModules(h, i, Top.n + 1)
     \/ Top.t = "hookModules" /\ \E j \in Entries(i) : f = User(h, j)
     \/ /\ Top.t = "forEach" /\ Top.hook = "start"
        /\ \E j \in Top.insts : f = RunHook(h, j) \/ f = ForEach(h, Top.insts \ {j})

Looping == stack # <<>> /\ Top.t \in {"startIfStarted", "walk", "hook", "hookModules", "forEach"}

LEMMA HookModulesActs ==
  ASSUME [Next]_vars, stack # <<>>, Top.t = "hookModules", ~(Wait \/ UNCHANGED vars)
  PROVE  HookModulesNext
<1>1. \A op : ~Calls(op)
  BY DEF Calls, At
<1>2. ~Call
  BY <1>1
  DEF Call, InitializeProfile, Start, Tick, Reset, Dispose, Register, Unregister
<1>3. Advance
  BY <1>2 DEF Next
<1>4. QED
  BY <1>3
  DEF Advance, ProfileNext, ProfileDone, ModulesNext, ModulesDone, WalkNext,
      StartIfStartedNext, HookNext, ForEachNext, DisposeAllNext, DisposeNext,
      DisposeModulesNext, DestroyNext, ConstructReturns, InitializeReturns, StartReturns,
      CallbackReturns, DestroyReturns, UserThrows, Returns, At

(* At most two frames in place of the head. *)
LEMMA InPlace ==
  ASSUME TypeInv, stack # <<>>, NEW f, NEW g, Succeeds(f), Succeeds(g),
         \/ stack' = <<f, g>> \o Rest \/ stack' = <<f>> \o (<<g>> \o Rest)
         \/ stack' = <<f>> \o Rest
  PROVE  /\ Len(stack') \in Nat /\ Len(stack) - 1 <= Len(stack')
         /\ Keeps(Len(stack) - 1)
         /\ \A c \in Len(stack) .. Len(stack') : Succeeds(Level(stack', c))
<1> DEFINE n == Len(stack)
           two == <<f, g>> \o Rest
           one == <<f>> \o Rest
<1>1. /\ n \in Nat \ {0} /\ Len(Rest) = n - 1
      /\ \A b \in 1 .. n - 1 : Level(Rest, b) = Level(stack, b)
  BY LevelPop
<1>2. /\ <<f>> \o (<<g>> \o Rest) = two
      /\ Len(two) = Len(Rest) + 2 /\ Level(two, Len(Rest) + 1) = g
      /\ Level(two, Len(Rest) + 2) = f
      /\ \A b \in 1 .. Len(Rest) : Level(two, b) = Level(Rest, b)
  BY CallOnTop
<1>3. /\ Len(one) = Len(Rest) + 1 /\ Level(one, Len(Rest) + 1) = f
      /\ \A b \in 1 .. Len(Rest) : Level(one, b) = Level(Rest, b)
  BY CallAlone
<1> HIDE DEF two, one
<1>4. CASE stack' = two
  <2>1. Len(Rest) + 1 = n /\ Len(Rest) + 2 = n + 1 /\ Len(stack') = n + 1
    BY <1>1, <1>2, <1>4
  <2>2. \A c \in n .. Len(stack') : c = n \/ c = n + 1
    BY <1>1, <2>1
  <2>3. Level(stack', n) = g /\ Level(stack', n + 1) = f
    BY <1>2, <1>4, <2>1
  <2>4. Keeps(n - 1)
    BY <1>1, <1>2, <1>4 DEF Keeps
  <2>5. QED BY <1>1, <2>1, <2>2, <2>3, <2>4
<1>5. CASE stack' = one
  <2>1. Len(Rest) + 1 = n /\ Len(stack') = n
    BY <1>1, <1>3, <1>5
  <2>2. \A c \in n .. Len(stack') : c = n
    BY <1>1, <2>1
  <2>3. Level(stack', n) = f
    BY <1>3, <1>5, <2>1
  <2>4. Keeps(n - 1)
    BY <1>1, <1>3, <1>5 DEF Keeps
  <2>5. QED BY <1>1, <2>1, <2>2, <2>3, <2>4
<1>6. QED BY <1>2, <1>4, <1>5 DEF two, one

LEMMA LoopingSucceeds ==
  ASSUME TypeInv, [Next]_vars, ~(Wait \/ UNCHANGED vars), Looping,
         Top.t = "forEach" => Top.hook = "start"
  PROVE  /\ Len(stack') \in Nat /\ Len(stack) - 1 <= Len(stack')
         /\ Keeps(Len(stack) - 1)
         /\ \A c \in Len(stack) .. Len(stack') : Succeeds(Level(stack', c))
<1> DEFINE h == Top.hook
           i == Top.inst
<1>1. \/ stack' = Rest
      \/ \E f, g :
           /\ Succeeds(f) /\ Succeeds(g)
           /\ \/ stack' = <<f, g>> \o Rest \/ stack' = <<f>> \o (<<g>> \o Rest)
              \/ stack' = <<f>> \o Rest
  <2>1. CASE Top.t = "startIfStarted"
    <3>1. StartIfStartedNext
      BY <2>1, OwingActs DEF Looping
    <3>2. Succeeds(Walk("start", i, 0))
      BY <2>1 DEF Succeeds
    <3>3. QED BY <3>1, <3>2 DEF StartIfStartedNext
  <2>2. CASE Top.t = "walk"
    <3>1. WalkNext
      BY <2>2, OwingActs DEF Looping
    <3>2. /\ Succeeds(RunHook(h, i)) /\ Succeeds(Walk(h, i, i))
          /\ \A j \in modules[i] : Succeeds(RunHook(h, j)) /\ Succeeds(Walk(h, i, j))
      BY <2>2 DEF Succeeds
    <3>3. \/ stack' = <<RunHook(h, i), Walk(h, i, i)>> \o Rest
          \/ \E j \in modules[i] : stack' = <<RunHook(h, j), Walk(h, i, j)>> \o Rest
          \/ stack' = Rest
      BY <3>1 DEF WalkNext
    <3>4. QED BY <3>2, <3>3, Zenon
  <2>3. CASE Top.t = "hook"
    <3>1. HookNext
      BY <2>3, OwingActs DEF Looping
    <3>2. Succeeds(User(h, i)) /\ Succeeds(RunHookModules(h, i, 1))
      BY <2>3 DEF Succeeds
    <3>3. QED BY <3>1, <3>2 DEF HookNext
  <2>4. CASE Top.t = "hookModules"
    <3>1. HookModulesNext
      BY <2>4, HookModulesActs DEF Looping
    <3>2. /\ Succeeds(RunHookModules(h, i, Top.n + 1))
          /\ \A j \in Entries(i) : Succeeds(User(h, j))
      BY <2>4 DEF Succeeds
    <3>3. Top.n <= Len(serviceModules[i]) => serviceModules[i][Top.n] \in Entries(i)
      <4>1. Top.n \in Nat \ {0} /\ i \in Inst
        BY <2>4, TopFields DEF Looping
      <4>2. Len(serviceModules[i]) \in Nat
        BY <4>1 DEF TypeInv, TypeOK
      <4>3. QED BY <4>1, <4>2 DEF Entries
    <3>4. \/ stack' = <<RunHookModules(h, i, Top.n + 1)>> \o Rest
          \/ \E j \in Entries(i) :
               stack' = <<User(h, j)>> \o (<<RunHookModules(h, i, Top.n + 1)>> \o Rest)
          \/ stack' = Rest
      BY <3>1, <3>3 DEF HookModulesNext
    <3>5. QED BY <3>2, <3>4, Zenon
  <2>5. CASE Top.t = "forEach"
    <3>1. ForEachNext /\ h = "start"
      BY <2>5, OwingActs DEF Looping
    <3>2. \A j \in Top.insts : Succeeds(RunHook(h, j)) /\ Succeeds(ForEach(h, Top.insts \ {j}))
      BY <2>5, <3>1 DEF Succeeds
    <3>3. \/ \E j \in Top.insts : stack' = <<RunHook(h, j), ForEach(h, Top.insts \ {j})>> \o Rest
          \/ Top.insts = {} /\ stack' = Rest
      BY <3>1 DEF ForEachNext
    <3>4. QED BY <3>2, <3>3, Zenon
  <2>6. QED BY <2>1, <2>2, <2>3, <2>4, <2>5 DEF Looping
<1>2. CASE stack' = Rest
  <2>1. /\ Len(stack) \in Nat \ {0} /\ Len(Rest) = Len(stack) - 1
        /\ \A b \in 1 .. Len(Rest) : Level(Rest, b) = Level(stack, b)
    BY LevelPop DEF Looping
  <2>2. \A c \in Len(stack) .. Len(stack') : FALSE
    BY <1>2, <2>1
  <2>3. QED BY <1>2, <2>1, <2>2 DEF Keeps
<1>3. QED BY <1>1, <1>2, InPlace DEF Looping

(* The type of the frames after a step. *)
LEMMA LevelTypeNext ==
  ASSUME TypeInv', NEW b \in 1 .. Len(stack')
  PROVE  Level(stack', b) \in Frames(Len(record'))
<1>1. stack' \in Seq(Frames(Len(record')))
  BY DEF TypeInv, Bounded, Frames, Frame, Hook, Looped
<1>2. Len(stack') + 1 - b \in 1 .. Len(stack')
  BY <1>1, LenProperties
<1>3. QED BY <1>1, <1>2, ElementOfSeq DEF Level

LEMMA LinkedBy ==
  ASSUME TypeInv, Linked, NEW m \in Nat, m = Len(stack) \/ m = Len(stack) - 1,
         Keeps(m), m <= Len(stack'), Len(stack') \in Nat,
         \A c \in m + 1 .. Len(stack') :
           \/ Activating(Level(stack', c)) \/ Initializes(Level(stack', c))
           \/ /\ stack # <<>> => ~Activating(Top)
              /\ m = Len(stack) - 1 => ~Initializes(Top)
              /\ \A b \in m + 1 .. c : ~Activating(Level(stack', b))
  PROVE  Linked'
<1> DEFINE n == Len(stack)
<1>1. n \in Nat /\ m <= n
  BY LenProperties DEF TypeInv, TypeOK
<1>2. ASSUME NEW b \in 1 .. Len(stack'), NEW c \in 1 .. Len(stack'), b <= c,
             Activating(Level(stack', b)), ~Activating(Level(stack', c))
      PROVE  \E d \in b .. c : Initializes(Level(stack', d))
  <2>1. CASE c <= m
    <3>1. /\ b \in 1 .. m /\ c \in 1 .. m /\ b \in 1 .. n /\ c \in 1 .. n
          /\ \A d \in b .. c : d \in 1 .. m
      BY <1>1, <1>2, <2>1
    <3>2. Activating(Level(stack, b)) /\ ~Activating(Level(stack, c))
      BY <1>2, <3>1 DEF Keeps
    <3>3. PICK d \in b .. c : Initializes(Level(stack, d))
      BY <1>2, <3>1, <3>2 DEF Linked
    <3>4. QED BY <3>1, <3>3 DEF Keeps
  <2>2. CASE c > m /\ Initializes(Level(stack', c))
    <3>1. c \in b .. c
      BY <1>2
    <3>2. QED BY <2>2, <3>1
  <2>3. CASE c > m /\ ~Initializes(Level(stack', c))
    <3>1. c \in m + 1 .. Len(stack')
      BY <1>1, <2>3
    <3>2. /\ stack # <<>> => ~Activating(Top)
          /\ m = Len(stack) - 1 => ~Initializes(Top)
          /\ \A a \in m + 1 .. c : ~Activating(Level(stack', a))
      BY <1>2, <2>3, <3>1
    <3>3. b <= m
      <4>1. b \notin m + 1 .. c
        BY <1>2, <3>2
      <4>2. QED BY <1>1, <1>2, <4>1
    <3>4. /\ b \in 1 .. m /\ b \in 1 .. n /\ n \in 1 .. n /\ b <= n
          /\ \A d \in b .. n : d # n => d \in b .. c /\ d \in 1 .. m
          /\ \A d \in b .. n : m = n => d \in b .. c /\ d \in 1 .. m
      BY <1>1, <2>3, <3>3
    <3>5. stack # <<>> /\ Level(stack, n) = Top
      <4>1. stack # <<>>
        BY <3>4
      <4>2. QED BY <4>1, LevelPop
    <3>6. Activating(Level(stack, b)) /\ ~Activating(Level(stack, n))
      BY <1>2, <3>2, <3>4, <3>5 DEF Keeps
    <3>7. PICK d \in b .. n : Initializes(Level(stack, d))
      BY <3>4, <3>6 DEF Linked
    <3>8. d \in b .. c /\ d \in 1 .. m
      BY <3>2, <3>4, <3>5, <3>7
    <3>9. QED BY <3>7, <3>8 DEF Keeps
  <2>4. QED BY <1>1, <2>1, <2>2, <2>3
<1>3. QED BY <1>2 DEF Linked

LEMMA LinkedStep ==
  ASSUME ConstructorsDoNotReenter, TypeInv, TypeInv', NamesInv, OwnModules, Making, Linked,
         [Next]_vars, ~failed'
  PROVE  Linked'
<1> DEFINE n == Len(stack)
<1>1. CASE Wait \/ UNCHANGED vars
  <2>1. UNCHANGED stack
    BY <1>1
    DEF Wait, ResolveAsync, ResolveTimeout, WaitUntilInitialized, InitializationTimeout, vars
  <2>2. QED BY <2>1 DEF Linked
<1>2. CASE ConstructReturns \/ ModulesDone
  <2>1. stack # <<>> /\ stack' = Rest
    BY <1>2 DEF ConstructReturns, ModulesDone, Returns, At
  <2>2. /\ n \in Nat \ {0} /\ Len(stack') = n - 1 /\ Keeps(n - 1)
    BY <2>1, LevelPop DEF Keeps
  <2>3. \A c \in (n - 1) + 1 .. Len(stack') : FALSE
    BY <2>2
  <2>4. n - 1 \in Nat /\ n - 1 <= Len(stack') /\ Len(stack') \in Nat
    BY <2>2
  <2>5. QED BY <2>2, <2>3, <2>4, LinkedBy
<1>3. CASE Constructs
  <2>1. CASE Skips
    <3>1. /\ stack # <<>> /\ Len(stack') = n /\ Keeps(n - 1) /\ n \in Nat \ {0}
          /\ Level(stack', n).t = Top.t
          /\ Top.t \in {"profile", "modules"}
      BY <2>1, LevelPop DEF Skips
    <3>2. ASSUME NEW c \in (n - 1) + 1 .. Len(stack')
          PROVE  \/ Activating(Level(stack', c))
                 \/ /\ ~Activating(Top) /\ ~Initializes(Top)
                    /\ \A b \in (n - 1) + 1 .. c : ~Activating(Level(stack', b))
      <4>1. c = n /\ \A b \in (n - 1) + 1 .. c : b = n
        BY <3>1
      <4>2. QED BY <3>1, <4>1 DEF Activating, Initializes, Constructing
    <3>3. n - 1 \in Nat /\ n - 1 <= Len(stack') /\ Len(stack') \in Nat
      BY <3>1
    <3>4. QED BY <3>1, <3>2, <3>3, LinkedBy
  <2>2. CASE ProfileCreates
    <3>1. /\ stack # <<>> /\ Top.t = "profile" /\ Keeps(n - 1) /\ n \in Nat \ {0}
          /\ Level(stack', n).t = "profile" /\ Begins(n) /\ Len(stack') = n + 3
      BY <2>2, LevelPop DEF ProfileCreates, Begins
    <3>2. /\ Activating(Level(stack', n + 1)) /\ Activating(Level(stack', n + 2))
          /\ Activating(Level(stack', n + 3))
      BY <3>1 DEF Begins, Activating, Constructing, Walk, User, About
    <3>3. ASSUME NEW c \in (n - 1) + 1 .. Len(stack')
          PROVE  \/ Activating(Level(stack', c))
                 \/ /\ ~Activating(Top) /\ ~Initializes(Top)
                    /\ \A b \in (n - 1) + 1 .. c : ~Activating(Level(stack', b))
      <4>1. CASE c = n
        <5>1. \A b \in (n - 1) + 1 .. c : b = n
          BY <3>1, <4>1
        <5>2. QED BY <3>1, <5>1 DEF Activating, Initializes, Constructing
      <4>2. CASE c # n
        <5>1. c \in {n + 1, n + 2, n + 3}
          BY <3>1, <4>2
        <5>2. QED BY <3>2, <5>1
      <4>3. QED BY <4>1, <4>2
    <3>4. n - 1 \in Nat /\ n - 1 <= Len(stack') /\ Len(stack') \in Nat
      BY <3>1
    <3>5. QED BY <3>1, <3>3, <3>4, LinkedBy
  <2>3. CASE RegisterCreates
    <3>1. /\ Keeps(n) /\ n \in Nat /\ Begins(n + 1) /\ Len(stack') = n + 4
          /\ Level(stack', n + 1).t = "startIfStarted"
      BY <2>3, LenProperties
      DEF RegisterCreates, Begins, StartIfStarted, About, TypeInv, TypeOK
    <3>2. /\ Activating(Level(stack', n + 2)) /\ Activating(Level(stack', n + 3))
          /\ Activating(Level(stack', n + 4))
      <4>1. n + 1 + 1 = n + 2 /\ n + 1 + 2 = n + 3 /\ n + 1 + 3 = n + 4
        BY <3>1
      <4>2. QED BY <3>1, <4>1 DEF Begins, Activating, Constructing, Walk, User, About
    <3>3. stack # <<>> => ~Activating(Top)
      BY <2>3
      DEF RegisterCreates, Calls, At, Activating, Constructing, ConstructorsDoNotReenter,
          Operation
    <3>4. ASSUME NEW c \in n + 1 .. Len(stack')
          PROVE  \/ Activating(Level(stack', c))
                 \/ \A b \in n + 1 .. c : ~Activating(Level(stack', b))
      <4>1. CASE c = n + 1
        <5>1. \A b \in n + 1 .. c : b = n + 1
          BY <3>1, <4>1
        <5>2. QED BY <3>1, <5>1 DEF Activating, Constructing
      <4>2. CASE c # n + 1
        <5>1. c \in {n + 2, n + 3, n + 4}
          BY <3>1, <4>2
        <5>2. QED BY <3>2, <5>1
      <4>3. QED BY <4>1, <4>2
    <3>5. n <= Len(stack') /\ Len(stack') \in Nat /\ n # n - 1
      BY <3>1
    <3>6. QED BY <3>1, <3>3, <3>4, <3>5, LinkedBy
  <2>4. CASE ModulesCreate
    <3>1. /\ Len(stack') = n + 1 /\ Keeps(n - 1) /\ n \in Nat \ {0}
          /\ Activating(Level(stack', n)) /\ Activating(Level(stack', n + 1))
      BY <2>4, LevelPop DEF ModulesCreate, Activating, Constructing, User, About
    <3>2. \A c \in (n - 1) + 1 .. Len(stack') : c = n \/ c = n + 1
      BY <3>1
    <3>3. n - 1 \in Nat /\ n - 1 <= Len(stack') /\ Len(stack') \in Nat
      BY <3>1
    <3>4. QED BY <3>1, <3>2, <3>3, LinkedBy
  <2>5. QED BY <1>3, <2>1, <2>2, <2>3, <2>4, ConstructsLevels
<1>4. CASE ~(Wait \/ UNCHANGED vars) /\ ~Constructs /\ ~ConstructReturns /\ ~ModulesDone
  <2>1. Unmaking /\ Unmaking' /\ Runs /\ UNCHANGED record
    BY <1>4, UnmakingStep
  <2>2. ASSUME stack # <<>>
        PROVE  n \in 1 .. n /\ Level(stack, n) = Top /\ Top.t # "modules" /\ ~Constructing(Top)
    BY <2>1, <2>2, LevelPop DEF Unmaking
  <2>3. CASE stack # <<>> /\ Activating(Top)
    <3>1. Top.t \in {"walk", "hook", "hookModules"} /\ Top.hook = "initialize"
      BY <2>2, <2>3 DEF Activating
    <3>2. /\ Len(stack') \in Nat /\ n - 1 <= Len(stack') /\ Keeps(n - 1)
          /\ \A c \in n .. Len(stack') : Succeeds(Level(stack', c))
      BY <1>4, <2>3, <3>1, LoopingSucceeds DEF Looping
    <3>3. \A f : Succeeds(f) => Activating(f) \/ Initializes(f)
      BY <3>1
      DEF Succeeds, Activating, Initializes, Constructing, RunHook, Walk, RunHookModules, User,
          About
    <3>4. n - 1 \in Nat /\ (n - 1) + 1 = n
      BY <2>2, <2>3
    <3>5. QED BY <3>2, <3>3, <3>4, LinkedBy
  <2>4. CASE stack # <<>> => ~Activating(Top)
    <3>1. PICK m :
            /\ Arises(m)
            /\ \/ m = n
               \/ stack # <<>> /\ m = n - 1 /\ (Top.t = "user" => UserReturns)
      BY <2>1 DEF Runs
    <3>2. /\ n \in Nat /\ m \in Nat /\ m <= n /\ m <= Len(stack') /\ Len(stack') \in Nat
          /\ Keeps(m)
      BY <3>1, LenProperties DEF Arises, TypeInv, TypeOK, Keeps
    <3>3. ASSUME NEW c \in m + 1 .. Len(stack')
          PROVE  ~Activating(Level(stack', c))
      <4> DEFINE f == Level(stack', c)
      <4>1. SUFFICES ASSUME Activating(f) PROVE FALSE
        OBVIOUS
      <4>2. c \in 1 .. Len(stack') /\ Fresh(f)
        BY <3>1, <3>2 DEF Arises
      <4>3. f.t \in {"walk", "hook", "hookModules"} /\ f.hook = "initialize"
        BY <2>1, <4>1, <4>2 DEF Activating, Unmaking, Constructing
      <4>4. f.inst \in 1 .. Len(record) /\ Len(record) \in Nat
        <5>1. f \in Frames(Len(record))
          BY <2>1, <4>2, LevelTypeNext
        <5>2. QED BY <4>3, <5>1 DEF Frames, TypeInv, TypeOK
      <4>5. Descends(f, "initialize")
        BY <4>2, <4>3 DEF Fresh, MayCall, Counted
      <4>6. stack # <<>> /\ MayCall(Top, "initialize") /\ Top.t # "user"
        BY <4>4, <4>5 DEF Descends
      <4>7. Top.t # "forEach"
        BY <4>6, TopFields DEF MayCall, Looped
      <4>8. QED BY <2>4, <4>6, <4>7 DEF MayCall, Activating
    <3>4. ASSUME NEW c \in m + 1 .. Len(stack'), m = n - 1
          PROVE  ~Initializes(Top)
      <4>1. SUFFICES ASSUME Initializes(Top) PROVE FALSE
        OBVIOUS
      <4>2. stack # <<>> /\ UserReturns
        BY <3>1, <3>2, <3>4, <4>1 DEF Initializes
      <4>3. stack' = Rest
        BY <4>2 DEF UserReturns, ConstructReturns, InitializeReturns, StartReturns,
                    CallbackReturns, DestroyReturns, Returns
      <4>4. Len(stack') = n - 1
        BY <4>2, <4>3, LevelPop
      <4>5. QED BY <3>2, <3>4, <4>4
    <3>5. \A c \in m + 1 .. Len(stack') : \A b \in m + 1 .. c : b \in m + 1 .. Len(stack')
      BY <3>2
    <3>6. m = n \/ m = n - 1
      BY <3>1
    <3>7. QED BY <2>4, <3>2, <3>3, <3>4, <3>5, <3>6, LinkedBy
  <2>5. QED BY <2>3, <2>4
<1>5. QED BY <1>1, <1>2, <1>3, <1>4

(* The lists of modules grow only where modules are made. *)
LEMMA ListsShrink ==
  ASSUME TypeInv, OwnModules, Ordered, [Next]_vars, ~Constructs, ~ModulesDone, NEW p \in Inst
  PROVE  Entries(p)' \subseteq Entries(p) /\ modules'[p] \subseteq modules[p]
<1>1. ASSUME UNCHANGED <<serviceModules, modules>>
      PROVE  Entries(p)' \subseteq Entries(p) /\ modules'[p] \subseteq modules[p]
  BY <1>1 DEF Entries
<1>2. CASE DestroyReturns
  <2> DEFINE o == record[Top.inst].parent
             s == serviceModules[p]
  <2>1. PICK g : g = Top.inst
    OBVIOUS
  <2>2. /\ serviceModules' = IF o = 0 THEN serviceModules
                             ELSE [serviceModules EXCEPT ![o] = Without(@, g)]
        /\ modules' = [modules EXCEPT ![g] = {}]
    BY <1>2, <2>1 DEF DestroyReturns
  <2> HIDE DEF o
  <2>3. modules'[p] \subseteq modules[p]
    BY <2>2 DEF TypeInv, TypeOK
  <2>4. CASE o = p
    <3> DEFINE w == Without(s, g)
    <3>1. serviceModules'[p] = w
      BY <2>2, <2>4 DEF TypeInv, TypeOK, Inst
    <3>2. \A k \in 1 .. Len(w) : \E l \in 1 .. Len(s) : s[l] = w[k]
      <4>1. s \in Seq(Nat) /\ Increasing(s)
        BY EntriesType DEF Ordered
      <4> HIDE DEF s
      <4>2. QED BY <4>1, WithoutIncreases
    <3> HIDE DEF w
    <3>3. Entries(p)' = {w[k] : k \in 1 .. Len(w)}
      BY <3>1 DEF Entries
    <3>4. Entries(p) = {s[k] : k \in 1 .. Len(s)}
      BY DEF Entries
    <3> HIDE DEF s
    <3>5. QED BY <2>3, <3>2, <3>3, <3>4
  <2>5. CASE o # p
    <3>1. serviceModules'[p] = s
      BY <2>2, <2>5 DEF TypeInv, TypeOK
    <3>2. Entries(p)' = Entries(p)
      BY <3>1 DEF Entries
    <3>3. QED BY <2>3, <3>2
  <2>6. QED BY <2>4, <2>5
<1>3. CASE ConstructReturns
  BY <1>1, <1>3 DEF ConstructReturns
<1>4. CASE ~ConstructReturns /\ ~DestroyReturns
  BY <1>1, <1>4, RegistryKept DEF registryVars
<1>5. QED BY <1>2, <1>3, <1>4

(* Modules have none. *)
LEMMA ModulesHaveNone ==
  ASSUME TypeInv, OwnModules, Flat, NEW p \in Inst, NEW j \in OwnOf(p)
  PROVE  j \in Inst /\ Entries(j) = {}
<1>1. j \in Created /\ record[j].parent # 0
  BY DEF OwnOf, Inst
<1>2. j \in Inst
  BY <1>1, EntriesType
<1>3. ASSUME NEW x \in Entries(j) PROVE FALSE
  <2>1. x \in Created /\ record[x].parent = j /\ j # 0
    BY <1>2, <1>3, EntriesType DEF OwnOf, Inst
  <2>2. ~TopLevel(x) /\ ~TopLevel(j)
    BY <1>1, <2>1 DEF TopLevel
  <2>3. QED BY <2>1, <2>2 DEF Flat
<1>4. QED BY <1>2, <1>3

(* A frame starts no more after a step, unless modules are made for one     *)
(* that it starts.                                                         *)
LEMMA StartsKept ==
  ASSUME TypeInv, NEW f, f \in Frames(Len(record)),
         \A j \in Inst : Starts(f, j) => j \in isInitialized,
         \A p \in Inst \cap isInitialized :
           Entries(p)' \subseteq Entries(p) /\ modules'[p] \subseteq modules[p],
         NEW i \in Inst, Starts(f, i)'
  PROVE  i \in isInitialized
<1>1. Created \subseteq Inst
  BY BoundAssumption DEF TypeInv, TypeOK, Created, Inst
<1>2. /\ f.hook = "start"
      /\ \/ f.t \in {"walk", "hook", "hookModules", "user"} /\ i = f.inst
         \/ f.t \in {"walk", "hook", "hookModules"} /\ i \in Entries(f.inst)'
         \/ f.t = "walk" /\ i \in modules'[f.inst]
         \/ f.t = "forEach" /\ \E j \in f.insts : i \in {j} \/ i \in Entries(j)'
  BY DEF Starts
<1>3. CASE f.t \in {"walk", "hook", "hookModules", "user"} /\ i = f.inst
  BY <1>2, <1>3 DEF Starts
<1>4. CASE /\ f.t \in {"walk", "hook", "hookModules"}
           /\ i \in Entries(f.inst)' \/ i \in modules'[f.inst]
  <2>1. f.inst \in Inst
    BY <1>1, <1>4 DEF Frames, Created
  <2>2. PICK q : q = f.inst
    OBVIOUS
  <2>3. q \in Inst \cap isInitialized
    BY <1>2, <1>4, <2>1, <2>2 DEF Starts
  <2>4. Entries(q)' \subseteq Entries(q) /\ modules'[q] \subseteq modules[q]
    BY <2>3
  <2>5. CASE i \in Entries(f.inst)'
    <3>1. i \in Entries(q)'
      BY <2>2, <2>5
    <3>2. i \in Entries(f.inst)
      BY <2>2, <2>4, <3>1
    <3>3. QED BY <1>2, <1>4, <3>2 DEF Starts
  <2>6. CASE i \in modules'[f.inst] /\ f.t = "walk"
    BY <1>2, <2>2, <2>4, <2>6 DEF Starts
  <2>7. QED BY <1>2, <1>3, <1>4, <2>5, <2>6
<1>5. CASE f.t = "forEach" /\ \E j \in f.insts : i \in {j} \/ i \in Entries(j)'
  <2>1. PICK j \in f.insts : i \in {j} \/ i \in Entries(j)'
    BY <1>5
  <2>2. j \in Inst
    BY <1>1, <2>1 DEF Frames, Created
  <2>3. j \in isInitialized
    BY <1>2, <1>5, <2>1, <2>2 DEF Starts
  <2>4. i \in {j} \cup Entries(j)
    BY <2>1, <2>2, <2>3
  <2>5. QED BY <1>2, <1>5, <2>1, <2>4 DEF Starts
<1>6. QED BY <1>2, <1>3, <1>4, <1>5

(* What the loops of start() go on with, they had before. *)
LEMMA StartsSucceed ==
  ASSUME TypeInv, OwnModules, Flat, Begun, Awaited, Looping, NEW f, Succeeds(f),
         NEW i \in Inst, Starts(f, i)
  PROVE  i \in isInitialized
<1> DEFINE n == Len(stack)
           s == Top.inst
<1>1. n \in 1 .. n /\ Level(stack, n) = Top /\ n \in Nat
  BY LevelPop DEF Looping
<1>2. Starts(Top, i) => i \in isInitialized
  BY <1>1 DEF Begun
<1>3. f.hook = "start"
  BY DEF Starts
<1>4. CASE Top.t = "startIfStarted"
  <2>1. i \in {s} \cup Entries(s) \cup modules[s]
    BY <1>4 DEF Succeeds, Starts, Walk, About
  <2>2. WillStart(Top, i)
    BY <1>4, <2>1 DEF WillStart
  <2>3. i \in isInitialized \/ OwedFrom(stack, n + 1, "initialize", i, record[i].parent)
    BY <1>1, <1>4, <2>2 DEF Awaited
  <2>4. \A c \in n + 1 .. n : FALSE
    BY <1>1
  <2>5. QED BY <2>3, <2>4 DEF OwedFrom
<1>5. CASE Top.t = "walk"
  <2>1. Top.hook = "start" /\ s \in Inst
    BY <1>3, <1>5, TopFields DEF Succeeds, RunHook, Walk, About, Looping
  <2>2. CASE f = RunHook("start", s) \/ \E k : f = Walk("start", s, k)
    <3>1. i \in {s} \cup Entries(s) \cup modules[s]
      BY <2>2 DEF Starts, RunHook, Walk, About
    <3>2. Starts(Top, i)
      BY <1>5, <2>1, <3>1 DEF Starts
    <3>3. QED BY <1>2, <3>2
  <2>3. CASE \E j \in modules[s] : f = RunHook("start", j)
    <3>1. PICK j \in modules[s] : f = RunHook("start", j)
      BY <2>3
    <3>2. i \in {j} \cup Entries(j)
      BY <3>1 DEF Starts, RunHook, About
    <3>3. Entries(j) = {}
      BY <2>1, <3>1, ModulesHaveNone DEF OwnModules
    <3>4. Starts(Top, i)
      BY <1>5, <2>1, <3>1, <3>2, <3>3 DEF Starts
    <3>5. QED BY <1>2, <3>4
  <2>4. QED BY <1>5, <2>1, <2>2, <2>3 DEF Succeeds
<1>6. CASE Top.t = "hook"
  <2>1. Top.hook = "start" /\ i \in {s} \cup Entries(s)
    BY <1>3, <1>6 DEF Succeeds, Starts, RunHookModules, User, About
  <2>2. QED BY <1>2, <1>6, <2>1 DEF Starts
<1>7. CASE Top.t = "hookModules"
  <2>1. Top.hook = "start" /\ i \in {s} \cup Entries(s)
    BY <1>3, <1>7 DEF Succeeds, Starts, RunHookModules, User, About
  <2>2. QED BY <1>2, <1>7, <2>1 DEF Starts
<1>8. CASE Top.t = "forEach"
  <2>1. Top.hook = "start" /\ \E j \in Top.insts : i \in {j} \cup Entries(j)
    BY <1>3, <1>8 DEF Succeeds, Starts, RunHook, ForEach, About
  <2>2. QED BY <1>2, <1>8, <2>1 DEF Starts
<1>9. QED BY <1>4, <1>5, <1>6, <1>7, <1>8 DEF Looping

(* When start() is called and no initialize() runs, all that is registered  *)
(* is initialized, and so are the modules the instances list.              *)
LEMMA StartFindsInitialized ==
  ASSUME ConstructorsDoNotReenter, TypeInv, OwnModules, AllDue({"initialize"}), AllKnown,
         Ordered, Linked, Start, ~Initializing, NEW j \in records
  PROVE  j \in isInitialized /\ Entries(j) \subseteq isInitialized
<1> DEFINE n == Len(stack)
<1>1. stack # <<>> => Top.t = "user" /\ ~Constructing(Top)
  BY DEF Start, Calls, At, Constructing, ConstructorsDoNotReenter, Operation
<1>2. ASSUME NEW b \in 1 .. n
      PROVE  ~Activating(Level(stack, b)) /\ ~Initializes(Level(stack, b))
  <2>1. stack # <<>>
    BY LenProperties DEF TypeInv, TypeOK
  <2>2. n \in 1 .. n /\ Level(stack, n) = Top /\ b <= n /\ \A d \in b .. n : d \in 1 .. n
    BY <2>1, LevelPop
  <2>3. ~Activating(Top)
    BY <1>1, <2>1 DEF Activating
  <2>4. QED BY <2>2, <2>3 DEF Linked, Initializing
<1>3. ASSUME NEW i \in records PROVE i \in isInitialized
  <2>1. Due("initialize", i)
    BY DEF AllDue
  <2>2. ASSUME NEW b \in 1 .. n, Owes(Level(stack, b), "initialize", i, record[i].parent)
        PROVE  FALSE
    BY <1>2, <2>2 DEF Owes, Activating, Initializes
  <2>3. QED BY <2>1, <2>2 DEF Due, OwedIn, Flagged
<1>4. ASSUME NEW i \in Entries(j) PROVE i \in records
  <2>1. j \in Inst
    BY DEF TypeInv, TypeOK
  <2>2. i \in Created /\ i \notin isDestroyed
    BY <2>1, EntriesType DEF Ordered
  <2>3. QED BY <1>1, <2>2 DEF AllKnown, Known
<1>5. QED BY <1>3, <1>4

(* What the new instance lists, and its parent, while its modules are made. *)
LEMMA MakingLists ==
  ASSUME TypeInv, OwnModules, Flat, Ordered, Constructs, ~failed', NEW q \in Inst
  PROVE  /\ modules' = modules
         /\ \/ Entries(q)' = Entries(q)
            \/ /\ Entries(q)' = Entries(q) \cup {Len(record) + 1} /\ q = Top.inst
               /\ stack # <<>> /\ Top.t = "modules" /\ Adds(q) /\ q \in 0 .. Len(record)
<1>1. /\ modules' = modules
      /\ \/ UNCHANGED <<record, serviceModules>>
         \/ \E p \in 0 .. Len(record) :
              Adds(p) /\ (p # 0 => stack # <<>> /\ Top.t = "modules" /\ p = Top.inst)
  BY ConstructsAdd
<1>2. CASE UNCHANGED serviceModules
  BY <1>1, <1>2 DEF Entries
<1>3. ASSUME NEW p \in 0 .. Len(record), Adds(p),
             p # 0 => stack # <<>> /\ Top.t = "modules" /\ p = Top.inst
      PROVE  \/ Entries(q)' = Entries(q)
             \/ /\ Entries(q)' = Entries(q) \cup {Len(record) + 1} /\ q = Top.inst
                /\ stack # <<>> /\ Top.t = "modules" /\ Adds(q) /\ q \in 0 .. Len(record)
  <2>1. Increasing(serviceModules[q]) /\ q # 0
    BY DEF Ordered, Inst
  <2>2. Entries(q)' = IF q = p THEN Entries(q) \cup {Len(record) + 1} ELSE Entries(q)
    BY <1>3, <2>1, AddsEntries
  <2>3. QED BY <1>3, <2>1, <2>2
<1>4. QED BY <1>1, <1>2, <1>3

LEMMA BegunStep ==
  ASSUME ConstructorsDoNotReenter, TypeInv, TypeInv', NamesInv, OwnModules, Making,
         AllDue({"initialize"}), AllKnown, StartFrames, Flat, Ordered, Linked, Begun, Awaited,
         Start => ~Initializing,
         [Next]_vars, ~failed'
  PROVE  Begun'
<1> DEFINE n == Len(stack)
           L == Len(record) + 1
<1>1. n \in Nat /\ Len(record) \in Nat
  BY LenProperties DEF TypeInv, TypeOK
<1>2. isInitialized \subseteq isInitialized'
  BY FlagsGrow
<1>3. ASSUME NEW f, f \in Frames(Len(record)),
             \A j \in Inst : Starts(f, j) => j \in isInitialized,
             NEW i \in Inst, Starts(f, i)'
      PROVE  i \in isInitialized'
  <2>1. ASSUME NEW p \in Inst \cap isInitialized
        PROVE  Entries(p)' \subseteq Entries(p) /\ modules'[p] \subseteq modules[p]
    <3>1. (stack # <<>> /\ Top.t = "modules") => p # Top.inst
      <4> SUFFICES ASSUME stack # <<>>, Top.t = "modules" PROVE Top.inst \notin isInitialized
        OBVIOUS
      <4>1. n \in 1 .. n /\ Level(stack, n) = Top
        BY LevelPop
      <4>2. QED BY <4>1 DEF Flat
    <3>2. CASE Constructs
      BY <3>1, <3>2, MakingLists
    <3>3. CASE ModulesDone
      <4>1. PICK q : q = Top.inst
        OBVIOUS
      <4>2. /\ stack # <<>> /\ Top.t = "modules" /\ UNCHANGED serviceModules
            /\ \E own : modules' = [modules EXCEPT ![q] = own]
        BY <3>3, <4>1 DEF ModulesDone, At
      <4>3. modules'[p] = modules[p]
        BY <3>1, <4>1, <4>2 DEF TypeInv, TypeOK
      <4>4. Entries(p)' = Entries(p)
        BY <4>2 DEF Entries
      <4>5. QED BY <4>3, <4>4
    <3>4. CASE ~Constructs /\ ~ModulesDone
      BY <3>4, ListsShrink
    <3>5. QED BY <3>2, <3>3, <3>4
  <2>2. i \in isInitialized
    BY <1>3, <2>1, StartsKept
  <2>3. QED BY <1>2, <2>2
<1>4. ASSUME NEW b \in 1 .. n, NEW f, f = Level(stack, b), NEW i \in Inst, Starts(f, i)'
      PROVE  i \in isInitialized'
  <2>1. f \in Frames(Len(record)) /\ \A j \in Inst : Starts(f, j) => j \in isInitialized
    BY <1>4, LevelType DEF Begun
  <2>2. QED BY <1>3, <1>4, <2>1
<1>5. SUFFICES ASSUME NEW b \in 1 .. Len(stack'), NEW i \in Inst, NEW f, f = Level(stack', b),
                      Starts(f, i)'
               PROVE  i \in isInitialized'
  <2>1. ASSUME NEW b \in 1 .. Len(stack'), NEW i \in Inst, Starts(Level(stack, b), i)'
        PROVE  i \in isInitialized'
    <3>1. PICK f : f = Level(stack', b)
      OBVIOUS
    <3>2. Starts(f, i)'
      BY <2>1, <3>1 DEF Starts
    <3>3. QED BY <1>5, <3>1, <3>2
  <2>2. QED BY <2>1 DEF Begun
<1>6. CASE Wait \/ UNCHANGED vars
  <2>1. UNCHANGED stack
    BY <1>6
    DEF Wait, ResolveAsync, ResolveTimeout, WaitUntilInitialized, InitializationTimeout, vars
  <2>2. QED BY <1>4, <1>5, <2>1
<1>7. CASE ConstructReturns \/ ModulesDone
  <2>1. stack # <<>> /\ stack' = Rest
    BY <1>7 DEF ConstructReturns, ModulesDone, Returns, At
  <2>2. b \in 1 .. n /\ f = Level(stack, b)
    BY <1>5, <2>1, LevelPop
  <2>3. QED BY <1>4, <1>5, <2>2
<1>8. CASE Constructs
  <2>1. (b \in 1 .. n /\ Level(stack', b) = Level(stack, b)) \/ Again(b) \/ Anew(b)
    BY <1>8, ConstructsBuild
  <2>2. ~Again(b) /\ ~Anew(b)
    BY <1>5 DEF Starts, Again, Anew, OwnWalk, Constructing
  <2>3. QED BY <1>4, <1>5, <2>1, <2>2
<1>9. CASE ~(Wait \/ UNCHANGED vars) /\ ~Constructs /\ ~ConstructReturns /\ ~ModulesDone
  <2>1. Unmaking /\ Unmaking' /\ Runs /\ UNCHANGED record
    BY <1>9, UnmakingStep
  <2>2. f \in Frames(Len(record))
    BY <1>5, <2>1, LevelTypeNext
  <2>3. CASE Looping /\ (Top.t = "startIfStarted" \/ Top.hook = "start")
    <3>1. /\ Keeps(n - 1) /\ \A c \in n .. Len(stack') : Succeeds(Level(stack', c))
      BY <1>9, <2>3, LoopingSucceeds
    <3>2. CASE b <= n - 1
      <4>1. b \in 1 .. n - 1 /\ b \in 1 .. n
        BY <1>1, <3>2
      <4>2. QED BY <1>4, <1>5, <1>9, <3>1, <4>1 DEF Keeps
    <3>3. CASE ~(b <= n - 1)
      <4>1. b \in n .. Len(stack')
        BY <1>1, <3>3
      <4>2. Succeeds(f)
        BY <1>5, <3>1, <4>1
      <4>3. \A j \in Inst : Starts(f, j) => j \in isInitialized
        BY <2>3, <4>2, StartsSucceed
      <4>4. QED BY <1>3, <1>5, <1>9, <2>2, <4>3
    <3>4. QED BY <3>2, <3>3
  <2>4. CASE Start
    <3> DEFINE g == ForEach("start", records)
               S == Frame \cup {g}
    <3>1. stack' = Pushed(g, stack)
      BY <2>4 DEF Start, Pushed
    <3>2. g.t = "forEach" /\ g.insts = records
      BY DEF ForEach, About
    <3>3. g \in S /\ stack \in Seq(S)
      BY SequencesGrow DEF TypeInv, TypeOK
    <3> HIDE DEF g, S
    <3>4. /\ Len(stack') = n + 1 /\ Level(stack', n + 1) = g
          /\ \A c \in 1 .. n : Level(stack', c) = Level(stack, c)
      BY <3>1, <3>3, LevelPush
    <3>5. CASE b = n + 1
      <4>1. f = g
        BY <1>5, <3>4, <3>5
      <4>2. \A j \in Inst : Starts(f, j) => j \in isInitialized
        BY <2>4, <3>2, <4>1, StartFindsInitialized DEF Starts
      <4>3. QED BY <1>3, <1>5, <1>9, <2>2, <4>2
    <3>6. CASE b # n + 1
      <4>1. b \in 1 .. n
        BY <1>1, <3>4, <3>6
      <4>2. QED BY <1>4, <1>5, <1>9, <3>4, <4>1
    <3>7. QED BY <3>5, <3>6
  <2>5. CASE ~Start /\ ~(Looping /\ (Top.t = "startIfStarted" \/ Top.hook = "start"))
    <3>1. PICK m : Arises(m)
      BY <2>1 DEF Runs
    <3>2. m \in Nat /\ m <= n
      BY <3>1 DEF Arises
    <3>3. CASE b <= m
      <4>1. b \in 1 .. m /\ b \in 1 .. n
        BY <1>1, <3>2, <3>3
      <4>2. f = Level(stack, b)
        BY <1>5, <3>1, <4>1 DEF Arises
      <4>3. QED BY <1>4, <1>5, <1>9, <4>1, <4>2
    <3>4. CASE ~(b <= m)
      <4>1. Fresh(f)
        <5>1. b \in m + 1 .. Len(stack')
          BY <3>2, <3>4
        <5>2. QED BY <1>5, <3>1, <5>1 DEF Arises
      <4>2. Starting(f)
        BY <1>5 DEF Starts, Starting, MayCall
      <4>3. Descends(f, "start")
        BY <4>1, <4>2 DEF Fresh, Starting, Counted
      <4>4. ~(f.t # "forEach" /\ f.inst = Len(record) + 1)
        BY <1>1, <2>2, <4>2 DEF Starting, MayCall, Frames
      <4>5. started
        <5>1. CASE stack # <<>> /\ Starting(Top)
          <6>1. n \in 1 .. n /\ Level(stack, n) = Top
            BY <5>1, LevelPop
          <6>2. QED BY <5>1, <6>1 DEF StartFrames
        <5>2. CASE started'
          BY <2>5, <5>2, StartedBy
        <5>3. QED BY <4>1, <4>2, <5>1, <5>2 DEF Fresh
      <4>6. stack # <<>> /\ MayCall(Top, "start") /\ Top.t # "user"
        BY <4>3, <4>4, <4>5 DEF Descends
      <4>7. QED BY <2>5, <4>6 DEF MayCall, Looping
    <3>5. QED BY <3>3, <3>4
  <2>6. QED BY <2>3, <2>4, <2>5
<1>10. QED BY <1>6, <1>7, <1>8, <1>9

(* What a late registration will start, and what the levels above it owe. *)
Ready(s, m, i) == i \in isInitialized \/ OwedFrom(s, m, "initialize", i, record[i].parent)

(* The walk under a module loop owes the instance's modules their          *)
(* initialize().                                                           *)
LEMMA LoopOwes ==
  ASSUME TypeInv, Flat, stack # <<>>, Top.t = "modules", NEW i \in Nat, i # 0,
         NEW b \in 1 .. Len(stack), Level(stack, b).t = "startIfStarted",
         Keeps(Len(stack) - 1), Len(stack') \in Nat, Len(stack) - 1 <= Len(stack')
  PROVE  OwedFrom(stack', b + 1, "initialize", i, Top.inst)
<1> DEFINE n == Len(stack)
<1>1. n \in 1 .. n /\ n \in Nat /\ Level(stack, n) = Top
  BY LevelPop
<1>2. n > 1 /\ OwnWalk(Level(stack, n - 1), Top.inst)
  BY <1>1 DEF Flat
<1>3. b # n /\ b # n - 1
  BY <1>1, <1>2 DEF OwnWalk
<1>4. n - 1 \in b + 1 .. Len(stack') /\ n - 1 \in 1 .. n - 1
  BY <1>1, <1>2, <1>3
<1>5. Level(stack', n - 1) = Level(stack, n - 1)
  BY <1>4 DEF Keeps
<1>6. Owes(Level(stack', n - 1), "initialize", i, Top.inst)
  BY <1>2, <1>5 DEF OwnWalk, Owes
<1>7. QED BY <1>4, <1>6 DEF OwedFrom

(* What is owed above a level is owed there after making modules. *)
LEMMA OwedKept ==
  ASSUME TypeInv, Keeping(stack, stack'), NEW m \in Nat \ {0}, NEW i, NEW p,
         OwedFrom(stack, m, "initialize", i, p)
  PROVE  OwedFrom(stack', m, "initialize", i, p)
<1>1. PICK b \in m .. Len(stack) : Owes(Level(stack, b), "initialize", i, p)
  BY DEF OwedFrom
<1>2. b \in 1 .. Len(stack) /\ Len(stack) \in Nat
  BY LenProperties DEF TypeInv, TypeOK
<1>3. Level(stack, b).t \notin {"profile", "modules"} /\ ~Constructing(Level(stack, b))
  BY <1>1 DEF Owes, Constructing
<1>4. b \in 1 .. Len(stack') /\ Level(stack', b) = Level(stack, b)
  BY <1>2, <1>3 DEF Keeping
<1>5. b \in m .. Len(stack')
  BY <1>4
<1>6. QED BY <1>1, <1>4, <1>5 DEF OwedFrom

(* What the frame of a late registration will start. *)
LEMMA WillStartType ==
  ASSUME TypeInv, OwnModules, Awaited, NEW b \in 1 .. Len(stack),
         Level(stack, b).t = "startIfStarted"
  PROVE  LET s == Level(stack, b).inst
         IN /\ s \in Created /\ s \in Inst /\ record[s].parent = 0
            /\ \A i \in Entries(s) \cup modules[s] : i \in OwnOf(s)
            /\ \A i \in {s} \cup Entries(s) \cup modules[s] :
                 i \in Created /\ i \in Inst /\ Ready(stack, b + 1, i)
<1> DEFINE s == Level(stack, b).inst
<1>1. Created \subseteq Inst
  BY BoundAssumption DEF TypeInv, TypeOK, Created, Inst
<1>2. s \in Created /\ s \in Inst
  BY <1>1, LevelType DEF Frames, Created
<1>3. record[s].parent = 0
  BY DEF Awaited, TopLevel
<1>4. Entries(s) \subseteq OwnOf(s) /\ modules[s] \subseteq OwnOf(s) /\ OwnOf(s) \subseteq Created
  BY <1>2, EntriesType DEF OwnModules
<1>5. ASSUME NEW i \in {s} \cup Entries(s) \cup modules[s]
      PROVE  i \in Created /\ i \in Inst /\ Ready(stack, b + 1, i)
  <2>1. i \in Created /\ i \in Inst
    BY <1>1, <1>2, <1>4
  <2>2. WillStart(Level(stack, b), i)
    BY DEF WillStart
  <2>3. QED BY <2>1, <2>2 DEF Awaited, Ready
<1>6. QED BY <1>2, <1>3, <1>4, <1>5

(* One late registration, while modules are made. *)
LEMMA AwaitedMaking ==
  ASSUME TypeInv, TypeInv', OwnModules, Flat, Ordered, Awaited, [Next]_vars, ~failed',
         Constructs \/ ConstructReturns \/ ModulesDone,
         NEW b \in 1 .. Len(stack), Level(stack, b).t = "startIfStarted",
         NEW s, s = Level(stack, b).inst, NEW i, i \in {s} \cup Entries(s)' \cup modules'[s]
  PROVE  Ready(stack, b + 1, i)'
<1> DEFINE n == Len(stack)
           L == Len(record) + 1
<1>1. /\ s \in Created /\ s \in Inst
      /\ \A j \in Entries(s) \cup modules[s] : j \in OwnOf(s)
      /\ \A j \in {s} \cup Entries(s) \cup modules[s] :
           j \in Created /\ j \in Inst /\ Ready(stack, b + 1, j)
  BY WillStartType
<1>2. /\ \A j \in Created : record'[j] = record[j]
      /\ isInitialized \subseteq isInitialized' /\ Len(record) \in Nat /\ n \in Nat
  BY RecordsStay, FlagsGrow, LenProperties DEF TypeInv, TypeOK
<1>3. Keeping(stack, stack')
  BY MakingKeeps
<1>4. CASE i \in {s} \cup Entries(s) \cup modules[s]
  <2>1. PICK p : p = record[i].parent
    OBVIOUS
  <2>2. i \in isInitialized \/ OwedFrom(stack, b + 1, "initialize", i, p)
    BY <1>1, <1>4, <2>1 DEF Ready
  <2>3. b + 1 \in Nat \ {0}
    BY <1>2
  <2>4. i \in isInitialized \/ OwedFrom(stack', b + 1, "initialize", i, p)
    BY <1>3, <2>2, <2>3, OwedKept
  <2>5. record'[i].parent = p
    BY <1>1, <1>2, <1>4, <2>1
  <2>6. QED BY <1>2, <2>4, <2>5 DEF Ready
<1>5. ASSUME stack # <<>>, Top.t = "modules", s = Top.inst, i \in Nat, i # 0,
             record'[i].parent = s, Keeps(n - 1), Len(stack') \in Nat, n - 1 <= Len(stack')
      PROVE  Ready(stack, b + 1, i)'
  <2>1. OwedFrom(stack', b + 1, "initialize", i, s)
    BY <1>5, LoopOwes
  <2>2. QED BY <1>5, <2>1 DEF Ready
<1>6. CASE i \notin {s} \cup Entries(s) \cup modules[s] /\ Constructs
  <2>1. /\ i = L /\ s = Top.inst /\ stack # <<>> /\ Top.t = "modules" /\ Adds(s)
        /\ s \in 0 .. Len(record)
    BY <1>1, <1>6, MakingLists
  <2>2. record'[L].parent = s
    BY <2>1, AddsOne
  <2>3. Keeps(n - 1) /\ Len(stack') \in Nat /\ n <= Len(stack')
    BY <1>6, ConstructsBuild
  <2>4. L \in Nat /\ L # 0 /\ n - 1 <= Len(stack')
    BY <1>2, <2>3
  <2>5. QED BY <1>5, <2>1, <2>2, <2>3, <2>4
<1>7. CASE i \notin {s} \cup Entries(s) \cup modules[s] /\ ModulesDone
  <2>1. PICK q : q = Top.inst
    OBVIOUS
  <2>2. /\ stack # <<>> /\ Top.t = "modules" /\ stack' = Rest
        /\ UNCHANGED <<record, serviceModules>>
        /\ modules' = [modules EXCEPT ![q] = {j \in 1 .. Len(record) : record[j].parent = q}]
    BY <1>7, <2>1 DEF ModulesDone, At
  <2>3. Entries(s)' = Entries(s)
    BY <2>2 DEF Entries
  <2>4. i \in modules'[s] /\ i \notin modules[s]
    BY <1>7, <2>3
  <2>5. s = q /\ i \in 1 .. Len(record) /\ record[i].parent = q
    BY <1>1, <2>2, <2>4 DEF TypeInv, TypeOK
  <2>6. /\ n \in Nat \ {0} /\ Len(stack') = n - 1
        /\ \A c \in 1 .. n - 1 : Level(stack', c) = Level(stack, c)
    BY <2>2, LevelPop
  <2>7. i \in Nat /\ i # 0 /\ Len(stack') \in Nat /\ n - 1 <= Len(stack')
    BY <2>5, <2>6
  <2>8. QED BY <1>5, <2>1, <2>2, <2>5, <2>6, <2>7 DEF Keeps
<1>8. CASE i \notin {s} \cup Entries(s) \cup modules[s] /\ ConstructReturns
  BY <1>8 DEF ConstructReturns, Entries
<1>9. QED BY <1>4, <1>6, <1>7, <1>8

(* The frame of a late registration, while nothing is made. *)
LEMMA AwaitedOther ==
  ASSUME TypeInv, TypeInv', OwnModules, Followed, AllKnown, Ordered, Awaited, Unmaking, Runs,
         [Next]_vars, ~(Wait \/ UNCHANGED vars), ~Constructs, ~ModulesDone, UNCHANGED record,
         NEW b \in 1 .. Len(stack'), Level(stack', b).t = "startIfStarted"
  PROVE  /\ b \in 1 .. Len(stack) /\ Level(stack', b) = Level(stack, b)
         /\ LET s == Level(stack, b).inst
            IN \A i \in {s} \cup Entries(s)' \cup modules'[s] : Ready(stack, b + 1, i)'
<1> DEFINE n == Len(stack)
<1>1. PICK m :
        /\ Arises(m)
        /\ \/ m = n
           \/ stack # <<>> /\ m = n - 1 /\ (Top.t = "user" => UserReturns)
  BY DEF Runs
<1>2. /\ n \in Nat /\ m \in Nat /\ m <= n /\ m <= Len(stack') /\ Len(stack') \in Nat
      /\ Len(record) \in Nat
  BY <1>1, LenProperties DEF Arises, TypeInv, TypeOK
<1>3. b <= m
  <2> SUFFICES ASSUME b > m PROVE FALSE
    BY <1>2
  <2>1. b \in m + 1 .. Len(stack')
    BY <1>2
  <2>2. Level(stack', b).inst = Len(record) + 1
    BY <1>1, <2>1 DEF Arises, Fresh
  <2>3. Level(stack', b) \in Frames(Len(record))
    BY LevelTypeNext
  <2>4. QED BY <1>2, <2>2, <2>3 DEF Frames
<1>4. b \in 1 .. m /\ b \in 1 .. n
  BY <1>2, <1>3
<1>5. Level(stack', b) = Level(stack, b)
  BY <1>1, <1>4 DEF Arises
<1>6. PICK s : s = Level(stack, b).inst
  OBVIOUS
<1>7. /\ s \in Created /\ s \in Inst /\ record[s].parent = 0
      /\ \A i \in Entries(s) \cup modules[s] : i \in OwnOf(s)
      /\ \A i \in {s} \cup Entries(s) \cup modules[s] :
           i \in Created /\ i \in Inst /\ Ready(stack, b + 1, i)
  BY <1>4, <1>5, <1>6, WillStartType
<1>8. Entries(s)' \subseteq Entries(s) /\ modules'[s] \subseteq modules[s]
  BY <1>7, ListsShrink
<1>9. isInitialized \subseteq isInitialized'
  BY FlagsGrow
<1>10. ASSUME NEW i \in {s} \cup Entries(s)' \cup modules'[s]
       PROVE  Ready(stack, b + 1, i)'
  <2>1. /\ i \in {s} \cup Entries(s) \cup modules[s] /\ i \in Created
        /\ Ready(stack, b + 1, i)
    BY <1>7, <1>8
  <2>2. PICK p : p = record[i].parent
    OBVIOUS
  <2>3. record'[i].parent = p
    BY <2>2
  <2>4. CASE i \in isInitialized
    BY <1>9, <2>4 DEF Ready
  <2>5. CASE OwedFrom(stack, b + 1, "initialize", i, p)
    <3>1. PICK d \in b + 1 .. n : Owes(Level(stack, d), "initialize", i, p)
      BY <2>5 DEF OwedFrom
    <3>2. CASE d <= m
      <4>1. d \in 1 .. m /\ d \in b + 1 .. Len(stack')
        BY <1>2, <3>2
      <4>2. Level(stack', d) = Level(stack, d)
        BY <1>1, <4>1 DEF Arises
      <4>3. OwedFrom(stack', b + 1, "initialize", i, p)
        BY <3>1, <4>1, <4>2 DEF OwedFrom
      <4>4. QED BY <2>3, <4>3 DEF Ready
    <3>3. CASE ~(d <= m)
      <4>1. d = n /\ stack # <<>> /\ (Top.t = "user" => UserReturns) /\ b + 1 <= n
        BY <1>1, <1>2, <3>3
      <4>2. Owes(Top, "initialize", i, record[i].parent)
        BY <2>2, <3>1, <4>1, LevelPop
      <4>3. ASSUME Top.t = "walk", Top.inst = p PROVE i \in modules[p]
        <5>1. p # 0
          BY <4>1, <4>3, TopFields DEF Created
        <5>2. i \in OwnOf(s)
          BY <1>7, <2>1, <2>2, <5>1
        <5>3. p = s
          BY <2>2, <5>2 DEF OwnOf
        <5>4. CASE i \in modules[s]
          BY <5>3, <5>4
        <5>5. CASE i \in Entries(s)
          <6>1. i \notin isDestroyed
            BY <1>7, <5>5 DEF Ordered
          <6>2. n \in 1 .. n /\ Level(stack, n) = Top
            BY <1>2, <4>1, LevelPop
          <6>3. i \in records
            BY <2>1, <6>1, <6>2 DEF AllKnown, Known, Unmaking
          <6>4. ~LoopsFor(p)
            BY DEF LoopsFor, Unmaking
          <6>5. QED BY <2>2, <5>1, <6>3, <6>4 DEF Followed, Follows
        <5>6. QED BY <2>1, <2>2, <5>1, <1>7, <5>4, <5>5
      <4>4. (Top.t = "walk" /\ Top.inst = record[i].parent) => i \in modules[Top.inst]
        BY <2>2, <4>3
      <4>5. "initialize" \in Counted /\ Flagged("initialize") = isInitialized
        BY DEF Counted, Flagged
      <4>6. \/ i \in (Flagged("initialize"))'
            \/ OwedFrom(stack', n, "initialize", i, record[i].parent)
        BY <2>1, <4>1, <4>2, <4>4, <4>5, HeadOwes
      <4>7. \A c \in n .. Len(stack') : c \in b + 1 .. Len(stack')
        BY <1>2, <4>1
      <4>8. QED BY <2>2, <2>3, <4>6, <4>7 DEF Flagged, Ready, OwedFrom
    <3>4. QED BY <3>2, <3>3
  <2>6. QED BY <2>1, <2>2, <2>4, <2>5 DEF Ready
<1>11. QED BY <1>4, <1>5, <1>6, <1>10

LEMMA AwaitedStep ==
  ASSUME ConstructorsDoNotReenter, TypeInv, TypeInv', NamesInv, OwnModules, Making, Followed,
         AllKnown, Flat, Ordered, Awaited, [Next]_vars, ~failed'
  PROVE  Awaited'
<1> DEFINE n == Len(stack)
           L == Len(record) + 1
<1>1. n \in Nat /\ Len(record) \in Nat
  BY LenProperties DEF TypeInv, TypeOK
<1>2. /\ \A j \in Created : record'[j] = record[j]
      /\ isInitialized \subseteq isInitialized'
  BY RecordsStay, FlagsGrow
<1>3. SUFFICES ASSUME NEW b \in 1 .. Len(stack'), NEW s, s = Level(stack', b).inst,
                      Level(stack', b).t = "startIfStarted"
               PROVE  /\ TopLevel(s)'
                      /\ \A i \in {s} \cup Entries(s)' \cup modules'[s] :
                           Ready(stack, b + 1, i)'
  <2>1. ASSUME NEW b \in 1 .. Len(stack'), Level(stack', b).t = "startIfStarted"
        PROVE  /\ TopLevel(Level(stack, b).inst)'
               /\ \A i \in Inst : WillStart(Level(stack, b), i)' => Ready(stack, b + 1, i)'
    <3>1. PICK s : s = Level(stack', b).inst
      OBVIOUS
    <3>2. /\ TopLevel(s)'
          /\ \A i \in {s} \cup Entries(s)' \cup modules'[s] : Ready(stack, b + 1, i)'
      BY <1>3, <2>1, <3>1
    <3>3. TopLevel(Level(stack, b).inst)'
      BY <3>1, <3>2 DEF TopLevel
    <3>4. ASSUME NEW i \in Inst, WillStart(Level(stack, b), i)'
          PROVE  i \in {s} \cup Entries(s)' \cup modules'[s]
      BY <3>1, <3>4 DEF WillStart, Entries
    <3>5. QED BY <3>2, <3>3, <3>4
  <2>2. QED BY <2>1 DEF Awaited, Ready
<1>4. ASSUME b \in 1 .. n, Level(stack', b) = Level(stack, b)
      PROVE  TopLevel(s)'
  <2>1. s \in Created /\ record[s].parent = 0
    BY <1>3, <1>4, LevelType DEF Frames, Created, Awaited, TopLevel
  <2>2. QED BY <1>2, <2>1 DEF TopLevel
<1>5. CASE Wait \/ UNCHANGED vars
  <2>1. UNCHANGED <<stack, record, modules, serviceModules>>
    BY <1>5
    DEF Wait, ResolveAsync, ResolveTimeout, WaitUntilInitialized, InitializationTimeout, vars,
        registryVars
  <2>2. ASSUME NEW i \in {s} \cup Entries(s)' \cup modules'[s]
        PROVE  Ready(stack, b + 1, i)'
    <3>1. i \in {s} \cup Entries(s) \cup modules[s]
      BY <2>1 DEF Entries
    <3>2. b \in 1 .. n /\ Level(stack, b).t = "startIfStarted" /\ s = Level(stack, b).inst
      BY <1>3, <2>1
    <3>3. Ready(stack, b + 1, i)
      <4> HIDE DEF n
      <4>1. \A k \in {s} \cup Entries(s) \cup modules[s] : Ready(stack, b + 1, k)
        BY <3>2, WillStartType DEF n
      <4>2. QED BY <3>1, <4>1
    <3>4. QED BY <1>2, <2>1, <3>3 DEF Ready
  <2>3. QED BY <1>3, <1>4, <2>1, <2>2
<1>6. CASE ConstructReturns \/ ModulesDone
  <2>1. stack # <<>> /\ stack' = Rest
    BY <1>6 DEF ConstructReturns, ModulesDone, Returns, At
  <2>2. b \in 1 .. n /\ Level(stack', b) = Level(stack, b)
    BY <1>3, <2>1, LevelPop
  <2>3. \A i \in {s} \cup Entries(s)' \cup modules'[s] : Ready(stack, b + 1, i)'
    BY <1>3, <1>6, <2>2, AwaitedMaking
  <2>4. QED BY <1>4, <2>2, <2>3
<1>7. CASE Constructs
  <2>1. (b \in 1 .. n /\ Level(stack', b) = Level(stack, b)) \/ Again(b) \/ Anew(b)
    BY <1>7, ConstructsBuild
  <2>2. CASE b \in 1 .. n /\ Level(stack', b) = Level(stack, b)
    <3>1. \A i \in {s} \cup Entries(s)' \cup modules'[s] : Ready(stack, b + 1, i)'
      BY <1>3, <1>7, <2>2, AwaitedMaking
    <3>2. QED BY <1>4, <2>2, <3>1
  <2>3. CASE Again(b)
    BY <1>3, <2>3 DEF Again
  <2>4. CASE Anew(b)
    <3>1. /\ s = L /\ Adds(0)
          /\ b + 1 \in 1 .. Len(stack') /\ OwnWalk(Level(stack', b + 1), L)
      BY <1>3, <2>4 DEF Anew, OwnWalk, Constructing
    <3>2. /\ L \in Inst /\ record'[L].parent = 0
          /\ serviceModules' = serviceModules /\ modules' = modules
          /\ Entries(L) = {} /\ modules[L] = {}
      BY <3>1, NewIsTopLevel
    <3>3. Entries(s)' = {} /\ modules'[s] = {}
      BY <3>1, <3>2 DEF Entries
    <3>4. Owes(Level(stack', b + 1), "initialize", s, 0)
      BY <3>1 DEF OwnWalk, Owes
    <3>5. b + 1 \in b + 1 .. Len(stack')
      BY <3>1
    <3>6. OwedFrom(stack', b + 1, "initialize", s, 0)
      BY <3>4, <3>5 DEF OwedFrom
    <3>7. record'[s].parent = 0
      BY <3>1, <3>2
    <3>8. QED BY <3>3, <3>6, <3>7 DEF Ready, TopLevel
  <2>5. QED BY <2>1, <2>2, <2>3, <2>4
<1>8. CASE ~(Wait \/ UNCHANGED vars) /\ ~Constructs /\ ~ConstructReturns /\ ~ModulesDone
  <2>1. Unmaking /\ Unmaking' /\ Runs /\ UNCHANGED record
    BY <1>8, UnmakingStep
  <2>2. b \in 1 .. n /\ Level(stack', b) = Level(stack, b)
    BY <1>3, <1>8, <2>1, AwaitedOther
  <2>3. \A q : q = Level(stack, b).inst =>
          \A i \in {q} \cup Entries(q)' \cup modules'[q] : Ready(stack, b + 1, i)'
    BY <1>3, <1>8, <2>1, AwaitedOther
  <2>4. QED BY <1>3, <1>4, <2>2, <2>3
<1>9. QED BY <1>5, <1>6, <1>7, <1>8

(* What is registered is initialized, or is owed it. *)
DueInv == ~failed => Promised({"initialize"}) /\ AllDue({"initialize"})

LEMMA FirstStep ==
  ASSUME ConstructorsDoNotReenter, TypeInv, TypeInv', NamesInv, OwnModules, FollowInv,
         DueInv, ~failed => AllKnown, DestroyInv, StartFrames, FirstInv,
         Start => ~Initializing, [Next]_vars
  PROVE  FirstInv' /\ DueInv'
<1>1. isInitialized' \subseteq Created'
  BY InitializedCreated DEF FirstInv
<1>2. ASSUME ~failed'
      PROVE  /\ Flat' /\ Ordered' /\ Linked' /\ Begun' /\ Awaited'
             /\ Promised({"initialize"})' /\ AllDue({"initialize"})'
  <2>1. ~failed
    BY <1>2, FailedStays
  <2>2. /\ Making /\ Sited /\ Followed /\ AllKnown
        /\ Promised({"initialize"}) /\ AllDue({"initialize"})
    BY <2>1 DEF FollowInv, DueInv
  <2>3. /\ isInitialized \subseteq Created /\ isDestroyed \subseteq Created
        /\ Flat /\ Ordered /\ Linked /\ Begun /\ Awaited
    BY <2>1 DEF FirstInv, DestroyInv
  <2>4. Flat'
    BY <1>2, <2>2, <2>3, FlatStep
  <2>5. Ordered'
    BY <1>2, <2>3, OrderedStep
  <2>6. Linked'
    BY <1>2, <2>2, <2>3, LinkedStep
  <2>7. Begun'
    BY <1>2, <2>2, <2>3, BegunStep
  <2>8. Awaited'
    BY <1>2, <2>2, <2>3, AwaitedStep
  <2> DEFINE H == {"initialize"}
  <2>9. H \in SUBSET Counted /\ "start" \notin H /\ Promised(H) /\ AllDue(H)
    BY <2>2 DEF Counted
  <2> HIDE DEF H
  <2>10. Promised(H)' /\ AllDue(H)'
    BY <1>2, <2>2, <2>9, PromisedStep, AllDueStep
  <2>11. QED BY <2>4, <2>5, <2>6, <2>7, <2>8, <2>10 DEF H
<1>3. QED BY <1>1, <1>2 DEF FirstInv, DueInv

(* What enters start(), or is still in it, is initialized. *)
LEMMA EntersStart ==
  ASSUME TypeInv, TypeInv', OwnModules, FirstInv, ~failed, [Next]_vars,
         NEW i \in Inst, Enters("start", i)
  PROVE  i \in isInitialized
<1> DEFINE n == Len(stack)
           f == Level(stack', Len(stack'))
<1>1. PICK m : Arises(m)
  BY StepArises
<1>2. /\ n \in Nat /\ m \in Nat /\ Len(stack') \in Nat
      /\ m <= n /\ m <= Len(stack') /\ Len(stack') >= n
  BY <1>1, LenProperties DEF Arises, Enters, TypeInv, TypeOK
<1>3. /\ Len(stack') \in 1 .. Len(stack')
      /\ f.t = "user" /\ f.hook = "start" /\ f.inst = i
  <2>1. Len(stack') # 0
    BY <1>2 DEF TypeInv, TypeOK, Enters
  <2>2. Len(stack') + 1 - Len(stack') = 1
    BY <1>2
  <2>3. QED BY <1>2, <2>1, <2>2 DEF Level, Enters
<1>4. Flat /\ Begun /\ Awaited
  BY DEF FirstInv
<1>5. Starts(f, i)
  BY <1>3 DEF Starts
<1>6. CASE Len(stack') = m
  <2>1. Len(stack') = n /\ n \in 1 .. m /\ n \in 1 .. n
    BY <1>2, <1>3, <1>6
  <2>2. f = Level(stack, n)
    BY <1>1, <2>1 DEF Arises
  <2>3. QED BY <1>4, <1>5, <2>1, <2>2 DEF Begun
<1>7. CASE Len(stack') > m
  <2>1. Fresh(f)
    BY <1>1, <1>2, <1>3, <1>7 DEF Arises
  <2>2. HookNext \/ HookModulesNext
    BY <1>3, <2>1 DEF Fresh, CountedUser, Counted
  <2>3. stack # <<>> /\ Top.t \in {"hook", "hookModules"}
    BY <2>2 DEF HookNext, HookModulesNext, At
  <2>4. /\ Looping /\ Top.t # "forEach"
        /\ ~(Wait \/ UNCHANGED vars)
    <3>1. ~UNCHANGED stack
      <4> SUFFICES ASSUME stack' = stack PROVE FALSE
        OBVIOUS
      <4>1. f = Top
        BY <2>3, LevelPop
      <4>2. QED BY <1>3, <2>3, <4>1
    <3>2. Wait \/ UNCHANGED vars => UNCHANGED stack
      BY DEF Wait, ResolveAsync, ResolveTimeout, WaitUntilInitialized, InitializationTimeout,
             vars
    <3>3. QED BY <2>3, <3>1, <3>2 DEF Looping
  <2>5. \A c \in n .. Len(stack') : Succeeds(Level(stack', c))
    BY <2>4, LoopingSucceeds
  <2>6. Succeeds(f)
    BY <1>2, <2>5
  <2> HIDE DEF f
  <2>7. QED BY <1>4, <1>5, <2>4, <2>6, StartsSucceed
<1>8. QED BY <1>2, <1>6, <1>7

(* Unless something threw, and if start() is not called while an            *)
(* initialize() runs, no service is started before it is initialized:       *)
(* neither by the loop of start() over its snapshot (151-155), with the     *)
(* modules each record and each instance lists (441-455), nor by what ends  *)
(* a late registration (298-302).                                           *)
THEOREM InitializedFirst ==
  ASSUME ConstructorsDoNotReenter
  PROVE  Spec /\ [][Start => ~Initializing]_vars => InitializeBeforeStart
<1> DEFINE Step == \A i \in Inst : (Enters("start", i) /\ ~failed) => i \in isInitialized
           Calm == Start => ~Initializing
           Inv == /\ NamesInv /\ ModulesInv /\ FollowInv /\ DueInv
                  /\ ~failed => AllKnown
                  /\ DestroyInv /\ StartFrames /\ FirstInv
<1>1. Init => Inv
  <2> SUFFICES ASSUME Init PROVE Inv
    OBVIOUS
  <2>1. /\ stack = <<>> /\ records = {} /\ record = <<>> /\ ~started
        /\ isInitialized = {} /\ isDestroyed = {} /\ aborted = {}
        /\ serviceModules = [i \in Inst |-> <<>>]
    BY DEF Init
  <2>2. \A b \in 1 .. Len(stack) : FALSE
    BY <2>1
  <2>3. NamesInv
    BY DEF Init, NamesInv, UniqueNames, OneConstructor
  <2>4. Emptied /\ Younger /\ Unlisted /\ \A b \in 1 .. Len(stack) : ModulesGone(b)
    BY <2>1, <2>2 DEF Emptied, Younger, Unlisted
  <2>5. FollowInv
    BY <2>1, <2>2 DEF FollowInv, Making, Sited, Followed
  <2>6. DueInv
    BY <2>1, <2>2 DEF DueInv, Promised, AllDue
  <2>7. Created = {}
    BY <2>1 DEF Created
  <2>8. AllKnown /\ DestroyInv
    BY <2>1, <2>2, <2>7 DEF AllKnown, DestroyInv, DestroyedIsGone, StackKnows
  <2>9. StartFrames
    BY <2>1, <2>2 DEF StartFrames
  <2>10. Ordered
    <3>1. ASSUME NEW p \in Inst
          PROVE  Increasing(serviceModules[p]) /\ Entries(p) \cap isDestroyed = {}
      <4>1. serviceModules[p] = <<>>
        BY <2>1
      <4>2. Len(serviceModules[p]) = 0
        BY <4>1
      <4>3. \A k \in 1 .. Len(serviceModules[p]) : FALSE
        BY <4>2
      <4>4. QED BY <2>1, <4>3 DEF Increasing
    <3>2. QED BY <3>1 DEF Ordered
  <2>11. Flat /\ Linked /\ Begun /\ Awaited
    BY <2>2, <2>7 DEF Flat, Linked, Begun, Awaited
  <2>12. FirstInv
    BY <2>1, <2>10, <2>11 DEF FirstInv
  <2>13. QED
    BY <2>3, <2>4, <2>5, <2>6, <2>8, <2>9, <2>12, OwnModulesInit DEF ModulesInv
<1>2. TypeInv /\ TypeInv' /\ Inv /\ [Calm]_vars /\ [Next]_vars => Inv'
  <2> SUFFICES ASSUME TypeInv, TypeInv', Inv, [Calm]_vars, [Next]_vars PROVE Inv'
    OBVIOUS
  <2>1. OwnModules
    BY DEF ModulesInv
  <2>2. NamesInv' /\ ModulesInv' /\ FollowInv'
    BY NamesStep, ModulesStep, FollowStep
  <2>3. (~failed => AllKnown)'
    BY FailedStays, AllKnownStep
  <2>4. DestroyInv'
    BY DestroyStep
  <2>5. StartFrames'
    BY <2>1, StartFramesStep
  <2>6. Start => ~Initializing
    <3>1. CASE UNCHANGED vars
      <4>1. ~Start
        BY <3>1 DEF Start, vars, managerVars
      <4>2. QED BY <4>1
    <3>2. QED BY <3>1
  <2>7. FirstInv' /\ DueInv'
    BY <2>1, <2>6, FirstStep
  <2>8. QED BY <2>2, <2>3, <2>4, <2>5, <2>7
<1>3. TypeInv /\ TypeInv' /\ Inv /\ [Next]_vars => [Step]_vars
  BY EntersStart DEF ModulesInv
<1> HIDE DEF Inv, Step, Calm
<1>4. Spec /\ [][Calm]_vars => [][Step]_vars
  BY <1>1, <1>2, <1>3, TypeCorrect, PTL DEF Spec
<1>5. QED BY <1>4 DEF Step, Calm, InitializeBeforeStart

LEMMA PairCardinality ==
  ASSUME NEW a, NEW b, a # b
  PROVE  Cardinality({a, b}) = 2
<1>1. PICK s : s = {a}
  OBVIOUS
<1>2. IsFiniteSet(s) /\ Cardinality(s) = 1
  BY <1>1, FS_Singleton
<1>3. b \notin s
  BY <1>1
<1>4. Cardinality(s \cup {b}) = Cardinality(s) + 1
  BY <1>2, <1>3, FS_AddElement
<1>5. s \cup {b} = {a, b}
  BY <1>1
<1>6. Cardinality({a, b}) = Cardinality(s) + 1
  BY <1>4, <1>5, Zenon
<1>7. QED BY <1>2, <1>6

(* The operation is not called while an initialize() runs when no callback  *)
(* calls it, or when initialize() does not and callbacks do not nest.       *)
CallsAreCalm(op) ==
  \/ \A h \in Hook : <<h, op>> \notin Reentrant
  \/ <<"initialize", op>> \notin Reentrant /\ MaxDepth <= 1

LEMMA CalmCalls ==
  ASSUME NEW op, CallsAreCalm(op), TypeInv, Calls(op)
  PROVE  ~Initializing
<1> DEFINE n == Len(stack)
<1>1. n \in Nat /\ stack \in Seq(Frame)
  BY LenProperties DEF TypeInv, TypeOK
<1> SUFFICES ASSUME NEW b \in 1 .. n, Initializes(Level(stack, b)) PROVE FALSE
  BY DEF Initializing
<1>2. stack # <<>> /\ Top.hook \in Hook
  BY <1>1, TopFields
<1>3. /\ Top.t = "user" /\ <<Top.hook, op>> \in Reentrant
      /\ Cardinality(UserFrames(stack)) <= MaxDepth
  BY <1>2 DEF Calls, At
<1>4. <<"initialize", op>> \notin Reentrant /\ MaxDepth <= 1
  BY <1>2, <1>3 DEF CallsAreCalm
<1> DEFINE k == n + 1 - b
<1>5. k \in 1 .. n /\ stack[k].t = "user" /\ stack[k].hook = "initialize"
  BY <1>1 DEF Initializes, Level
<1>6. 1 \in 1 .. n /\ stack[1].t = "user" /\ stack[1].hook # "initialize"
  BY <1>1, <1>2, <1>3, <1>4 DEF Top
<1>7. k # 1
  BY <1>5, <1>6
<1> HIDE DEF k
<1>8. {1, k} \subseteq UserFrames(stack)
  BY <1>5, <1>6 DEF UserFrames
<1>9. IsFiniteSet(UserFrames(stack))
  <2>1. IsFiniteSet(1 .. n) /\ UserFrames(stack) \subseteq 1 .. n
    BY <1>1, FS_Interval DEF UserFrames
  <2>2. QED BY <2>1, FS_Subset
<1>10. Cardinality({1, k}) = 2
  BY <1>7, PairCardinality
<1>11. 2 <= Cardinality(UserFrames(stack))
  BY <1>8, <1>9, <1>10, FS_Subset
<1>12. Cardinality(UserFrames(stack)) \in Nat /\ MaxDepth \in Nat
  BY <1>9, FS_CardinalityType, BoundAssumption
<1>13. QED BY <1>3, <1>4, <1>11, <1>12

(* The same as a property of the configuration: of the one the model is     *)
(* checked in, and of every one in which callbacks leave start() alone.     *)
THEOREM InitializedFirstInCalm ==
  ASSUME ConstructorsDoNotReenter, CallsAreCalm("start")
  PROVE  Spec => InitializeBeforeStart
<1>1. TypeInv => (Start => ~Initializing)
  BY CalmCalls DEF Start
<1>2. Spec => [][Start => ~Initializing]_vars
  BY <1>1, TypeCorrect, PTL
<1>3. QED BY <1>2, InitializedFirst, PTL

-----------------------------------------------------------------------------
(* Dependencies are initialized first.                                     *)
(*                                                                         *)
(* A service is constructed with records of the registry.  When the        *)
(* registration is not made inside an initialize(), nothing is owed to     *)
(* them any more; a module can also find its parent and its elder          *)
(* siblings, which the walk that is to initialize the parent's tree will   *)
(* get to first (Based).  There is one such walk on the stack at a time,   *)
(* with nothing of an activation under it (Alone); the record it is at is  *)
(* the one its loops are about (Within), and those have initialized the    *)
(* modules before their index (Progress).  Nobody destroys what it is      *)
(* about (Intact), since what initialize() calls leaves the registry alone *)
(* (Unmeddled).                                                            *)

Family(p) == {p} \cup OwnOf(p)

(* What an instance can be constructed with that is not initialized yet. *)
Kin(i) ==
  IF TopLevel(i) THEN {}
  ELSE {record[i].parent} \cup {j \in OwnOf(record[i].parent) : j < i}

InitWalk(f) == f.t = "walk" /\ f.hook = "initialize"

Visits(f) == f.t \in {"hook", "hookModules"} /\ f.hook = "initialize"

Visiting(f, i) == InitWalk(f) /\ f.n = i /\ i \in Family(f.inst)

(* The loops that create or destroy, and the operations that start them. *)
Meddling(f) ==
  f.t \in {"profile", "disposeAll", "dispose", "disposeModules", "destroy"} \/ Leaving(f)

Meddles ==
  \/ InitializeProfile \/ Dispose
  \/ \E s \in Service : Register(s)
  \/ \E i \in records : Unregister(i)

Alone ==
  \A b, d \in 1 .. Len(stack) : (d < b /\ InitWalk(Level(stack, b))) =>
    ~Activating(Level(stack, d)) /\ ~Initializes(Level(stack, d))

Within ==
  \A b \in 1 .. Len(stack) : Visits(Level(stack, b)) =>
    b > 1 /\ Visiting(Level(stack, b - 1), Level(stack, b).inst)

Unmeddled ==
  \A b, c \in 1 .. Len(stack) :
    (b <= c /\ Initializes(Level(stack, b))) => ~Meddling(Level(stack, c))

Intact ==
  \A b \in 1 .. Len(stack) : InitWalk(Level(stack, b)) =>
    /\ TopLevel(Level(stack, b).inst)
    /\ Family(Level(stack, b).inst) \cap isDestroyed = {}

Passed(b, l) ==
  LET j == serviceModules[Level(stack, b).inst][l]
  IN j \in isInitialized \/ (b < Len(stack) /\ Calling(Level(stack, b + 1), "initialize", j))

Progress ==
  \A b \in 1 .. Len(stack) :
    (Visits(Level(stack, b)) /\ Level(stack, b).t = "hookModules") =>
      \A l \in 1 .. Len(serviceModules[Level(stack, b).inst]) :
        l < Level(stack, b).n => Passed(b, l)

Based == \A i \in Created : record[i].deps \subseteq isInitialized \cup Kin(i)

Served ==
  \A b \in 1 .. Len(stack) :
    Initializes(Level(stack, b)) => record[Level(stack, b).inst].deps \subseteq isInitialized

InitInv ==
  ~failed => Alone /\ Within /\ Unmeddled /\ Intact /\ Progress /\ Based /\ Served

(* What the proof takes from the invariants above. *)
Footing ==
  /\ TypeInv /\ NamesInv /\ OwnModules /\ Making /\ Followed /\ AllKnown
  /\ AllDue({"initialize"}) /\ Flat /\ Ordered /\ Linked
  /\ isInitialized \subseteq Created /\ isDestroyed \subseteq Created

(* The head returns, is replaced, or calls something. *)
Pops == Len(stack') = Len(stack) - 1 /\ Keeps(Len(stack) - 1)

Turns(g) ==
  Len(stack') = Len(stack) /\ Keeps(Len(stack) - 1) /\ Level(stack', Len(stack)) = g

Spawns(f, g) ==
  /\ Len(stack') = Len(stack) + 1 /\ Keeps(Len(stack) - 1)
  /\ Level(stack', Len(stack)) = g /\ Level(stack', Len(stack) + 1) = f

LEMMA HeadMoves ==
  ASSUME TypeInv, stack # <<>>, NEW f, NEW g
  PROVE  /\ stack' = Rest => Pops
         /\ stack' = <<g>> \o Rest => Turns(g)
         /\ stack' = <<f, g>> \o Rest => Spawns(f, g)
         /\ stack' = <<f>> \o (<<g>> \o Rest) => Spawns(f, g)
<1> DEFINE n == Len(stack)
           two == <<f, g>> \o Rest
           one == <<g>> \o Rest
<1>1. /\ n \in Nat \ {0} /\ Len(Rest) = n - 1
      /\ \A b \in 1 .. n - 1 : Level(Rest, b) = Level(stack, b)
  BY LevelPop
<1>2. <<f>> \o (<<g>> \o Rest) = two
  BY CallOnTop
<1>3. /\ Len(one) = Len(Rest) + 1 /\ Level(one, Len(Rest) + 1) = g
      /\ \A b \in 1 .. Len(Rest) : Level(one, b) = Level(Rest, b)
  BY CallAlone
<1>4. ASSUME stack' = two PROVE Spawns(f, g)
  <2>1. /\ Len(stack') = Len(Rest) + 2
        /\ Level(stack', Len(Rest) + 1) = g /\ Level(stack', Len(Rest) + 2) = f
        /\ \A b \in 1 .. Len(Rest) : Level(stack', b) = Level(Rest, b)
    BY <1>4, CalledOnTop
  <2>2. Len(Rest) + 1 = n /\ Len(Rest) + 2 = n + 1 /\ Len(stack') = n + 1
    BY <1>1, <2>1
  <2>3. Level(stack', n) = g /\ Level(stack', n + 1) = f
    BY <2>1, <2>2
  <2>4. Keeps(n - 1)
    BY <1>1, <2>1 DEF Keeps
  <2>5. QED BY <2>2, <2>3, <2>4 DEF Spawns
<1> HIDE DEF two, one
<1>5. ASSUME stack' = one PROVE Turns(g)
  <2>1. Len(Rest) + 1 = n /\ Len(stack') = n
    BY <1>1, <1>3, <1>5
  <2>2. Level(stack', n) = g
    BY <1>3, <1>5, <2>1
  <2>3. Keeps(n - 1)
    BY <1>1, <1>3, <1>5 DEF Keeps
  <2>4. QED BY <2>1, <2>2, <2>3 DEF Turns
<1>6. ASSUME stack' = Rest PROVE Pops
  BY <1>1, <1>6 DEF Pops, Keeps
<1>7. QED BY <1>2, <1>4, <1>5, <1>6 DEF two, one

(* The steps of the loops that initialize. *)
Visit(j) ==
  /\ stack # <<>> /\ InitWalk(Top) /\ j \in {Top.inst} \cup modules[Top.inst]
  /\ Spawns(RunHook("initialize", j), Walk("initialize", Top.inst, j))

Initialize(i) ==
  /\ stack # <<>> /\ Visits(Top) /\ Top.t = "hook" /\ i = Top.inst
  /\ Spawns(User("initialize", i), RunHookModules("initialize", i, 1))

Onward(j) ==
  /\ stack # <<>> /\ Visits(Top) /\ Top.t = "hookModules"
  /\ Top.n \in 1 .. Len(serviceModules[Top.inst]) /\ j = serviceModules[Top.inst][Top.n]

PassModule(j) ==
  /\ Onward(j) /\ j \in isInitialized
  /\ Turns(RunHookModules("initialize", Top.inst, Top.n + 1))

InitializeModule(j) ==
  /\ Onward(j)
  /\ Spawns(User("initialize", j), RunHookModules("initialize", Top.inst, Top.n + 1))

(* The steps that have no part in initializing. *)
Leaves ==
  \E m \in Nat :
    /\ m <= Len(stack) /\ m <= Len(stack') /\ Keeps(m)
    /\ m = Len(stack) \/ (m = Len(stack) - 1 /\ (Top.t = "user" => UserReturns))
    /\ \A c \in m + 1 .. Len(stack') :
         ~Activating(Level(stack', c)) /\ ~Initializes(Level(stack', c))

Advances ==
  \E j \in Created : Visit(j) \/ Initialize(j) \/ PassModule(j) \/ InitializeModule(j)

LEMMA PopLeaves ==
  ASSUME TypeInv, stack # <<>>, Top.t = "user" => UserReturns
  PROVE  stack' = Rest => Leaves
<1> SUFFICES ASSUME stack' = Rest PROVE Leaves
  OBVIOUS
<1> DEFINE n == Len(stack)
<1>1. n \in Nat \ {0} /\ Len(stack') = n - 1 /\ Keeps(n - 1)
  BY LevelPop DEF Keeps
<1>2. \A c \in (n - 1) + 1 .. Len(stack') : FALSE
  BY <1>1
<1>3. n - 1 \in Nat /\ n - 1 <= n /\ n - 1 <= Len(stack')
  BY <1>1
<1>4. QED BY <1>1, <1>2, <1>3 DEF Leaves

LEMMA WalkAdvances ==
  ASSUME TypeInv, OwnModules, WalkNext, Top.hook = "initialize"
  PROVE  /\ Leaves \/ Advances
         /\ UNCHANGED <<registryVars, flagVars>>
<1> DEFINE i == Top.inst
<1>1. stack # <<>> /\ Top.t = "walk" /\ InitWalk(Top)
  BY DEF WalkNext, At, InitWalk
<1>2. i \in Created /\ modules[i] \subseteq Created
  <2>1. i \in Created /\ i \in Inst
    BY <1>1, TopFields
  <2>2. QED BY <2>1 DEF TypeInv, Bounded
<1>3. \/ \E j \in {i} \cup modules[i] :
           stack' = <<RunHook("initialize", j), Walk("initialize", i, j)>> \o Rest
      \/ stack' = Rest
  <2>1. \/ stack' = <<RunHook(Top.hook, i), Walk(Top.hook, i, i)>> \o Rest
        \/ \E j \in modules[i] : stack' = <<RunHook(Top.hook, j), Walk(Top.hook, i, j)>> \o Rest
        \/ stack' = Rest
    BY DEF WalkNext
  <2>2. QED BY <2>1
<1>4. ASSUME NEW j \in {i} \cup modules[i],
             stack' = <<RunHook("initialize", j), Walk("initialize", i, j)>> \o Rest
      PROVE  Advances
  <2>1. Spawns(RunHook("initialize", j), Walk("initialize", i, j))
    BY <1>1, <1>4, HeadMoves
  <2>2. Visit(j) /\ j \in Created
    BY <1>1, <1>2, <2>1 DEF Visit
  <2>3. QED BY <2>2 DEF Advances
<1>5. stack' = Rest => Leaves
  BY <1>1, PopLeaves
<1>6. QED BY <1>3, <1>4, <1>5 DEF WalkNext

LEMMA HookAdvances ==
  ASSUME TypeInv, OwnModules, HookNext, Top.hook = "initialize"
  PROVE  /\ Leaves \/ Advances
         /\ UNCHANGED <<registryVars, flagVars>>
<1> DEFINE i == Top.inst
<1>1. stack # <<>> /\ Top.t = "hook" /\ Visits(Top)
  BY DEF HookNext, At, Visits
<1>2. i \in Created
  BY <1>1, TopFields
<1>3. \/ stack' = <<User("initialize", i), RunHookModules("initialize", i, 1)>> \o Rest
      \/ stack' = Rest
  BY DEF HookNext
<1>4. ASSUME stack' = <<User("initialize", i), RunHookModules("initialize", i, 1)>> \o Rest
      PROVE  Advances
  <2>1. Spawns(User("initialize", i), RunHookModules("initialize", i, 1))
    BY <1>1, <1>4, HeadMoves
  <2>2. Initialize(i)
    BY <1>1, <2>1 DEF Initialize
  <2>3. QED BY <1>2, <2>2 DEF Advances
<1>5. stack' = Rest => Leaves
  BY <1>1, PopLeaves
<1>6. QED BY <1>3, <1>4, <1>5 DEF HookNext

LEMMA HookModulesAdvances ==
  ASSUME TypeInv, OwnModules, HookModulesNext, Top.hook = "initialize"
  PROVE  /\ Leaves \/ Advances
         /\ UNCHANGED <<registryVars, flagVars>>
<1> DEFINE i == Top.inst
           ms == serviceModules[i]
           j == ms[Top.n]
           onward == RunHookModules("initialize", i, Top.n + 1)
<1>1. stack # <<>> /\ Top.t = "hookModules" /\ Visits(Top)
  BY DEF HookModulesNext, At, Visits
<1>2. i \in Inst /\ Top.n \in Nat \ {0}
  BY <1>1, TopFields
<1>3. Len(ms) \in Nat /\ \A k \in 1 .. Len(ms) : ms[k] \in Created
  BY <1>2, EntriesType
<1>4. \/ /\ Top.n <= Len(ms) /\ j \in isInitialized
         /\ stack' = <<onward>> \o Rest
      \/ Top.n <= Len(ms) /\ stack' = <<User("initialize", j)>> \o (<<onward>> \o Rest)
      \/ stack' = Rest
  BY DEF HookModulesNext, Flagged
<1>5. CASE stack' = Rest
  <2>1. Leaves
    BY <1>1, <1>5, PopLeaves
  <2>2. QED BY <2>1 DEF HookModulesNext
<1>6. CASE Top.n <= Len(ms) /\ stack' # Rest
  <2>1. j \in Created /\ Onward(j)
    BY <1>1, <1>2, <1>3, <1>6 DEF Onward
  <2> HIDE DEF j, onward
  <2>2. stack' = <<onward>> \o Rest => Turns(onward)
    BY <1>1, HeadMoves
  <2>3. stack' = <<User("initialize", j)>> \o (<<onward>> \o Rest)
          => Spawns(User("initialize", j), onward)
    BY <1>1, HeadMoves
  <2>4. PassModule(j) \/ InitializeModule(j)
    BY <1>4, <1>6, <2>1, <2>2, <2>3 DEF PassModule, InitializeModule, onward
  <2>5. QED BY <2>1, <2>4 DEF Advances, HookModulesNext
<1>7. QED BY <1>4, <1>5, <1>6

LEMMA OthersLeave ==
  ASSUME TypeInv, TypeInv', Runs, Unmaking, Unmaking', UNCHANGED record,
         stack # <<>> => ~Activating(Top)
  PROVE  Leaves
<1> DEFINE n == Len(stack)
<1>1. PICK m :
        /\ Arises(m)
        /\ \/ m = n
           \/ stack # <<>> /\ m = n - 1 /\ (Top.t = "user" => UserReturns)
  BY DEF Runs
<1>2. /\ n \in Nat /\ m \in Nat /\ m <= n /\ m <= Len(stack') /\ Len(stack') \in Nat
      /\ Keeps(m)
  BY <1>1, LenProperties DEF Arises, TypeInv, TypeOK, Keeps
<1>3. ASSUME NEW c \in m + 1 .. Len(stack')
      PROVE  ~Activating(Level(stack', c)) /\ ~Initializes(Level(stack', c))
  <2> DEFINE f == Level(stack', c)
  <2>1. SUFFICES ASSUME Activating(f) \/ Initializes(f) PROVE FALSE
    OBVIOUS
  <2>2. c \in 1 .. Len(stack') /\ Fresh(f)
    BY <1>1, <1>2 DEF Arises
  <2>3. f.t \in {"walk", "hook", "hookModules", "user"} /\ f.hook = "initialize"
    BY <2>1, <2>2 DEF Activating, Initializes, Unmaking, Constructing
  <2>4. f.inst \in 1 .. Len(record) /\ Len(record) \in Nat
    <3>1. f \in Frames(Len(record))
      BY <2>2, LevelTypeNext
    <3>2. QED BY <2>3, <3>1 DEF Frames, TypeInv, TypeOK
  <2>5. Descends(f, "initialize")
    BY <2>2, <2>3 DEF Fresh, MayCall, Counted
  <2>6. stack # <<>> /\ MayCall(Top, "initialize") /\ Top.t # "user"
    BY <2>4, <2>5 DEF Descends
  <2>7. Top.t # "forEach"
    BY <2>6, TopFields DEF MayCall, Looped
  <2>8. QED BY <2>6, <2>7 DEF MayCall, Activating
<1>4. QED BY <1>1, <1>2, <1>3 DEF Leaves

(* Every step creates, has no part in initializing, or advances it. *)
LEMMA InitCases ==
  ASSUME ConstructorsDoNotReenter, Footing, TypeInv', [Next]_vars, ~failed'
  PROVE  \/ Constructs
         \/ UNCHANGED record /\ Leaves
         \/ UNCHANGED <<registryVars, flagVars>> /\ Advances
<1> DEFINE n == Len(stack)
<1>0. TypeInv /\ NamesInv /\ OwnModules /\ Making
  BY DEF Footing
<1>1. CASE Wait \/ UNCHANGED vars
  <2>1. UNCHANGED <<stack, record>>
    BY <1>1
    DEF Wait, ResolveAsync, ResolveTimeout, WaitUntilInitialized, InitializationTimeout, vars,
        registryVars
  <2>2. n \in Nat
    BY <1>0, LenProperties DEF TypeInv, TypeOK
  <2>3. n <= n /\ n <= Len(stack') /\ Keeps(n) /\ \A c \in n + 1 .. Len(stack') : FALSE
    BY <2>1, <2>2 DEF Keeps
  <2>4. QED BY <2>1, <2>2, <2>3 DEF Leaves
<1>2. CASE ConstructReturns \/ ModulesDone
  <2>1. stack # <<>> /\ stack' = Rest /\ UNCHANGED record /\ (Top.t = "user" => UserReturns)
    BY <1>2 DEF ConstructReturns, ModulesDone, Returns, At, UserReturns
  <2>2. QED BY <1>0, <2>1, PopLeaves
<1>3. CASE ~(Wait \/ UNCHANGED vars) /\ ~Constructs /\ ~ConstructReturns /\ ~ModulesDone
  <2>1. Unmaking /\ Unmaking' /\ Runs /\ UNCHANGED record
    BY <1>0, <1>3, UnmakingStep
  <2>2. CASE stack # <<>> /\ Activating(Top)
    <3>1. n \in 1 .. n /\ Level(stack, n) = Top
      BY <1>0, <2>2, LevelPop
    <3>2. Top.t \in {"walk", "hook", "hookModules"} /\ Top.hook = "initialize"
      BY <2>1, <2>2, <3>1 DEF Activating, Unmaking
    <3>3. WalkNext \/ HookNext \/ HookModulesNext
      BY <1>3, <2>2, <3>2, OwingActs, HookModulesActs
    <3>4. QED
      BY <1>0, <2>1, <3>2, <3>3, WalkAdvances, HookAdvances, HookModulesAdvances
  <2>3. QED BY <1>0, <2>1, <2>2, OthersLeave
<1>4. QED BY <1>1, <1>2, <1>3

(* The level is where it was, and so is all under it. *)
Stays(c) ==
  /\ c \in 1 .. Len(stack)
  /\ \A d \in 1 .. c : d \in 1 .. Len(stack) /\ Level(stack', d) = Level(stack, d)

LEMMA LeavesStay ==
  ASSUME TypeInv, Leaves, NEW c \in 1 .. Len(stack'),
         Activating(Level(stack', c)) \/ Initializes(Level(stack', c))
  PROVE  Stays(c)
<1>1. PICK m \in Nat :
        /\ m <= Len(stack) /\ m <= Len(stack') /\ Keeps(m)
        /\ \A d \in m + 1 .. Len(stack') :
             ~Activating(Level(stack', d)) /\ ~Initializes(Level(stack', d))
  BY DEF Leaves
<1>2. Len(stack) \in Nat
  BY LenProperties DEF TypeInv, TypeOK
<1>3. c <= m
  BY <1>1
<1>4. c \in 1 .. Len(stack) /\ \A d \in 1 .. c : d \in 1 .. m /\ d \in 1 .. Len(stack)
  BY <1>1, <1>2, <1>3
<1>5. QED BY <1>1, <1>4 DEF Keeps, Stays

LEMMA LowStays ==
  ASSUME TypeInv, Keeps(Len(stack) - 1), NEW c \in 1 .. Len(stack) - 1
  PROVE  Stays(c)
<1>1. Len(stack) \in Nat
  BY LenProperties DEF TypeInv, TypeOK
<1>2. c \in 1 .. Len(stack)
        /\ \A d \in 1 .. c : d \in 1 .. Len(stack) - 1 /\ d \in 1 .. Len(stack)
  BY <1>1
<1>3. QED BY <1>2 DEF Keeps, Stays

(* The levels where initializing goes on. *)
LEMMA AdvancesStay ==
  ASSUME TypeInv, Advances
  PROVE  /\ stack # <<>> /\ Len(stack) \in Nat \ {0} /\ Keeps(Len(stack) - 1)
         /\ Level(stack, Len(stack)) = Top /\ Activating(Top)
         /\ Len(stack') \in Nat
         /\ \A c \in 1 .. Len(stack') : Stays(c) \/ c = Len(stack) \/ c = Len(stack) + 1
<1> DEFINE n == Len(stack)
<1>1. /\ stack # <<>> /\ Keeps(n - 1) /\ (Len(stack') = n \/ Len(stack') = n + 1)
      /\ InitWalk(Top) \/ Visits(Top)
  BY DEF Advances, Visit, Initialize, PassModule, InitializeModule, Onward, Spawns, Turns
<1>2. n \in Nat \ {0} /\ Level(stack, n) = Top
  BY <1>1, LevelPop
<1>3. Activating(Top)
  BY <1>1 DEF Activating, InitWalk, Visits
<1>4. ASSUME NEW c \in 1 .. Len(stack')
      PROVE  Stays(c) \/ c = n \/ c = n + 1
  <2>1. c \in 1 .. n - 1 \/ c = n \/ c = n + 1
    BY <1>1, <1>2
  <2>2. QED BY <1>1, <2>1, LowStays
<1>5. QED BY <1>1, <1>2, <1>3, <1>4

LEMMA CreatesStay ==
  ASSUME TypeInv, Constructs, ~failed', NEW c \in 1 .. Len(stack')
  PROVE  Stays(c) \/ Again(c) \/ Anew(c)
<1> DEFINE n == Len(stack)
<1>1. /\ Keeps(n - 1) /\ n \in Nat
      /\ \/ c \in 1 .. n /\ Level(stack', c) = Level(stack, c)
         \/ Again(c) \/ Anew(c)
  BY ConstructsBuild
<1>2. CASE c \in 1 .. n /\ Level(stack', c) = Level(stack, c)
  <2>1. c \in 1 .. n - 1 \/ c = n
    BY <1>1, <1>2
  <2>2. CASE c = n
    <3>1. \A d \in 1 .. c : d \in 1 .. n /\ (d \in 1 .. n - 1 \/ d = c)
      BY <1>1, <2>2
    <3>2. QED BY <1>1, <1>2, <3>1 DEF Keeps, Stays
  <2>3. QED BY <1>1, <2>1, <2>2, LowStays
<1>3. QED BY <1>1, <1>2

(* What a walk newly on the stack is about, and lies on. *)
LEMMA NewWalk ==
  ASSUME TypeInv, Constructs, ~failed', NEW c \in 1 .. Len(stack'),
         InitWalk(Level(stack', c)), ~Stays(c)
  PROVE  /\ Adds(0) /\ OwnWalk(Level(stack', c), Len(record) + 1)
         /\ stack = <<>> \/ Top.t # "modules"
         /\ \A d \in 1 .. c - 1 :
              Stays(d) \/ Level(stack', d).t \in {"profile", "startIfStarted"}
<1> DEFINE n == Len(stack)
<1>1. n \in Nat /\ Level(stack', c).t = "walk"
  BY LenProperties DEF InitWalk, TypeInv, TypeOK
<1>2. ASSUME NEW m \in Nat, Begins(m), Adds(0), Keeps(n - 1), m = n \/ m = n + 1,
             n # 0 => (m = n => Level(stack', n).t = "profile"),
             m = n + 1 => Keeps(n) /\ Level(stack', n + 1).t = "startIfStarted",
             m = n => n # 0,
             stack = <<>> \/ Top.t # "modules"
      PROVE  /\ Adds(0) /\ OwnWalk(Level(stack', c), Len(record) + 1)
             /\ stack = <<>> \/ Top.t # "modules"
             /\ \A d \in 1 .. c - 1 :
                  Stays(d) \/ Level(stack', d).t \in {"profile", "startIfStarted"}
  <2>1. /\ Len(stack') = m + 3 /\ Level(stack', m + 1) = Walk("initialize", Len(record) + 1, 0)
        /\ Level(stack', m + 2).t = "modules" /\ Level(stack', m + 3).t = "user"
    BY <1>2 DEF Begins, User, About
  <2>2. c # m + 2 /\ c # m + 3
    BY <1>1, <2>1
  <2>3. c <= m + 1
    BY <1>2, <2>1, <2>2
  <2>4. ASSUME NEW d \in 1 .. m
        PROVE  Stays(d) \/ Level(stack', d).t \in {"profile", "startIfStarted"}
    <3>1. CASE d \in 1 .. n - 1
      BY <1>2, <3>1, LowStays
    <3>2. CASE d = n
      <4>1. CASE m = n
        BY <1>2, <3>2, <4>1
      <4>2. CASE m = n + 1
        <5>1. \A e \in 1 .. d : e \in 1 .. n
          BY <1>1, <3>2
        <5>2. d \in 1 .. n
          BY <1>1, <3>2
        <5>3. QED BY <1>2, <3>2, <4>2, <5>1, <5>2 DEF Keeps, Stays
      <4>3. QED BY <1>2, <4>1, <4>2
    <3>3. CASE d = n + 1
      <4>1. m = n + 1
        BY <1>1, <1>2, <3>3
      <4>2. QED BY <1>2, <3>3, <4>1
    <3>4. QED BY <1>1, <1>2, <3>1, <3>2, <3>3
  <2>5. c = m + 1
    <3>1. c \notin 1 .. m
      BY <1>1, <2>4
    <3>2. QED BY <1>2, <2>3, <3>1
  <2>6. OwnWalk(Level(stack', c), Len(record) + 1)
    BY <2>1, <2>5 DEF OwnWalk, Walk, About
  <2>7. \A d \in 1 .. c - 1 : d \in 1 .. m
    BY <1>2, <2>5
  <2>8. QED BY <1>2, <2>4, <2>6, <2>7
<1>3. CASE ProfileCreates
  <2>1. n # 0
    BY <1>3, LevelPop DEF ProfileCreates
  <2>2. n # n + 1
    BY <1>1
  <2>3. QED BY <1>1, <1>2, <1>3, <2>1, <2>2 DEF ProfileCreates
<1>4. CASE RegisterCreates
  <2>1. stack = <<>> \/ Top.t # "modules"
    BY <1>4 DEF RegisterCreates, Calls, At
  <2>2. n + 1 \in Nat /\ n + 1 # n /\ \A d \in 1 .. n - 1 : d \in 1 .. n
    BY <1>1
  <2>3. Keeps(n) /\ Keeps(n - 1)
    BY <1>4, <2>2 DEF RegisterCreates, Keeps
  <2>4. Level(stack', n + 1).t = "startIfStarted" /\ Begins(n + 1) /\ Adds(0)
    BY <1>4 DEF RegisterCreates, StartIfStarted, About
  <2>5. QED BY <1>2, <2>1, <2>2, <2>3, <2>4
<1>5. CASE Skips \/ ModulesCreate
  <2>1. /\ Keeps(n - 1) /\ stack # <<>>
        /\ Level(stack', n).t \in {"profile", "modules"}
        /\ \/ Len(stack') = n
           \/ Len(stack') = n + 1 /\ Level(stack', n + 1).t = "user"
    BY <1>5 DEF Skips, ModulesCreate, User, About
  <2>2. c # n /\ c # n + 1
    BY <1>1, <2>1
  <2>3. c \in 1 .. n - 1
    BY <1>1, <2>1, <2>2
  <2>4. QED BY <2>1, <2>3, LowStays
<1>6. QED BY <1>3, <1>4, <1>5, ConstructsLevels

(* When a top-level registration is made, nothing is owed to anyone. *)
LEMMA Idle ==
  ASSUME ConstructorsDoNotReenter, Footing, Unmeddled, Constructs, Meddles => ~Initializing,
         stack = <<>> \/ Top.t # "modules"
  PROVE  /\ \A b \in 1 .. Len(stack) :
              ~Activating(Level(stack, b)) /\ ~Initializes(Level(stack, b))
         /\ records \subseteq isInitialized
<1> DEFINE n == Len(stack)
<1>1. TypeInv /\ Linked /\ AllDue({"initialize"})
  BY DEF Footing
<1>2. ASSUME stack # <<>>
      PROVE  /\ n \in Nat \ {0} /\ n \in 1 .. n /\ Level(stack, n) = Top
             /\ \A b \in 1 .. n : b <= n /\ \A d \in b .. n : d \in 1 .. n
    BY <1>1, <1>2, LevelPop
<1>3. ~Initializing /\ (stack # <<>> => ~Activating(Top))
  <2>1. CASE stack # <<>> /\ Top.t = "profile"
    <3>1. Meddling(Top) /\ ~Activating(Top)
      BY <2>1 DEF Meddling, Activating, Constructing
    <3>2. QED BY <1>2, <2>1, <3>1 DEF Unmeddled, Initializing
  <2>2. CASE stack = <<>> \/ Top.t # "profile"
    <3>1. \E s \in Service : Register(s)
      BY <2>2 DEF Constructs, ProfileNext, ModulesNext, At
    <3>2. stack # <<>> => ~Activating(Top)
      BY <3>1
      DEF Register, Calls, At, Activating, Constructing, ConstructorsDoNotReenter, Operation
    <3>3. QED BY <3>1, <3>2 DEF Meddles
  <2>3. QED BY <2>1, <2>2
<1>4. ASSUME NEW b \in 1 .. n
      PROVE  ~Activating(Level(stack, b)) /\ ~Initializes(Level(stack, b))
  <2>1. stack # <<>>
    BY <1>1, LenProperties DEF TypeInv, TypeOK
  <2>2. QED BY <1>1, <1>2, <1>3, <2>1 DEF Linked, Initializing
<1>5. ASSUME NEW i \in records PROVE i \in isInitialized
  <2>1. Due("initialize", i)
    BY <1>1 DEF AllDue
  <2>2. ASSUME NEW b \in 1 .. n, Owes(Level(stack, b), "initialize", i, record[i].parent)
        PROVE  FALSE
    BY <1>4, <2>2 DEF Owes, Activating, Initializes
  <2>3. QED BY <2>1, <2>2 DEF Due, OwedIn, Flagged
<1>6. QED BY <1>4, <1>5

(* When a module is made, something is owed to its family alone. *)
LEMMA FamilyOwed ==
  ASSUME Footing, Alone, stack # <<>>, Top.t = "modules", NEW i \in records
  PROVE  i \in isInitialized \/ i \in Family(Top.inst)
<1> DEFINE n == Len(stack)
           p == Top.inst
<1>1. TypeInv /\ Flat /\ AllDue({"initialize"})
  BY DEF Footing
<1>2. n \in Nat \ {0} /\ n \in 1 .. n /\ Level(stack, n) = Top
  BY <1>1, LevelPop
<1>3. n > 1 /\ OwnWalk(Level(stack, n - 1), p)
  BY <1>1, <1>2 DEF Flat
<1>4. n - 1 \in 1 .. n /\ \A b \in 1 .. n : b = n \/ b = n - 1 \/ b < n - 1
  BY <1>2, <1>3
<1>5. Due("initialize", i) /\ i \in Created
  BY <1>1 DEF AllDue, TypeInv, Bounded
<1>6. ASSUME NEW b \in 1 .. n, Owes(Level(stack, b), "initialize", i, record[i].parent)
      PROVE  i \in Family(p)
  <2>1. Activating(Level(stack, b)) \/ Initializes(Level(stack, b))
    BY <1>6 DEF Owes, Activating, Initializes
  <2>2. InitWalk(Level(stack, n - 1))
    BY <1>3 DEF OwnWalk, InitWalk
  <2>3. b = n - 1
    <3>1. ~(b < n - 1)
      BY <1>4, <2>1, <2>2 DEF Alone
    <3>2. b # n
      BY <1>2, <1>6 DEF Owes
    <3>3. QED BY <1>4, <3>1, <3>2
  <2>4. i = p \/ record[i].parent = p
    BY <1>3, <1>6, <2>3 DEF Owes, OwnWalk
  <2>5. QED BY <1>5, <2>4 DEF Family, OwnOf
<1>7. QED BY <1>5, <1>6 DEF Due, OwedIn, Flagged

(* Nothing is destroyed while something is being activated. *)
LEMMA NoDestroy ==
  ASSUME TypeInv, Linked, Unmeddled, NEW b \in 1 .. Len(stack), Activating(Level(stack, b))
  PROVE  ~DestroyReturns
<1> DEFINE n == Len(stack)
<1> SUFFICES ASSUME DestroyReturns PROVE FALSE
  OBVIOUS
<1>1. stack # <<>> /\ Leaving(Top)
  BY DEF DestroyReturns, Returns, At, Leaving
<1>2. /\ n \in 1 .. n /\ Level(stack, n) = Top /\ b <= n
      /\ \A d \in b .. n : d \in 1 .. n /\ d <= n
  BY <1>1, LevelPop
<1>3. ~Activating(Top) /\ Meddling(Top)
  BY <1>1 DEF Activating, Constructing, Leaving, Meddling
<1>4. PICK d \in b .. n : Initializes(Level(stack, d))
  BY <1>2, <1>3 DEF Linked
<1>5. QED BY <1>2, <1>3, <1>4 DEF Unmeddled

(* The loops over a record's modules find its list as they left it. *)
LEMMA ListsFixed ==
  ASSUME Footing, Alone, Unmeddled, [Next]_vars, ~failed',
         NEW b \in 1 .. Len(stack), Visits(Level(stack, b))
  PROVE  serviceModules' = serviceModules
<1> DEFINE n == Len(stack)
<1>1. TypeInv /\ Flat /\ Linked /\ Activating(Level(stack, b))
  BY DEF Footing, Visits, Activating
<1>2. ~DestroyReturns
  BY <1>1, NoDestroy
<1>3. CASE Constructs
  <2>1. ASSUME NEW p \in 0 .. Len(record), Adds(p), p # 0
        PROVE  FALSE
    <3>1. CASE stack # <<>> /\ Top.t = "modules"
      <4>1. n \in Nat \ {0} /\ n \in 1 .. n /\ Level(stack, n) = Top
        BY <1>1, <3>1, LevelPop
      <4>2. n > 1 /\ InitWalk(Level(stack, n - 1))
        BY <1>1, <3>1, <4>1 DEF Flat, OwnWalk, InitWalk
      <4>3. n - 1 \in 1 .. n /\ (b = n \/ b = n - 1 \/ b < n - 1)
        BY <4>1, <4>2
      <4>4. b # n /\ b # n - 1
        BY <3>1, <4>1, <4>2 DEF Visits, InitWalk
      <4>5. QED BY <1>1, <4>2, <4>3, <4>4 DEF Alone
    <3>2. CASE ~(stack # <<>> /\ Top.t = "modules")
      <4>1. CASE Skips
        <5>1. Len(record') = Len(record) + 1 /\ Len(record) \in Nat
          <6>1. PICK r : record' = Append(record, r)
            BY <2>1 DEF Adds
          <6>2. QED BY <1>1, <6>1 DEF TypeInv, TypeOK
        <5>2. UNCHANGED record
          BY <4>1 DEF Skips, registryVars
        <5>3. QED BY <5>1, <5>2
      <4>2. CASE ProfileCreates \/ RegisterCreates
        <5>1. Adds(0)
          BY <4>2 DEF ProfileCreates, RegisterCreates
        <5>2. record'[Len(record) + 1].parent = 0 /\ record'[Len(record) + 1].parent = p
          <6>1. 0 \in 0 .. Len(record)
            BY <2>1
          <6>2. QED BY <1>1, <2>1, <5>1, <6>1, AddsOne
        <5>3. QED BY <2>1, <5>2
      <4>3. CASE ModulesCreate
        BY <3>2, <4>3 DEF ModulesCreate
      <4>4. QED BY <1>1, <1>3, <4>1, <4>2, <4>3, ConstructsLevels
    <3>3. QED BY <3>1, <3>2
  <2>2. QED BY <1>1, <1>3, <2>1, ConstructsAdd DEF Adds
<1>4. CASE ConstructReturns \/ ModulesDone
  BY <1>4 DEF ConstructReturns, ModulesDone
<1>5. CASE ~Constructs /\ ~ConstructReturns /\ ~ModulesDone
  BY <1>2, <1>5, RegistryKept DEF registryVars
<1>6. QED BY <1>3, <1>4, <1>5

(* What the walk owes to neither an instance of its tree nor to the one it  *)
(* is at is done.                                                          *)
LEMMA FamilyInitialized ==
  ASSUME Footing, Alone, Within, Intact, stack # <<>>, Visits(Top),
         NEW f, f = Level(stack, Len(stack) - 1),
         NEW k \in Family(f.inst), Top.t = "hook" => k # Top.inst,
         ~Owes(f, "initialize", k, record[k].parent)
  PROVE  k \in isInitialized /\ k \in records
<1> DEFINE n == Len(stack)
<1>1. TypeInv /\ AllKnown /\ AllDue({"initialize"})
  BY DEF Footing
<1>2. n \in Nat \ {0} /\ n \in 1 .. n /\ Level(stack, n) = Top
  BY <1>1, LevelPop
<1>3. n > 1 /\ InitWalk(f)
  BY <1>2 DEF Within, Visiting
<1>4. n - 1 \in 1 .. n /\ \A b \in 1 .. n : b = n \/ b = n - 1 \/ b < n - 1
  BY <1>2, <1>3
<1>5. k \in Created
  <2>1. f \in Frames(Len(record))
    BY <1>1, <1>4, LevelType
  <2>2. f.inst \in Created
    BY <1>3, <2>1 DEF Frames, InitWalk, Created
  <2>3. QED BY <2>2 DEF Family, OwnOf
<1>6. k \in records
  <2>1. k \in Known
    BY <1>1, <1>5 DEF AllKnown, Visits, Constructing
  <2>2. k \notin isDestroyed
    BY <1>3, <1>4 DEF Intact
  <2>3. QED BY <2>1, <2>2 DEF Known
<1>7. Due("initialize", k)
  BY <1>1, <1>6 DEF AllDue
<1>8. ASSUME NEW b \in 1 .. n, Owes(Level(stack, b), "initialize", k, record[k].parent)
      PROVE  FALSE
  <2>1. Activating(Level(stack, b)) \/ Initializes(Level(stack, b))
    BY <1>8 DEF Owes, Activating, Initializes
  <2>2. CASE b < n - 1
    BY <1>3, <1>4, <2>1, <2>2 DEF Alone
  <2>3. CASE b = n - 1
    BY <1>8, <2>3
  <2>4. CASE b = n
    BY <1>2, <1>8, <2>4 DEF Owes, Visits
  <2>5. QED BY <1>4, <2>2, <2>3, <2>4
<1>9. QED BY <1>6, <1>7, <1>8 DEF Due, OwedIn, Flagged

(* The walk that an advance moves is the one that was running. *)
LEMMA WalkGoesOn ==
  ASSUME TypeInv, Advances, NEW c \in 1 .. Len(stack'), InitWalk(Level(stack', c)), ~Stays(c)
  PROVE  c = Len(stack) /\ InitWalk(Top) /\ Level(stack', c).inst = Top.inst
<1> DEFINE n == Len(stack)
<1>1. n \in Nat \ {0} /\ (c = n \/ c = n + 1)
  BY AdvancesStay
<1>2. PICK j : Visit(j) \/ Initialize(j) \/ PassModule(j) \/ InitializeModule(j)
  BY DEF Advances
<1>3. CASE Visit(j)
  <2>1. /\ Level(stack', n + 1) = RunHook("initialize", j) /\ InitWalk(Top)
        /\ Level(stack', n) = Walk("initialize", Top.inst, j)
    BY <1>3 DEF Visit, Spawns
  <2>2. c # n + 1
    BY <2>1 DEF RunHook, About, InitWalk
  <2>3. Level(stack', n).inst = Top.inst
    BY <2>1 DEF Walk, About
  <2>4. QED BY <1>1, <2>1, <2>2, <2>3
<1>4. CASE Initialize(j) \/ InitializeModule(j)
  <2>1. Level(stack', n).t = "hookModules" /\ Level(stack', n + 1).t = "user"
    BY <1>4 DEF Initialize, InitializeModule, Spawns, User, RunHookModules, About
  <2>2. QED BY <1>1, <2>1 DEF InitWalk
<1>5. CASE PassModule(j)
  <2>1. Level(stack', n).t = "hookModules" /\ Len(stack') = n
    BY <1>5 DEF PassModule, Turns, RunHookModules, About
  <2>2. c = n
    BY <1>1, <2>1
  <2>3. QED BY <2>1, <2>2 DEF InitWalk
<1>6. QED BY <1>2, <1>3, <1>4, <1>5

LEMMA AloneStep ==
  ASSUME ConstructorsDoNotReenter, Footing, TypeInv', Alone, Unmeddled,
         Meddles => ~Initializing, [Next]_vars, ~failed'
  PROVE  Alone'
<1> DEFINE n == Len(stack)
<1>1. TypeInv
  BY DEF Footing
<1>2. ASSUME NEW c \in 1 .. Len(stack'), InitWalk(Level(stack', c)), NEW d \in 1 .. c - 1
      PROVE  ~Activating(Level(stack', d)) /\ ~Initializes(Level(stack', d))
  <2>1. CASE Stays(c)
    <3>1. /\ c \in 1 .. n /\ d \in 1 .. n /\ d < c
          /\ Level(stack', c) = Level(stack, c) /\ Level(stack', d) = Level(stack, d)
      <4>1. c \in 1 .. c /\ d \in 1 .. c /\ d < c
        BY <1>2
      <4>2. QED BY <2>1, <4>1 DEF Stays
    <3>2. QED BY <1>2, <3>1 DEF Alone
  <2>2. CASE Constructs /\ ~Stays(c)
    <3>1. /\ stack = <<>> \/ Top.t # "modules"
          /\ Stays(d) \/ Level(stack', d).t \in {"profile", "startIfStarted"}
      BY <1>1, <1>2, <2>2, NewWalk
    <3>2. CASE Stays(d)
      <4>1. d \in 1 .. n /\ Level(stack', d) = Level(stack, d)
        <5>1. d \in 1 .. d
          OBVIOUS
        <5>2. QED BY <3>2, <5>1 DEF Stays
      <4>2. QED BY <2>2, <3>1, <4>1, Idle
    <3>3. CASE Level(stack', d).t \in {"profile", "startIfStarted"}
      BY <3>3 DEF Activating, Initializes, Constructing
    <3>4. QED BY <3>1, <3>2, <3>3
  <2>3. CASE Leaves
    <3>1. Stays(c)
      BY <1>1, <1>2, <2>3, LeavesStay DEF Activating, InitWalk
    <3>2. QED BY <2>1, <3>1
  <2>4. CASE Advances /\ ~Stays(c)
    <3>1. /\ n \in Nat \ {0} /\ Keeps(n - 1) /\ Level(stack, n) = Top /\ stack # <<>>
      BY <1>1, <2>4, AdvancesStay
    <3>2. c = n /\ InitWalk(Top)
      BY <1>1, <1>2, <2>4, WalkGoesOn
    <3>3. /\ d \in 1 .. n - 1 /\ d \in 1 .. n /\ n \in 1 .. n /\ d < n
      BY <3>1, <3>2
    <3>4. Level(stack', d) = Level(stack, d)
      BY <3>1, <3>3 DEF Keeps
    <3>5. QED BY <3>1, <3>2, <3>3, <3>4 DEF Alone
  <2>5. QED BY <2>1, <2>2, <2>3, <2>4, InitCases
<1>3. \A c, d \in 1 .. Len(stack') : d < c => d \in 1 .. c - 1
  OBVIOUS
<1>4. QED BY <1>2, <1>3 DEF Alone

LEMMA FamilyGrows ==
  ASSUME TypeInv, TypeInv', [Next]_vars, NEW p \in Created
  PROVE  /\ Family(p) \subseteq Family(p)' /\ TopLevel(p)' = TopLevel(p)
         /\ UNCHANGED record => Family(p)' = Family(p)
BY RecordsStay DEF Family, OwnOf, TopLevel, Created

LEMMA WithinStep ==
  ASSUME ConstructorsDoNotReenter, Footing, TypeInv', Within, [Next]_vars, ~failed'
  PROVE  Within'
<1> DEFINE n == Len(stack)
           After(p) == {p} \cup {j \in 1 .. Len(record') : record'[j].parent = p}
           Sees(f, i) == InitWalk(f) /\ f.n = i /\ i \in After(f.inst)
<1>0. \A p \in Created : Family(p) \subseteq After(p)
  <2> SUFFICES ASSUME NEW p \in Created PROVE Family(p) \subseteq After(p)
    OBVIOUS
  <2>1. Family(p) \subseteq Family(p)'
    BY FamilyGrows DEF Footing
  <2>2. QED BY <2>1 DEF Family, OwnOf, Created
<1> HIDE DEF After
<1>1. TypeInv
  BY DEF Footing
<1>2. ASSUME NEW c \in 1 .. Len(stack'), Visits(Level(stack', c))
      PROVE  c > 1 /\ Sees(Level(stack', c - 1), Level(stack', c).inst)
  <2>1. ASSUME NEW f, f \in Frames(Len(record)), NEW i, Visiting(f, i)
        PROVE  Sees(f, i)
    <3>1. f.inst \in Created
      BY <2>1 DEF Visiting, InitWalk, Frames, Created
    <3>2. QED BY <1>0, <2>1, <3>1 DEF Visiting
  <2>2. CASE Stays(c)
    <3>1. c \in 1 .. n /\ Level(stack', c) = Level(stack, c)
      <4>1. c \in 1 .. c
        OBVIOUS
      <4>2. QED BY <2>2, <4>1 DEF Stays
    <3>2. c > 1 /\ Visiting(Level(stack, c - 1), Level(stack, c).inst)
      BY <1>2, <3>1 DEF Within
    <3>3. c - 1 \in 1 .. c /\ c - 1 \in 1 .. n
      BY <3>1, <3>2
    <3>4. Level(stack', c - 1) = Level(stack, c - 1)
      BY <2>2, <3>3 DEF Stays
    <3>5. Level(stack, c - 1) \in Frames(Len(record))
      BY <1>1, <3>3, LevelType
    <3>6. QED BY <2>1, <3>1, <3>2, <3>4, <3>5
  <2>3. CASE Constructs
    <3>1. ~Again(c)
      BY <1>2 DEF Again, Visits
    <3>2. ~Anew(c)
      BY <1>2 DEF Anew, OwnWalk, Constructing, Visits
    <3>3. QED BY <1>1, <2>2, <2>3, <3>1, <3>2, CreatesStay
  <2>4. CASE Leaves
    <3>1. Stays(c)
      BY <1>1, <1>2, <2>4, LeavesStay DEF Activating, Visits
    <3>2. QED BY <2>2, <3>1
  <2>5. CASE Advances /\ ~Stays(c)
    <3>1. /\ n \in Nat \ {0} /\ Keeps(n - 1) /\ Level(stack, n) = Top /\ stack # <<>>
          /\ c = n \/ c = n + 1
      BY <1>1, <2>5, AdvancesStay
    <3>2. PICK j : Visit(j) \/ Initialize(j) \/ PassModule(j) \/ InitializeModule(j)
      BY <2>5 DEF Advances
    <3>3. CASE Visit(j)
      <4>1. /\ Level(stack', n) = Walk("initialize", Top.inst, j)
            /\ Level(stack', n + 1) = RunHook("initialize", j)
            /\ InitWalk(Top) /\ j \in {Top.inst} \cup modules[Top.inst]
        BY <3>3 DEF Visit, Spawns
      <4>2. c = n + 1
        <5>1. c # n
          BY <1>2, <4>1 DEF Walk, About, Visits
        <5>2. QED BY <3>1, <5>1
      <4>3. Top.inst \in Created /\ Top.inst \in Inst
        BY <1>1, <3>1, <4>1, TopFields DEF InitWalk
      <4>4. j \in Family(Top.inst)
        BY <4>1, <4>3 DEF Footing, OwnModules, Family
      <4>5. /\ Level(stack', n).t = "walk" /\ Level(stack', n).hook = "initialize"
            /\ Level(stack', n).inst = Top.inst /\ Level(stack', n).n = j
            /\ Level(stack', n + 1).inst = j
        BY <4>1 DEF Walk, RunHook, About
      <4>6. j \in After(Top.inst)
        BY <1>0, <4>3, <4>4
      <4>7. Sees(Level(stack', n), Level(stack', n + 1).inst)
        BY <4>5, <4>6 DEF InitWalk
      <4>8. c > 1 /\ c - 1 = n
        BY <3>1, <4>2
      <4>9. QED BY <4>2, <4>7, <4>8
    <3>4. CASE Initialize(j) \/ PassModule(j) \/ InitializeModule(j)
      <4>1. /\ Visits(Top)
            /\ Level(stack', n).inst = Top.inst
            /\ \/ Len(stack') = n
               \/ Level(stack', n + 1).t = "user"
        BY <3>4 DEF Initialize, PassModule, InitializeModule, Onward, Spawns, Turns, User,
                    RunHookModules, About
      <4>2. c = n
        BY <1>2, <3>1, <4>1 DEF Visits
      <4>3. n \in 1 .. n
        BY <3>1
      <4>4. n > 1 /\ Visiting(Level(stack, n - 1), Top.inst)
        BY <3>1, <4>1, <4>3 DEF Within
      <4>5. n - 1 \in 1 .. n - 1 /\ n - 1 \in 1 .. n
        BY <3>1, <4>4
      <4>6. Level(stack', n - 1) = Level(stack, n - 1)
        BY <3>1, <4>5 DEF Keeps
      <4>7. Level(stack, n - 1) \in Frames(Len(record))
        BY <1>1, <4>5, LevelType
      <4>8. QED BY <2>1, <4>1, <4>2, <4>4, <4>6, <4>7
    <3>5. QED BY <3>2, <3>3, <3>4
  <2>6. QED BY <2>2, <2>3, <2>4, <2>5, InitCases
<1>3. QED BY <1>2 DEF Within, Visiting, Family, OwnOf, Created, After

(* What a step adds on user code, or on a loop, that leaves the registry.   *)
LEMMA NothingMeddles ==
  ASSUME TypeInv, [Next]_vars, ~failed', ~Constructs, stack # <<>>, ~Meddling(Top), ~Meddles,
         NEW c \in 1 .. Len(stack'), Meddling(Level(stack', c))
  PROVE  Stays(c)
<1> DEFINE n == Len(stack)
<1>1. n \in Nat \ {0} /\ Level(stack, n) = Top
  BY LevelPop
<1>2. ASSUME \E f : ~Meddling(f) /\ stack' = <<f>> \o stack
      PROVE  Stays(c)
  <2>1. PICK f : ~Meddling(f) /\ stack' = <<f>> \o stack
    BY <1>2
  <2> DEFINE S == Frame \cup {f}
  <2>2. stack \in Seq(S) /\ f \in S
    <3>1. f \in S
      OBVIOUS
    <3>2. QED BY <3>1, SequencesGrow DEF TypeInv, TypeOK
  <2> HIDE DEF S
  <2>3. stack' = Pushed(f, stack)
    BY <2>1 DEF Pushed
  <2>4. /\ Len(stack') = n + 1 /\ Level(stack', n + 1) = f
        /\ \A b \in 1 .. n : Level(stack', b) = Level(stack, b)
    BY <2>2, <2>3, LevelPush
  <2>5. c # n + 1
    BY <1>2, <2>1, <2>4
  <2>6. c \in 1 .. n /\ \A d \in 1 .. c : d \in 1 .. n
    BY <1>1, <2>4, <2>5
  <2>7. QED BY <2>4, <2>6 DEF Stays
<1>3. ASSUME Keeps(n - 1), \A d \in n .. Len(stack') : ~Meddling(Level(stack', d)),
             Len(stack') \in Nat
      PROVE  Stays(c)
  <2>1. c \in 1 .. n - 1
    <3>1. c \notin n .. Len(stack')
      BY <1>3
    <3>2. QED BY <1>1, <1>3, <3>1
  <2>2. QED BY <1>3, <2>1, LowStays
<1>4. ASSUME stack' = Rest PROVE Stays(c)
  <2>1. Len(stack') = n - 1 /\ Keeps(n - 1)
    BY <1>4, LevelPop DEF Keeps
  <2>2. c \in 1 .. n - 1
    BY <2>1
  <2>3. QED BY <2>1, <2>2, LowStays
<1>5. CASE Wait \/ UNCHANGED vars
  <2>1. stack' = stack
    BY <1>5
    DEF Wait, ResolveAsync, ResolveTimeout, WaitUntilInitialized, InitializationTimeout, vars
  <2>2. c \in 1 .. n /\ \A d \in 1 .. c : d \in 1 .. n
    BY <1>1, <2>1
  <2>3. QED BY <2>1, <2>2 DEF Stays
<1>6. CASE Start \/ Tick \/ Reset
  <2>1. \A h, S : ~Meddling(ForEach(h, S))
    BY DEF Meddling, Leaving, ForEach, About
  <2>2. QED BY <1>2, <1>6, <2>1 DEF Start, Tick, Reset
<1>7. CASE UserReturns \/ ProfileDone \/ ModulesDone
  <2>1. stack' = Rest
    BY <1>7 DEF UserReturns, ConstructReturns, InitializeReturns, StartReturns, CallbackReturns,
                DestroyReturns, Returns, ProfileDone, ModulesDone
  <2>2. QED BY <1>4, <2>1
<1>8. CASE WalkNext \/ StartIfStartedNext \/ HookNext \/ HookModulesNext
             \/ (ForEachNext /\ Top.hook = "start")
  <2>1. Looping /\ (Top.t = "forEach" => Top.hook = "start")
    BY <1>8
    DEF Looping, WalkNext, StartIfStartedNext, HookNext, HookModulesNext, ForEachNext, At
  <2>2. CASE ~(Wait \/ UNCHANGED vars)
    <3>1. /\ Len(stack') \in Nat /\ Keeps(n - 1)
          /\ \A d \in n .. Len(stack') : Succeeds(Level(stack', d))
      BY <2>1, <2>2, LoopingSucceeds
    <3>2. ASSUME NEW f, Succeeds(f) PROVE ~Meddling(f)
      <4>1. Top.t \in {"walk", "hook", "hookModules"} => Top.hook \in {"initialize", "start"}
        BY TopFields
      <4>2. QED
        BY <3>2, <4>1
        DEF Succeeds, Meddling, Leaving, Walk, RunHook, User, RunHookModules, ForEach, About
    <3>3. QED BY <1>3, <3>1, <3>2
  <2>3. QED BY <1>5, <2>2
<1>9. CASE ForEachNext /\ Top.hook # "start"
  <2>1. Top.hook \in {"update", "reset"}
    BY <1>9, TopFields DEF ForEachNext, At, Looped
  <2>2. \/ \E i \in Top.insts :
             stack' = <<User(Top.hook, i), ForEach(Top.hook, Top.insts \ {i})>> \o Rest
        \/ stack' = Rest
    BY <1>9 DEF ForEachNext
  <2>3. ASSUME NEW i \in Top.insts,
               stack' = <<User(Top.hook, i), ForEach(Top.hook, Top.insts \ {i})>> \o Rest
        PROVE  Stays(c)
    <3> DEFINE f == User(Top.hook, i)
               g == ForEach(Top.hook, Top.insts \ {i})
    <3>1. ~Meddling(f) /\ ~Meddling(g)
      BY <2>1 DEF Meddling, Leaving, User, ForEach, About
    <3>2. Spawns(f, g)
      BY <2>3, HeadMoves
    <3> HIDE DEF f, g
    <3>3. \A d \in n .. Len(stack') : d = n \/ d = n + 1
      BY <1>1, <3>2 DEF Spawns
    <3>4. Keeps(n - 1) /\ Len(stack') \in Nat
      BY <1>1, <3>2 DEF Spawns
    <3>5. \A d \in n .. Len(stack') : ~Meddling(Level(stack', d))
      BY <3>1, <3>2, <3>3 DEF Spawns
    <3>6. QED BY <1>3, <3>4, <3>5
  <2>4. QED BY <1>4, <2>2, <2>3
<1>10. ~(InitializeProfile \/ Dispose \/ \E i \in records : Unregister(i))
  BY DEF Meddles
<1>11. ~(DisposeAllNext \/ DisposeNext \/ DisposeModulesNext \/ DestroyNext \/ UserThrows)
  BY DEF Meddling, DisposeAllNext, DisposeNext, DisposeModulesNext, DestroyNext, At, UserThrows,
         Throw
<1>12. QED
  BY <1>5, <1>6, <1>7, <1>8, <1>9, <1>10, <1>11
  DEF Next, Advance, Call, Constructs, UserReturns

(* The walk that the running loop belongs to. *)
LEMMA WalkAt ==
  ASSUME Footing, Within, Intact, stack # <<>>, Visits(Top),
         NEW f, f = Level(stack, Len(stack) - 1)
  PROVE  /\ InitWalk(f) /\ f.n = Top.inst /\ Top.inst \in Family(f.inst)
         /\ TopLevel(f.inst) /\ f.inst \in Created /\ Top.inst \in Created
         /\ Created \subseteq Nat \ {0}
         /\ Len(stack) \in 1 .. Len(stack) /\ Level(stack, Len(stack)) = Top
         /\ Len(stack) - 1 \in 1 .. Len(stack)
<1> DEFINE n == Len(stack)
<1>1. TypeInv
  BY DEF Footing
<1>2. n \in Nat \ {0} /\ n \in 1 .. n /\ Level(stack, n) = Top
  BY <1>1, LevelPop
<1>3. n > 1 /\ Visiting(f, Top.inst)
  BY <1>2 DEF Within
<1>4. n - 1 \in 1 .. n
  BY <1>2, <1>3
<1>5. f \in Frames(Len(record))
  BY <1>1, <1>4, LevelType
<1>6. f.inst \in Created /\ Top.inst \in Created
  BY <1>1, <1>3, <1>5, TopFields DEF Visiting, InitWalk, Visits, Frames, Created
<1>7. Created \subseteq Nat \ {0}
  BY DEF Created
<1>8. TopLevel(f.inst)
  BY <1>3, <1>4 DEF Intact, Visiting
<1>9. QED BY <1>2, <1>3, <1>4, <1>6, <1>7, <1>8 DEF Visiting

(* A record is constructed with what is initialized before it. *)
LEMMA HookServed ==
  ASSUME Footing, Alone, Within, Intact, Based, NEW i, Initialize(i)
  PROVE  record[i].deps \subseteq isInitialized
<1> DEFINE f == Level(stack, Len(stack) - 1)
<1>1. /\ TypeInv /\ OwnModules /\ stack # <<>> /\ Visits(Top) /\ Top.t = "hook" /\ i = Top.inst
  BY DEF Footing, Initialize
<1>2. /\ InitWalk(f) /\ f.n = i /\ i \in Family(f.inst)
      /\ TopLevel(f.inst) /\ f.inst \in Created /\ i \in Created /\ Created \subseteq Nat \ {0}
  BY <1>1, WalkAt
<1> HIDE DEF f
<1>3. CASE TopLevel(i)
  BY <1>2, <1>3 DEF Based, Kin
<1>4. CASE ~TopLevel(i)
  <2>1. record[i].parent = f.inst
    BY <1>2, <1>4 DEF Family, OwnOf
  <2>2. ASSUME NEW k \in Kin(i) PROVE k \in isInitialized
    <3>1. k \in Family(f.inst) /\ k \in Created
      BY <1>2, <1>4, <2>1, <2>2 DEF Kin, Family, OwnOf
    <3>2. k < i
      BY <1>1, <1>2, <1>4, <2>1, <2>2 DEF Kin, OwnModules
    <3>3. k # i /\ ~(i < k) /\ i # 0
      BY <1>2, <3>1, <3>2
    <3>4. ~Owes(f, "initialize", k, record[k].parent)
      BY <1>2, <3>3 DEF Owes, InitWalk
    <3>5. QED BY <1>1, <3>1, <3>3, <3>4, FamilyInitialized DEF f
  <2>3. QED BY <1>2, <2>2 DEF Based
<1>5. QED BY <1>3, <1>4

(* So is a module. *)
LEMMA ModuleServed ==
  ASSUME Footing, Alone, Within, Intact, Progress, Based, NEW j, InitializeModule(j)
  PROVE  record[j].deps \subseteq isInitialized
<1> DEFINE n == Len(stack)
           f == Level(stack, n - 1)
           g == Top.inst
           ms == serviceModules[g]
<1>1. /\ TypeInv /\ OwnModules /\ stack # <<>> /\ Visits(Top) /\ Top.t = "hookModules"
      /\ Top.n \in 1 .. Len(ms) /\ j = ms[Top.n]
  BY DEF Footing, InitializeModule, Onward
<1>2. /\ InitWalk(f) /\ f.n = g /\ g \in Family(f.inst)
      /\ TopLevel(f.inst) /\ f.inst \in Created /\ g \in Created /\ Created \subseteq Nat \ {0}
      /\ n \in 1 .. n /\ Level(stack, n) = Top /\ n - 1 \in 1 .. n
  BY <1>1, WalkAt
<1>3. g \in Inst
  BY <1>1, TopFields
<1>4. Len(ms) \in Nat /\ j \in OwnOf(g) /\ \A l \in 1 .. Len(ms) : ms[l] \in Created
  BY <1>1, <1>3, EntriesType DEF Entries
<1> HIDE DEF f
<1>5. j \in Created /\ record[j].parent = g /\ ~TopLevel(j)
  BY <1>2, <1>4 DEF OwnOf, TopLevel
<1>6. TopLevel(g)
  BY <1>5 DEF Footing, Flat
<1>7. g = f.inst
  BY <1>2, <1>6 DEF Family, OwnOf, TopLevel
<1>8. g \in isInitialized
  <2>1. ~Owes(f, "initialize", g, record[g].parent)
    BY <1>2, <1>6 DEF Owes, InitWalk, TopLevel
  <2>2. QED BY <1>1, <1>2, <2>1, FamilyInitialized DEF f
<1>9. ASSUME NEW k \in OwnOf(g), k < j PROVE k \in isInitialized
  <2>1. k \in Created /\ record[k].parent = g
    BY <1>9 DEF OwnOf
  <2>2. k \in records
    <3>1. k \in Known
      BY <1>1, <2>1 DEF Footing, AllKnown, Visits, Constructing
    <3>2. k \notin isDestroyed
      BY <1>2, <1>7, <1>9 DEF Intact, Family, f
    <3>3. QED BY <3>1, <3>2 DEF Known
  <2>3. Listed(k)
    BY <1>2, <2>1, <2>2 DEF Footing, Followed, Follows
  <2>4. PICK l \in 1 .. Len(ms) : ms[l] = k
    BY <2>1, <2>3 DEF Listed
  <2>5. l < Top.n
    <3>1. Increasing(ms)
      BY <1>3 DEF Footing, Ordered
    <3>2. Top.n < l => j < k
      BY <1>1, <2>4, <3>1 DEF Increasing
    <3>3. j # k /\ ~(j < k)
      BY <1>2, <1>5, <1>9, <2>1
    <3>4. l # Top.n
      BY <1>1, <2>4, <3>3
    <3>5. QED BY <1>1, <1>4, <3>2, <3>3, <3>4
  <2>6. Passed(n, l)
    BY <1>1, <1>2, <2>4, <2>5 DEF Progress
  <2>7. ~(n < Len(stack))
    BY <1>2
  <2>8. QED BY <1>2, <2>4, <2>6, <2>7 DEF Passed
<1>10. Kin(j) \subseteq isInitialized
  BY <1>5, <1>8, <1>9 DEF Kin
<1>11. QED BY <1>5, <1>10 DEF Based

(* An initialize() that enters does so on its loop. *)
LEMMA NewInitialize ==
  ASSUME ConstructorsDoNotReenter, Footing, TypeInv', [Next]_vars, ~failed',
         NEW b \in 1 .. Len(stack'), Initializes(Level(stack', b)), ~Stays(b)
  PROVE  /\ Len(stack) \in Nat \ {0} /\ b = Len(stack) + 1 /\ Len(stack') = b
         /\ \E j \in Created :
              (Initialize(j) \/ InitializeModule(j)) /\ Level(stack', b) = User("initialize", j)
<1> DEFINE n == Len(stack)
<1>1. TypeInv
  BY DEF Footing
<1>2. ~Constructs
  <2>1. ~Again(b)
    BY DEF Again, Initializes
  <2>2. ~Anew(b)
    BY DEF Anew, OwnWalk, Constructing, Initializes
  <2>3. QED BY <1>1, <2>1, <2>2, CreatesStay
<1>3. ~Leaves
  BY <1>1, LeavesStay
<1>4. Advances
  BY <1>2, <1>3, InitCases
<1>5. n \in Nat \ {0} /\ (b = n \/ b = n + 1)
  BY <1>1, <1>4, AdvancesStay
<1>6. PICK j \in Created : Visit(j) \/ Initialize(j) \/ PassModule(j) \/ InitializeModule(j)
  BY <1>4 DEF Advances
<1>7. ~Visit(j)
  BY <1>5 DEF Visit, Spawns, Walk, RunHook, About, Initializes
<1>8. ~PassModule(j)
  <2> SUFFICES ASSUME PassModule(j) PROVE FALSE
    OBVIOUS
  <2>1. Len(stack') = n /\ Level(stack', n).t = "hookModules"
    BY DEF PassModule, Turns, RunHookModules, About
  <2>2. b = n
    BY <1>5, <2>1
  <2>3. QED BY <2>1, <2>2 DEF Initializes
<1>9. /\ Level(stack', n).t = "hookModules" /\ Level(stack', n + 1) = User("initialize", j)
      /\ Len(stack') = n + 1 /\ (Initialize(j) \/ InitializeModule(j))
  BY <1>6, <1>7, <1>8 DEF Initialize, InitializeModule, Spawns, RunHookModules, About
<1>10. b = n + 1
  BY <1>5, <1>9 DEF Initializes
<1>11. QED BY <1>5, <1>9, <1>10

(* User code that initialize() runs finds what it was constructed with. *)
LEMMA ServedBy ==
  ASSUME ConstructorsDoNotReenter, Footing, TypeInv', Alone, Within, Intact, Progress, Based,
         Served, [Next]_vars, ~failed', NEW b \in 1 .. Len(stack'), Initializes(Level(stack', b))
  PROVE  /\ Level(stack', b).inst \in Created
         /\ record[Level(stack', b).inst].deps \subseteq isInitialized
<1> DEFINE f == Level(stack', b)
<1>1. CASE Stays(b)
  <2>1. b \in 1 .. b
    OBVIOUS
  <2>2. b \in 1 .. Len(stack) /\ f = Level(stack, b)
    BY <1>1, <2>1 DEF Stays
  <2>3. f.inst \in Created
    BY <2>2, LevelType DEF Footing, Initializes
  <2>4. QED BY <2>2, <2>3 DEF Served
<1>2. CASE ~Stays(b)
  <2>1. PICK j \in Created :
          (Initialize(j) \/ InitializeModule(j)) /\ f = User("initialize", j)
    BY <1>2, NewInitialize
  <2>2. record[j].deps \subseteq isInitialized
    BY <2>1, HookServed, ModuleServed
  <2>3. QED BY <2>1, <2>2 DEF User, About
<1>3. QED BY <1>1, <1>2

LEMMA ServedStep ==
  ASSUME ConstructorsDoNotReenter, Footing, TypeInv', Alone, Within, Intact, Progress, Based,
         Served, [Next]_vars, ~failed'
  PROVE  Served'
<1>1. isInitialized \subseteq isInitialized' /\ \A i \in Created : record'[i] = record[i]
  BY FlagsGrow, RecordsStay DEF Footing
<1>2. ASSUME NEW b \in 1 .. Len(stack'), Initializes(Level(stack', b))
      PROVE  record'[Level(stack', b).inst].deps \subseteq isInitialized'
  <2>1. /\ Level(stack', b).inst \in Created
        /\ record[Level(stack', b).inst].deps \subseteq isInitialized
    BY <1>2, ServedBy
  <2>2. QED BY <1>1, <2>1
<1>3. QED BY <1>2 DEF Served

LEMMA UnmeddledStep ==
  ASSUME ConstructorsDoNotReenter, Footing, TypeInv', Unmeddled, Meddles => ~Initializing,
         [Next]_vars, ~failed'
  PROVE  Unmeddled'
<1> DEFINE n == Len(stack)
<1>1. TypeInv
  BY DEF Footing
<1>2. ASSUME NEW b \in 1 .. Len(stack'), NEW c \in 1 .. Len(stack'), b <= c,
             Initializes(Level(stack', b)), Meddling(Level(stack', c))
      PROVE  FALSE
  <2>1. CASE ~Stays(b)
    <3>1. c = b
      BY <1>2, <2>1, NewInitialize
    <3>2. QED BY <1>2, <3>1 DEF Initializes, Meddling, Leaving
  <2>2. CASE Stays(b)
    <3>1. b \in 1 .. b
      OBVIOUS
    <3>2. b \in 1 .. n /\ Initializes(Level(stack, b))
      BY <1>2, <2>2, <3>1 DEF Stays
    <3>3. ~Meddles
      BY <3>2 DEF Initializing
    <3>4. stack # <<>> /\ ~Meddling(Top)
      <4>1. stack # <<>>
        BY <1>1, <3>2, LenProperties DEF TypeInv, TypeOK
      <4>2. n \in 1 .. n /\ b <= n /\ Level(stack, n) = Top
        BY <1>1, <3>2, <4>1, LevelPop
      <4>3. QED BY <3>2, <4>1, <4>2 DEF Unmeddled
    <3>5. ~Stays(c)
      <4> SUFFICES ASSUME Stays(c) PROVE FALSE
        OBVIOUS
      <4>1. c \in 1 .. c
        OBVIOUS
      <4>2. c \in 1 .. n /\ Level(stack', c) = Level(stack, c)
        BY <4>1 DEF Stays
      <4>3. QED BY <1>2, <3>2, <4>2 DEF Unmeddled
    <3>6. CASE Constructs
      <4>1. ~Again(c)
        BY <1>2, <3>4 DEF Again, Meddling, Leaving
      <4>2. ~Anew(c)
        BY <1>2 DEF Anew, OwnWalk, Constructing, Meddling, Leaving
      <4>3. QED BY <1>1, <3>5, <3>6, <4>1, <4>2, CreatesStay
    <3>7. CASE ~Constructs
      BY <1>1, <1>2, <3>3, <3>4, <3>5, <3>7, NothingMeddles
    <3>8. QED BY <3>6, <3>7
  <2>3. QED BY <2>1, <2>2
<1>3. QED BY <1>2 DEF Unmeddled, Meddling, Initializes, Leaving

(* A step adds one instance to a family at most. *)
LEMMA FamilyAdds ==
  ASSUME TypeInv, TypeInv', Constructs, ~failed'
  PROVE  /\ \A p \in Created : Family(p)' \subseteq Family(p) \cup {Len(record) + 1}
         /\ Adds(0) => \A p : p = Len(record) + 1 => Family(p)' = {p}
<1> DEFINE L == Len(record) + 1
<1>1. /\ Len(record) \in Nat /\ L \notin Created
      /\ \A j \in Created : record[j].parent \in Created \cup {0}
  BY DEF TypeInv, TypeOK, Bounded, Created
<1>2. ASSUME NEW p \in 0 .. Len(record), Adds(p)
      PROVE  /\ 1 .. Len(record') = Created \cup {L} /\ record'[L].parent = p
             /\ \A i \in Created : record'[i] = record[i]
  <2>1. PICK r : record' = Append(record, r)
    BY <1>2 DEF Adds
  <2>2. Len(record') = L
    BY <2>1 DEF TypeInv, TypeOK
  <2>3. 1 .. L = Created \cup {L}
    BY <1>1 DEF Created
  <2>4. QED BY <1>2, <2>2, <2>3, AddsOne
<1>3. ASSUME NEW p \in Created PROVE Family(p)' \subseteq Family(p) \cup {L}
  <2>1. CASE UNCHANGED record
    BY <2>1 DEF Family, OwnOf, Created
  <2>2. CASE \E q \in 0 .. Len(record) : Adds(q)
    <3>1. 1 .. Len(record') = Created \cup {L} /\ \A i \in Created : record'[i] = record[i]
      BY <1>2, <2>2
    <3>2. ASSUME NEW j \in 1 .. Len(record'), record'[j].parent = p
          PROVE  j \in OwnOf(p) \cup {L}
      BY <3>1, <3>2 DEF OwnOf
    <3>3. QED BY <3>2 DEF Family, OwnOf, Created
  <2>3. QED BY <2>1, <2>2, ConstructsAdd
<1>4. ASSUME Adds(0), NEW p, p = L PROVE Family(p)' = {p}
  <2>1. 0 \in 0 .. Len(record)
    BY <1>1
  <2>2. /\ 1 .. Len(record') = Created \cup {L} /\ record'[L].parent = 0
        /\ \A i \in Created : record'[i] = record[i]
    BY <1>2, <1>4, <2>1
  <2>3. ASSUME NEW j \in 1 .. Len(record'), record'[j].parent = p
        PROVE  FALSE
    <3>1. L # 0
      BY <1>1
    <3>2. j \in Created
      BY <1>4, <2>2, <2>3, <3>1
    <3>3. QED BY <1>1, <1>4, <2>2, <2>3, <3>1, <3>2
  <2>4. QED BY <2>3 DEF Family, OwnOf, Created
<1>5. QED BY <1>3, <1>4

LEMMA IntactStep ==
  ASSUME ConstructorsDoNotReenter, Footing, TypeInv', Unmeddled, Intact, [Next]_vars, ~failed'
  PROVE  Intact'
<1> DEFINE n == Len(stack)
           L == Len(record) + 1
<1>1. /\ TypeInv /\ OwnModules /\ Linked /\ isDestroyed \subseteq Created /\ L \notin Created
      /\ Len(record) \in Nat
  BY DEF Footing, TypeInv, TypeOK, Created
<1>2. ASSUME NEW c \in 1 .. Len(stack'), NEW p, p = Level(stack', c).inst,
             InitWalk(Level(stack', c))
      PROVE  TopLevel(p)' /\ Family(p)' \cap isDestroyed' = {}
  <2>1. ASSUME NEW d \in 1 .. n, InitWalk(Level(stack, d)), p = Level(stack, d).inst
        PROVE  TopLevel(p)' /\ Family(p)' \cap isDestroyed' = {}
    <3>1. TopLevel(p) /\ Family(p) \cap isDestroyed = {}
      BY <2>1 DEF Intact
    <3>2. p \in Created
      BY <1>1, <2>1, LevelType DEF InitWalk, Frames, Created
    <3>3. isDestroyed' = isDestroyed
      BY <1>1, <2>1, NoDestroy, FlagsSetBy DEF InitWalk, Activating
    <3>4. TopLevel(p)'
      BY <1>1, <3>1, <3>2, FamilyGrows
    <3>5. CASE Constructs
      <4>1. Family(p)' \subseteq Family(p) \cup {L}
        BY <1>1, <3>2, <3>5, FamilyAdds
      <4>2. QED BY <1>1, <3>1, <3>3, <3>4, <4>1
    <3>6. CASE ~Constructs
      <4>1. UNCHANGED record
        BY <3>6, InitCases DEF registryVars
      <4>2. QED BY <1>1, <3>1, <3>2, <3>3, <3>4, <4>1, FamilyGrows
    <3>7. QED BY <3>5, <3>6
  <2>2. CASE Stays(c)
    <3>1. c \in 1 .. c
      OBVIOUS
    <3>2. c \in 1 .. n /\ Level(stack', c) = Level(stack, c)
      BY <2>2, <3>1 DEF Stays
    <3>3. QED BY <1>2, <2>1, <3>2
  <2>3. CASE Constructs /\ ~Stays(c)
    <3>1. Adds(0) /\ p = L
      BY <1>1, <1>2, <2>3, NewWalk DEF OwnWalk
    <3>2. Family(p)' = {p}
      BY <1>1, <2>3, <3>1, FamilyAdds
    <3>3. TopLevel(p)'
      BY <1>1, <3>1, NewIsTopLevel DEF TopLevel
    <3>4. isDestroyed' = isDestroyed
      BY <1>1, <2>3, ConstructsAdd
    <3>5. QED BY <1>1, <3>1, <3>2, <3>3, <3>4
  <2>4. CASE Leaves
    <3>1. Stays(c)
      BY <1>1, <1>2, <2>4, LeavesStay DEF Activating, InitWalk
    <3>2. QED BY <2>2, <3>1
  <2>5. CASE Advances /\ ~Stays(c)
    <3>1. n \in Nat \ {0} /\ Level(stack, n) = Top
      BY <1>1, <2>5, AdvancesStay
    <3>2. c = n /\ InitWalk(Top) /\ Level(stack', c).inst = Top.inst
      BY <1>1, <1>2, <2>5, WalkGoesOn
    <3>3. n \in 1 .. n
      BY <3>1
    <3>4. QED BY <1>2, <2>1, <3>1, <3>2, <3>3
  <2>6. QED BY <2>2, <2>3, <2>4, <2>5, InitCases
<1>3. QED BY <1>2 DEF Intact, InitWalk, TopLevel, Family, OwnOf, Created

(* What runs goes on running until it returns. *)
LEMMA CallingStep ==
  ASSUME TypeInv, OwnModules, [Next]_vars, ~failed', NEW b \in 1 .. Len(stack), NEW j,
         Calling(Level(stack, b), "initialize", j)
  PROVE  \/ j \in isInitialized'
         \/ b \in 1 .. Len(stack') /\ Calling(Level(stack', b), "initialize", j)
<1> DEFINE n == Len(stack)
<1>1. ~Breaks
  BY DEF Breaks, Throw
<1>2. PICK m :
        /\ Arises(m)
        /\ \/ m = n
           \/ stack # <<>> /\ m = n - 1 /\ (Top.t = "user" => UserReturns)
  BY <1>1, StepRuns DEF Runs
<1>3. m \in Nat /\ n \in Nat /\ m <= Len(stack') /\ Len(stack') \in Nat /\ m <= n
  BY <1>2, LenProperties DEF Arises, TypeInv, TypeOK
<1>4. CASE b <= m
  <2>1. b \in 1 .. m /\ b \in 1 .. Len(stack')
    BY <1>3, <1>4
  <2>2. Level(stack', b) = Level(stack, b)
    BY <1>2, <2>1 DEF Arises
  <2>3. QED BY <2>1, <2>2
<1>5. CASE ~(b <= m)
  <2>1. stack # <<>> /\ (Top.t = "user" => UserReturns) /\ b = n
    BY <1>2, <1>3, <1>5
  <2>2. Calling(Top, "initialize", j)
    BY <2>1, LevelPop
  <2>3. InitializeReturns /\ Top.inst = j
    BY <2>1, <2>2
    DEF Calling, UserReturns, ConstructReturns, InitializeReturns, StartReturns,
        CallbackReturns, DestroyReturns, Returns
  <2>4. QED BY <2>3 DEF InitializeReturns
<1>6. QED BY <1>4, <1>5

LEMMA ProgressStep ==
  ASSUME ConstructorsDoNotReenter, Footing, TypeInv', Alone, Unmeddled, Progress, [Next]_vars,
         ~failed'
  PROVE  Progress'
<1> DEFINE n == Len(stack)
           Gone(b, j) ==
             j \in isInitialized'
             \/ (b < Len(stack') /\ Calling(Level(stack', b + 1), "initialize", j))
<1>1. TypeInv /\ OwnModules /\ isInitialized \subseteq isInitialized'
  BY FlagsGrow DEF Footing
<1>2. ASSUME NEW b \in 1 .. Len(stack'), NEW f, f = Level(stack', b),
             Visits(f), f.t = "hookModules",
             NEW l \in 1 .. Len(serviceModules'[f.inst]), l < f.n
      PROVE  Gone(b, serviceModules'[f.inst][l])
  <2>1. CASE Stays(b)
    <3>1. b \in 1 .. b
      OBVIOUS
    <3>2. b \in 1 .. n /\ f = Level(stack, b)
      BY <1>2, <2>1, <3>1 DEF Stays
    <3>3. serviceModules' = serviceModules
      BY <1>2, <3>2, ListsFixed
    <3>4. PICK j : j = serviceModules[f.inst][l]
      OBVIOUS
    <3>5. Passed(b, l)
      BY <1>2, <3>2, <3>3 DEF Progress
    <3>6. CASE j \in isInitialized
      BY <1>1, <3>3, <3>4, <3>6
    <3>7. CASE b < n /\ Calling(Level(stack, b + 1), "initialize", j)
      <4>1. b + 1 \in 1 .. n
        BY <3>2, <3>7
      <4>2. \/ j \in isInitialized'
            \/ b + 1 \in 1 .. Len(stack') /\ Calling(Level(stack', b + 1), "initialize", j)
        BY <1>1, <3>7, <4>1, CallingStep
      <4>3. b + 1 \in 1 .. Len(stack') => b < Len(stack')
        BY <3>2
      <4>4. QED BY <3>3, <3>4, <4>2, <4>3
    <3>8. QED BY <3>2, <3>4, <3>5, <3>6, <3>7 DEF Passed
  <2>2. CASE Constructs /\ ~Stays(b)
    <3>1. ~Again(b)
      BY <1>2 DEF Again, Visits
    <3>2. ~Anew(b)
      BY <1>2 DEF Anew, OwnWalk, Constructing, Visits
    <3>3. QED BY <1>1, <2>2, <3>1, <3>2, CreatesStay
  <2>3. CASE Leaves
    <3>1. Stays(b)
      BY <1>1, <1>2, <2>3, LeavesStay DEF Activating, Visits
    <3>2. QED BY <2>1, <3>1
  <2>4. CASE UNCHANGED <<registryVars, flagVars>> /\ Advances /\ ~Stays(b)
    <3>1. /\ n \in Nat \ {0} /\ n \in 1 .. n /\ Level(stack, n) = Top /\ stack # <<>>
          /\ b = n \/ b = n + 1
      BY <1>1, <2>4, AdvancesStay
    <3>2. serviceModules' = serviceModules /\ isInitialized' = isInitialized
      BY <2>4 DEF registryVars, flagVars
    <3>3. PICK j : Visit(j) \/ Initialize(j) \/ PassModule(j) \/ InitializeModule(j)
      BY <2>4 DEF Advances
    <3>4. ~Visit(j)
      BY <1>2, <3>1 DEF Visit, Spawns, Walk, RunHook, About
    <3>5. CASE Initialize(j)
      <4>1. Level(stack', n).n = 1 /\ Level(stack', n + 1).t = "user"
        BY <3>5 DEF Initialize, Spawns, User, RunHookModules, About
      <4>2. f.n = 1
        BY <1>2, <3>1, <4>1
      <4>3. QED BY <1>2, <4>2
    <3>6. CASE PassModule(j) \/ InitializeModule(j)
      <4>1. /\ Onward(j) /\ Level(stack', n) = RunHookModules("initialize", Top.inst, Top.n + 1)
            /\ \/ Len(stack') = n /\ j \in isInitialized
               \/ Len(stack') = n + 1 /\ Level(stack', n + 1) = User("initialize", j)
        BY <3>6 DEF PassModule, InitializeModule, Spawns, Turns
      <4>2. b = n
        BY <1>2, <3>1, <4>1 DEF User, About
      <4>3. f.inst = Top.inst /\ f.n = Top.n + 1
        BY <1>2, <4>1, <4>2 DEF RunHookModules, About
      <4>4. /\ Visits(Top) /\ Top.t = "hookModules" /\ Top.n \in Nat
            /\ j = serviceModules[Top.inst][Top.n]
        BY <4>1 DEF Onward
      <4>5. CASE l < Top.n
        <5>1. Passed(n, l)
          BY <1>2, <3>1, <3>2, <4>3, <4>4, <4>5 DEF Progress
        <5>2. ~(n < Len(stack))
          BY <3>1
        <5>3. QED BY <3>1, <3>2, <4>3, <5>1, <5>2 DEF Passed
      <4>6. CASE l = Top.n
        <5>1. \/ j \in isInitialized
              \/ n < Len(stack') /\ Calling(Level(stack', n + 1), "initialize", j)
          BY <3>1, <4>1 DEF Calling, User, About
        <5>2. QED BY <3>2, <4>2, <4>3, <4>4, <4>6, <5>1
      <4>7. QED BY <1>2, <4>3, <4>4, <4>5, <4>6
    <3>7. QED BY <3>3, <3>4, <3>5, <3>6
  <2>5. QED BY <2>1, <2>2, <2>3, <2>4, InitCases
<1>3. QED BY <1>2 DEF Progress, Passed, Visits, Calling

LEMMA BasedStep ==
  ASSUME ConstructorsDoNotReenter, Footing, TypeInv', Alone, Unmeddled, Based,
         Meddles => ~Initializing, [Next]_vars, ~failed'
  PROVE  Based'
<1> DEFINE L == Len(record) + 1
<1>1. /\ TypeInv /\ isInitialized \subseteq isInitialized' /\ records \subseteq Created
      /\ Len(record) \in Nat /\ Created \subseteq Created'
      /\ \A i \in Created : record'[i] = record[i]
  BY FlagsGrow, RecordsStay DEF Footing, TypeInv, TypeOK, Bounded
<1>2. ASSUME NEW i \in Created
      PROVE  record'[i].deps \subseteq isInitialized' \cup Kin(i)'
  <2>1. Kin(i) \subseteq Kin(i)'
    BY <1>1 DEF Kin, TopLevel, OwnOf, Created
  <2>2. QED BY <1>1, <2>1 DEF Based
<1>3. ASSUME NEW i \in Created', i \notin Created
      PROVE  record'[i].deps \subseteq isInitialized' \cup Kin(i)'
  <2>1. Constructs
    <3>1. ~UNCHANGED record
      BY <1>3 DEF Created
    <3>2. QED BY <3>1, InitCases DEF registryVars
  <2>2. ASSUME NEW p \in 0 .. Len(record), Adds(p)
        PROVE  i = L /\ record'[i].deps \subseteq records /\ record'[i].parent = p
    <3>1. PICK s \in Service :
            record' = Append(record, [svc |-> s, parent |-> p, deps |-> Resolved(s)])
      BY <2>2 DEF Adds
    <3> DEFINE r == [svc |-> s, parent |-> p, deps |-> Resolved(s)]
    <3>2. r.deps \subseteq records /\ r.parent = p
      BY DEF Resolved
    <3>3. record' = Append(record, r) /\ record \in Seq(Record)
      BY <1>1, <3>1 DEF TypeInv, TypeOK
    <3> HIDE DEF r
    <3>4. Len(record') = L /\ record'[L] = r
      BY <3>3
    <3>5. i = L
      BY <1>1, <1>3, <3>4 DEF Created
    <3>6. QED BY <3>2, <3>4, <3>5
  <2>3. CASE Skips
    BY <1>3, <2>3 DEF Skips, registryVars, Created
  <2>4. CASE ProfileCreates \/ RegisterCreates
    <3>1. Adds(0) /\ (stack = <<>> \/ Top.t # "modules")
      BY <2>4 DEF ProfileCreates, RegisterCreates, Calls, At
    <3>2. 0 \in 0 .. Len(record)
      BY <1>1
    <3>3. records \subseteq isInitialized
      BY <2>1, <3>1, Idle
    <3>4. QED BY <1>1, <2>2, <3>1, <3>2, <3>3
  <2>5. CASE ModulesCreate
    <3>1. stack # <<>> /\ Top.t = "modules" /\ Adds(Top.inst)
      BY <2>5 DEF ModulesCreate
    <3>2. Top.inst \in Created
      BY <1>1, <3>1, TopFields
    <3>3. Top.inst \in 0 .. Len(record) /\ Top.inst # 0
      BY <3>2 DEF Created
    <3>4. i = L /\ record'[i].deps \subseteq records /\ record'[i].parent = Top.inst
      BY <2>2, <3>1, <3>3
    <3>5. ASSUME NEW k \in records PROVE k \in isInitialized' \cup Kin(i)'
      <4>1. k \in isInitialized \/ k \in Family(Top.inst)
        BY <3>1, FamilyOwed
      <4>2. k \in Created /\ k < i
        BY <1>1, <3>4 DEF Created
      <4>3. k \in Family(Top.inst) => k \in Kin(i)'
        BY <1>1, <3>3, <3>4, <4>2 DEF Kin, TopLevel, OwnOf, Family, Created
      <4>4. QED BY <1>1, <4>1, <4>3
    <3>6. QED BY <3>4, <3>5
  <2>6. QED BY <1>1, <2>1, <2>3, <2>4, <2>5, ConstructsLevels
<1>4. QED BY <1>2, <1>3 DEF Based

LEMMA InitStep ==
  ASSUME ConstructorsDoNotReenter, ~failed => Footing, TypeInv', InitInv,
         Meddles => ~Initializing, [Next]_vars
  PROVE  InitInv'
<1> SUFFICES ASSUME ~failed'
             PROVE  Alone' /\ Within' /\ Unmeddled' /\ Intact' /\ Progress' /\ Based' /\ Served'
  BY DEF InitInv
<1>1. ~failed
  BY FailedStays
<1>2. Footing /\ Alone /\ Within /\ Unmeddled /\ Intact /\ Progress /\ Based /\ Served
  BY <1>1 DEF InitInv
<1>3. Alone' /\ Within' /\ Unmeddled' /\ Intact'
  BY <1>2, AloneStep, WithinStep, UnmeddledStep, IntactStep
<1>4. Progress' /\ Based' /\ Served'
  BY <1>2, ProgressStep, BasedStep, ServedStep
<1>5. QED BY <1>3, <1>4

(* The first exception leaves the head. *)
LEMMA FailedBy ==
  ASSUME [Next]_vars, ~failed, failed'
  PROVE  stack # <<>> /\ Throw
<1>1. ~Call
  BY DEF Call, InitializeProfile, Start, Tick, Reset, Dispose, Register, Unregister, Construct,
         historyVars
<1>2. ~Wait /\ ~UNCHANGED vars
  BY DEF Wait, ResolveAsync, ResolveTimeout, WaitUntilInitialized, InitializationTimeout, vars,
         historyVars
<1>3. CASE Advance
  BY <1>3
  DEF Advance, ProfileNext, ProfileDone, ModulesNext, ModulesDone, WalkNext,
      StartIfStartedNext, HookNext, HookModulesNext, ForEachNext, DisposeAllNext,
      DisposeNext, DisposeModulesNext, DestroyNext, ConstructReturns, InitializeReturns,
      StartReturns, CallbackReturns, DestroyReturns, UserThrows, Construct, At, historyVars
<1>4. QED BY <1>1, <1>2, <1>3 DEF Next

(* What enters initialize() finds all it was constructed with initialized. *)
LEMMA EntersInitialize ==
  ASSUME ConstructorsDoNotReenter, ~failed => Footing, TypeInv, TypeInv', InitInv, ~failed,
         [Next]_vars, NEW i \in Inst, Enters("initialize", i)
  PROVE  record[i].deps \subseteq isInitialized
<1> DEFINE b == Len(stack')
<1>1. /\ Footing /\ Alone /\ Within /\ Intact /\ Progress /\ Based /\ Served
  BY DEF InitInv
<1>2. Len(stack) \in Nat
  BY LenProperties DEF TypeInv, TypeOK
<1>3. ~failed'
  <2> SUFFICES ASSUME failed' PROVE FALSE
    OBVIOUS
  <2>1. stack # <<>> /\ Throw
    BY FailedBy
  <2>2. Len(stack') \in Nat /\ Len(stack') < Len(stack)
    BY <2>1, LevelThrow
  <2>3. QED BY <1>2, <2>2 DEF Enters
<1>4. b \in Nat \ {0} /\ Level(stack', b) = Top'
  BY HeadLevel DEF Enters
<1>5. Initializes(Level(stack', b)) /\ Level(stack', b).inst = i
  BY <1>4 DEF Initializes, Enters, Top
<1>6. b \in 1 .. Len(stack')
  BY <1>4
<1>7. QED BY <1>1, <1>3, <1>5, <1>6, ServedBy

(* The invariants that the footing is part of. *)
BasisInv ==
  /\ NamesInv /\ ModulesInv /\ FollowInv /\ DueInv /\ DestroyInv
  /\ isInitialized \subseteq Created
  /\ ~failed => AllKnown /\ Flat /\ Ordered /\ Linked

LEMMA BasisFooting ==
  ASSUME TypeInv, BasisInv, ~failed
  PROVE  Footing
BY DEF BasisInv, Footing, ModulesInv, FollowInv, DueInv, DestroyInv

LEMMA BasisStep ==
  ASSUME ConstructorsDoNotReenter, TypeInv, TypeInv', BasisInv, [Next]_vars
  PROVE  BasisInv'
<1>1. /\ NamesInv /\ ModulesInv /\ FollowInv /\ DueInv /\ DestroyInv /\ OwnModules
      /\ isInitialized \subseteq Created
  BY DEF BasisInv, ModulesInv
<1>2. NamesInv' /\ ModulesInv' /\ FollowInv' /\ DestroyInv'
  BY <1>1, NamesStep, ModulesStep, FollowStep, DestroyStep
<1>3. isInitialized' \subseteq Created'
  BY <1>1, InitializedCreated
<1>4. ASSUME ~failed'
      PROVE  /\ AllKnown' /\ Flat' /\ Ordered' /\ Linked'
             /\ Promised({"initialize"})' /\ AllDue({"initialize"})'
  <2>1. ~failed
    BY <1>4, FailedStays
  <2>2. /\ Making /\ Sited /\ Followed /\ AllKnown /\ Flat /\ Ordered /\ Linked
        /\ isDestroyed \subseteq Created
        /\ Promised({"initialize"}) /\ AllDue({"initialize"})
    BY <1>1, <2>1 DEF BasisInv, FollowInv, DueInv, DestroyInv
  <2>3. AllKnown' /\ Flat' /\ Ordered' /\ Linked'
    BY <1>1, <1>4, <2>2, AllKnownStep, FlatStep, OrderedStep, LinkedStep
  <2> DEFINE H == {"initialize"}
  <2>4. H \in SUBSET Counted /\ "start" \notin H /\ Promised(H) /\ AllDue(H)
    BY <2>2 DEF Counted
  <2> HIDE DEF H
  <2>5. Promised(H)' /\ AllDue(H)'
    BY <1>1, <1>4, <2>2, <2>4, PromisedStep, AllDueStep
  <2>6. QED BY <2>3, <2>5 DEF H
<1>5. QED BY <1>2, <1>3, <1>4 DEF BasisInv, DueInv

LEMMA BasisInit ==
  Init => BasisInv /\ InitInv
<1> SUFFICES ASSUME Init PROVE BasisInv /\ InitInv
  OBVIOUS
<1>1. /\ stack = <<>> /\ records = {} /\ record = <<>>
      /\ isInitialized = {} /\ isDestroyed = {} /\ aborted = {}
      /\ serviceModules = [i \in Inst |-> <<>>]
  BY DEF Init
<1>2. \A b \in 1 .. Len(stack) : FALSE
  BY <1>1
<1>3. NamesInv
  BY DEF Init, NamesInv, UniqueNames, OneConstructor
<1>4. Emptied /\ Younger /\ Unlisted /\ \A b \in 1 .. Len(stack) : ModulesGone(b)
  BY <1>1, <1>2 DEF Emptied, Younger, Unlisted
<1>5. FollowInv /\ DueInv
  BY <1>1, <1>2 DEF FollowInv, Making, Sited, Followed, DueInv, Promised, AllDue
<1>6. Created = {}
  BY <1>1 DEF Created
<1>7. AllKnown /\ DestroyInv
  BY <1>1, <1>2, <1>6 DEF AllKnown, DestroyInv, DestroyedIsGone, StackKnows
<1>8. Ordered
  <2>1. ASSUME NEW p \in Inst
        PROVE  Increasing(serviceModules[p]) /\ Entries(p) \cap isDestroyed = {}
    <3>1. serviceModules[p] = <<>>
      BY <1>1
    <3>2. Len(serviceModules[p]) = 0
      BY <3>1
    <3>3. \A k \in 1 .. Len(serviceModules[p]) : FALSE
      BY <3>2
    <3>4. QED BY <1>1, <3>3 DEF Increasing
  <2>2. QED BY <2>1 DEF Ordered
<1>9. Flat /\ Linked
  BY <1>2, <1>6 DEF Flat, Linked
<1>10. BasisInv
  BY <1>1, <1>3, <1>4, <1>5, <1>7, <1>8, <1>9, OwnModulesInit DEF BasisInv, ModulesInv
<1>11. Alone /\ Within /\ Unmeddled /\ Intact /\ Progress /\ Served
  BY <1>2 DEF Alone, Within, Unmeddled, Intact, Progress, Served
<1>12. Based
  BY <1>6 DEF Based
<1>13. QED BY <1>10, <1>11, <1>12 DEF InitInv

(* The operations of Meddles are calls: none is a step that changes nothing. *)
LEMMA MeddlingMoves ==
  ASSUME TypeInv, Meddles
  PROVE  ~UNCHANGED vars
<1> DEFINE n == Len(stack)
<1>1. n \in Nat
  BY LenProperties DEF TypeInv, TypeOK
<1>2. ASSUME NEW f, stack' = <<f>> \o stack PROVE stack' # stack
  <2> DEFINE S == Frame \cup {f}
  <2>1. stack \in Seq(S) /\ f \in S
    <3>1. f \in S
      OBVIOUS
    <3>2. QED BY <3>1, SequencesGrow DEF TypeInv, TypeOK
  <2> HIDE DEF S
  <2>2. stack' = Pushed(f, stack)
    BY <1>2 DEF Pushed
  <2>3. Len(stack') = n + 1
    BY <2>1, <2>2, LevelPush
  <2>4. QED BY <1>1, <2>3
<1>3. CASE InitializeProfile \/ Dispose \/ \E i \in records : Unregister(i)
  <2>1. stack' # stack
    BY <1>2, <1>3 DEF InitializeProfile, Dispose, Unregister
  <2>2. QED BY <2>1 DEF vars
<1>4. CASE \E s \in Service : Register(s)
  <2>1. RegisterCreates
    BY <1>4, RegisterLevels
  <2>2. Len(stack') = (n + 1) + 3
    BY <2>1 DEF RegisterCreates, Begins
  <2>3. stack' # stack
    BY <1>1, <2>2
  <2>4. QED BY <2>3 DEF vars
<1>5. QED BY <1>3, <1>4 DEF Meddles

(* Unless something threw, and if no initialize() makes the manager create  *)
(* or destroy services, a service initializes after all it was constructed  *)
(* with: its parent and its elder siblings among them, which it can find    *)
(* before they are initialized, in whatever order the priorities put the    *)
(* modules (435-457), and whatever the callbacks around do.                 *)
THEOREM DependenciesFirst ==
  ASSUME ConstructorsDoNotReenter
  PROVE  Spec /\ [][Meddles => ~Initializing]_vars => DependenciesInitializeFirst
<1> DEFINE Step == \A i \in Inst : (Enters("initialize", i) /\ ~failed) =>
                      record[i].deps \subseteq isInitialized
           Calm == Meddles => ~Initializing
           Inv == BasisInv /\ InitInv
<1>1. Init => Inv
  BY BasisInit
<1>2. TypeInv /\ TypeInv' /\ Inv /\ [Calm]_vars /\ [Next]_vars => Inv'
  <2> SUFFICES ASSUME TypeInv, TypeInv', Inv, [Calm]_vars, [Next]_vars PROVE Inv'
    OBVIOUS
  <2>1. Meddles => ~Initializing
    BY MeddlingMoves
  <2>2. BasisInv'
    BY BasisStep
  <2>3. InitInv'
    BY <2>1, BasisFooting, InitStep
  <2>4. QED BY <2>2, <2>3
<1>3. TypeInv /\ TypeInv' /\ Inv /\ [Next]_vars => [Step]_vars
  BY BasisFooting, EntersInitialize
<1> HIDE DEF Inv, Step, Calm
<1>4. Spec /\ [][Calm]_vars => [][Step]_vars
  BY <1>1, <1>2, <1>3, TypeCorrect, PTL DEF Spec
<1>5. QED BY <1>4 DEF Step, Calm, DependenciesInitializeFirst

(* The same as a property of the configuration: of every one in which       *)
(* initialize() leaves those operations alone and callbacks do not nest, or *)
(* in which no callback performs them.                                      *)
THEOREM DependenciesFirstInCalm ==
  ASSUME ConstructorsDoNotReenter,
         \A op \in {"initializeProfile", "register", "unregister", "dispose"} : CallsAreCalm(op)
  PROVE  Spec => DependenciesInitializeFirst
<1>1. TypeInv => (Meddles => ~Initializing)
  <2> SUFFICES ASSUME TypeInv, Meddles PROVE ~Initializing
    OBVIOUS
  <2>1. PICK op \in {"initializeProfile", "register", "unregister", "dispose"} : Calls(op)
    BY DEF Meddles, InitializeProfile, Dispose, Register, Unregister
  <2>2. QED BY <2>1, CalmCalls
<1>2. Spec => [][Meddles => ~Initializing]_vars
  BY <1>1, TypeCorrect, PTL
<1>3. QED BY <1>2, DependenciesFirst, PTL

=============================================================================
