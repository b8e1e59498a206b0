------------------------ MODULE ServiceManagerProofs ------------------------
(***************************************************************************)
(* Theorems about ServiceManager, for every configuration, every depth of  *)
(* re-entrancy and every choice of callbacks that throw: its types, that   *)
(* no wake-up of a waiter is lost, that what is destroyed is gone, and     *)
(* that token and name identify a record.  Then what a step does to the    *)
(* stack, level by level (StepRuns), on which the theorems of              *)
(* ServiceManagerSafetyProofs stand.                                       *)
(***************************************************************************)
EXTENDS ServiceManager, SequenceTheorems, FiniteSetTheorems, TLAPS

(* The hooks that are called in a loop over the registry. *)
Looped == {"start", "update", "reset"}

(* The frames that can be on the stack when n instances exist. *)
Frames(n) ==
  {f \in Frame :
     /\ f.insts \subseteq 1 .. n
     /\ f.t \in {"user", "modules", "walk", "startIfStarted", "hook", "hookModules",
                 "dispose", "destroy"} => f.inst \in 1 .. n
     /\ f.t \in {"walk", "hook", "hookModules"} => f.hook \in {"initialize", "start"}
     /\ f.t = "hookModules" => f.n # 0
     /\ f.t = "forEach" => f.hook \in Looped}

Created == 1 .. Len(record)

(* Whatever the manager refers to has been created. *)
Bounded ==
  /\ stack \in Seq(Frames(Len(record)))
  /\ records \subseteq Created
  /\ modules \in [Inst -> SUBSET Created]
  /\ serviceModules \in [Inst -> Seq(Created)]
  /\ \A i \in Created : record[i].parent \in 0 .. Len(record)

TypeInv == TypeOK /\ Bounded

-----------------------------------------------------------------------------
(* Sequences *)

(* Calling: frames in front of a stack. *)
LEMMA PushOne ==
  ASSUME NEW S, NEW s \in Seq(S), NEW f \in S
  PROVE  <<f>> \o s \in Seq(S)
OBVIOUS

LEMMA PushTwo ==
  ASSUME NEW S, NEW s \in Seq(S), NEW f \in S, NEW g \in S
  PROVE  <<f, g>> \o s \in Seq(S)
<1>1. <<f, g>> \in Seq(S)
  OBVIOUS
<1>2. QED BY <1>1, ConcatProperties

(* Sequences, and tables of sequences, over a larger set. *)
LEMMA SequencesGrow ==
  ASSUME NEW S, NEW T, S \subseteq T, NEW s \in Seq(S)
  PROVE  s \in Seq(T)
OBVIOUS

LEMMA FunctionsGrow ==
  ASSUME NEW D, NEW S, NEW T, S \subseteq T, NEW f \in [D -> Seq(S)]
  PROVE  f \in [D -> Seq(T)]
<1>1. \A d \in D : f[d] \in Seq(T)
  BY SequencesGrow
<1>2. QED BY <1>1

(* Taking out one entry. *)
LEMMA WithoutType ==
  ASSUME NEW S, NEW s \in Seq(S), NEW x
  PROVE  Without(s, x) \in Seq(S)
<1>1. CASE ~ \E k \in 1 .. Len(s) : s[k] = x
  BY <1>1 DEF Without
<1>2. CASE \E k \in 1 .. Len(s) : s[k] = x
  <2> DEFINE k == CHOOSE j \in 1 .. Len(s) : s[j] = x
  <2>1. k \in 1 .. Len(s)
    BY <1>2
  <2> HIDE DEF k
  <2>2. SubSeq(s, 1, k - 1) \in Seq(S) /\ SubSeq(s, k + 1, Len(s)) \in Seq(S)
    <3>1. \A i \in 1 .. (k - 1) : s[i] \in S
      BY <2>1
    <3>2. \A i \in (k + 1) .. Len(s) : s[i] \in S
      BY <2>1
    <3>3. QED BY <2>1, <3>1, <3>2, SubSeqProperties, LenProperties
  <2>3. SubSeq(s, 1, k - 1) \o SubSeq(s, k + 1, Len(s)) \in Seq(S)
    BY <2>2, ConcatProperties
  <2>4. Without(s, x) = SubSeq(s, 1, k - 1) \o SubSeq(s, k + 1, Len(s))
    BY <1>2 DEF Without, RemoveAt, k
  <2>5. QED BY <2>3, <2>4
<1>3. QED BY <1>1, <1>2

(* What an exception leaves is a stack of the same frames. *)
LEMMA ThrowType ==
  ASSUME NEW S, stack \in Seq(S), stack # <<>>, Throw
  PROVE  stack' \in Seq(S)
<1>1. Rest \in Seq(S)
  BY HeadTailProperties DEF Rest
<1>2. CASE stack' = <<>>
  BY <1>2, EmptySeq
<1>3. ASSUME NEW k \in UserFrames(Rest), stack' = SubSeq(Rest, k, Len(Rest))
      PROVE  stack' \in Seq(S)
  <2>1. k \in 1 .. Len(Rest) /\ Len(Rest) \in Nat
    BY <1>1, LenProperties DEF UserFrames
  <2>2. \A i \in k .. Len(Rest) : Rest[i] \in S
    BY <1>1, <2>1, ElementOfSeq
  <2>3. QED BY <1>3, <2>1, <2>2, SubSeqProperties
<1>4. QED BY <1>2, <1>3 DEF Throw

-----------------------------------------------------------------------------
(* Frames *)

(* Every frame the manager builds is a frame of the model. *)
LEMMA FrameTypes ==
  ASSUME NEW n \in Nat, NEW i \in 1 .. n
  PROVE  /\ \A h \in Hook : User(h, i) \in Frames(n)
         /\ \A S \in SUBSET Service : ModuleLoop(i, S) \in Frames(n)
         /\ \A h \in {"initialize", "start"} :
              /\ RunHook(h, i) \in Frames(n)
              /\ \A k \in Nat : /\ Walk(h, i, k) \in Frames(n)
                              /\ RunHookModules(h, i, k + 1) \in Frames(n)
         /\ StartIfStarted(i) \in Frames(n)
         /\ DisposeOne(i) \in Frames(n)
         /\ DestroyOne(i) \in Frames(n)
<1>1. \A h \in Hook : User(h, i) \in Frames(n)
  BY DEF About, Frames, Frame, User, Hook
<1>2. \A S \in SUBSET Service : ModuleLoop(i, S) \in Frames(n)
  BY DEF About, Frames, Frame, ModuleLoop, Hook
<1>3. \A h \in {"initialize", "start"} :
        /\ RunHook(h, i) \in Frames(n)
        /\ \A k \in Nat : /\ Walk(h, i, k) \in Frames(n)
                              /\ RunHookModules(h, i, k + 1) \in Frames(n)
  BY DEF About, Frames, Frame, RunHook, Walk, RunHookModules, Hook
<1>4. StartIfStarted(i) \in Frames(n)
  BY DEF About, Frames, Frame, StartIfStarted, Hook
<1>5. DisposeOne(i) \in Frames(n) /\ DestroyOne(i) \in Frames(n)
  BY DEF About, Frames, Frame, DisposeOne, DestroyOne, Hook
<1>6. QED BY <1>1, <1>2, <1>3, <1>4, <1>5

LEMMA LoopTypes ==
  ASSUME NEW n \in Nat
  PROVE  /\ \A S \in SUBSET Service : ProfileLoop(S) \in Frames(n)
         /\ \A S \in SUBSET (1 .. n) :
              /\ \A h \in Looped : ForEach(h, S) \in Frames(n)
              /\ DisposeAll(S) \in Frames(n)
              /\ DisposeModules(S) \in Frames(n)
BY DEF About, Frames, Frame, ProfileLoop, ForEach, DisposeAll, DisposeModules, Hook, Looped

(* Stacks stay well formed when instances are created. *)
LEMMA FramesGrow ==
  ASSUME NEW n \in Nat, NEW m \in Nat, n <= m, NEW s \in Seq(Frames(n))
  PROVE  s \in Seq(Frames(m)) /\ s \in Seq(Frame)
<1>1. Frames(n) \subseteq Frames(m) /\ Frames(n) \subseteq Frame
  <2>1. 1 .. n \subseteq 1 .. m
    OBVIOUS
  <2>2. QED BY <2>1 DEF Frames
<1>2. QED BY <1>1

(* The head and the rest of a non-empty stack. *)
LEMMA TopType ==
  ASSUME TypeInv, stack # <<>>
  PROVE  /\ Top \in Frames(Len(record))
         /\ Rest \in Seq(Frames(Len(record)))
         /\ Len(record) \in Nat
BY HeadTailProperties DEF TypeInv, TypeOK, Bounded, Top, Rest

(* The fields of the head. *)
LEMMA TopFields ==
  ASSUME TypeInv, stack # <<>>
  PROVE  /\ Top.svcs \subseteq Service
         /\ Top.insts \subseteq Created
         /\ Top.hook \in Hook
         /\ Top.n \in Nat
         /\ Top.t \in {"user", "modules", "walk", "startIfStarted", "hook", "hookModules",
                       "dispose", "destroy"} => Top.inst \in Created /\ Top.inst \in Inst
         /\ Top.t \in {"walk", "hook", "hookModules"} => Top.hook \in {"initialize", "start"}
         /\ Top.t = "hookModules" => Top.n # 0
         /\ Top.t = "forEach" => Top.hook \in Looped
<1>1. Top \in Frames(Len(record))
  BY TopType
<1>2. Created \subseteq Inst
  BY BoundAssumption DEF TypeInv, TypeOK, Created, Inst
<1>3. QED BY <1>1, <1>2 DEF Frames, Frame, Created

-----------------------------------------------------------------------------
(* Types are preserved *)

(* Steps that only move the stack. *)
LEMMA StackStep ==
  ASSUME TypeInv, stack' \in Seq(Frames(Len(record))),
         UNCHANGED <<registryVars, flagVars, managerVars, waiterVars, historyVars>>
  PROVE  TypeInv'
<1>1. stack' \in Seq(Frame)
  BY FramesGrow DEF TypeInv, TypeOK
<1>2. QED
  BY <1>1 DEF TypeInv, TypeOK, Bounded, Created, Frames,
              registryVars, flagVars, managerVars, waiterVars, historyVars

(* Steps in which an exception passes through the manager. *)
LEMMA ThrowStep ==
  ASSUME TypeInv, stack # <<>>, Throw,
         UNCHANGED <<registryVars, flagVars, managerVars, waiterVars, reported, called>>
  PROVE  TypeInv'
<1>1. stack' \in Seq(Frames(Len(record))) /\ stack' \in Seq(Frame)
  BY ThrowType, FramesGrow DEF TypeInv, TypeOK, Bounded
<1>2. failed' \in BOOLEAN
  BY DEF Throw
<1>3. QED
  BY <1>1, <1>2 DEF TypeInv, TypeOK, Bounded, Created, Frames,
                    registryVars, flagVars, managerVars, waiterVars

(* A new instance. *)
LEMMA ConstructType ==
  ASSUME TypeInv, NEW s \in Service, NEW parent \in 0 .. Len(record), NEW continuation,
         continuation \in Seq(Frames(Len(record) + 1)),
         CanCreate(s), Construct(s, parent, continuation)
  PROVE  TypeInv'
<1> DEFINE L == Len(record)
<1>1. L \in Nat /\ L < MaxInstances /\ L + 1 \in Inst /\ MaxInstances \in Nat
  BY BoundAssumption DEF TypeInv, TypeOK, CanCreate, Inst
<1>2. Resolved(s) \in SUBSET Nat
  <2>1. Resolved(s) \subseteq records
    BY DEF Resolved
  <2>2. records \subseteq Nat
    BY <1>1 DEF TypeInv, TypeOK, Inst
  <2>3. QED BY <2>1, <2>2
<1> DEFINE r == [svc |-> s, parent |-> parent, deps |-> Resolved(s)]
<1>4. r \in Record
  BY <1>1, <1>2 DEF Record
<1>5. record' = Append(record, r)
  BY DEF Construct
<1> HIDE DEF r
<1>6. /\ record' \in Seq(Record)
      /\ Len(record') = L + 1
      /\ \A i \in 1 .. L : record'[i] = record[i]
      /\ record'[L + 1] = r
  BY <1>1, <1>4, <1>5 DEF TypeInv, TypeOK
<1>7. \A i \in 1 .. (L + 1) : record'[i].parent \in 0 .. (L + 1)
  <2>1. r.parent \in 0 .. L
    BY DEF r
  <2>2. \A i \in 1 .. L : record'[i].parent \in 0 .. (L + 1)
    <3>1. \A i \in 1 .. L : record[i].parent \in 0 .. L
      BY DEF TypeInv, Bounded, Created
    <3>2. 0 .. L \subseteq 0 .. (L + 1)
      BY <1>1
    <3>3. QED BY <1>6, <3>1, <3>2
  <2>3. \A i \in 1 .. (L + 1) : i \in 1 .. L \/ i = L + 1
    BY <1>1
  <2>4. QED BY <1>1, <1>6, <2>1, <2>2, <2>3
<1>8. 1 .. L \subseteq 1 .. (L + 1) /\ 1 .. (L + 1) \subseteq Inst
  BY <1>1 DEF Inst
<1>9. serviceModules' \in [Inst -> Seq(1 .. (L + 1))]
  <2>1. serviceModules \in [Inst -> Seq(1 .. (L + 1))]
    <3>1. serviceModules \in [Inst -> Seq(1 .. L)]
      BY DEF TypeInv, Bounded, Created
    <3>2. QED BY <1>8, <3>1, FunctionsGrow
  <2>2. CASE parent = 0
    <3>1. serviceModules' = serviceModules
      BY <2>2 DEF Construct
    <3>2. QED BY <2>1, <3>1
  <2>3. CASE parent # 0
    <3>1. parent \in Inst
      BY <1>1, <2>3 DEF Inst
    <3>2. Append(serviceModules[parent], L + 1) \in Seq(1 .. (L + 1))
      BY <1>1, <2>1, <3>1
    <3>3. serviceModules' = [serviceModules EXCEPT ![parent] = Append(@, L + 1)]
      BY <2>3 DEF Construct
    <3>4. QED BY <2>1, <3>1, <3>2, <3>3
  <2>4. QED BY <2>2, <2>3
<1>10. stack' \in Seq(Frames(L + 1)) /\ stack' \in Seq(Frame)
  <2>1. User("construct", L + 1) \in Frames(L + 1)
    BY <1>1, FrameTypes DEF Hook
  <2>2. stack' = <<User("construct", L + 1)>> \o continuation
    BY DEF Construct
  <2>3. stack' \in Seq(Frames(L + 1))
    BY <2>1, <2>2, PushOne
  <2>4. QED BY <1>1, <2>3, FramesGrow
<1>11. UNCHANGED <<records, place, modules, flagVars, managerVars, waiterVars, historyVars>>
  BY DEF Construct
<1>12. TypeOK'
  <2>1. serviceModules' \in [Inst -> Seq(Inst)]
    <3> DEFINE T == serviceModules'
    <3>1. T \in [Inst -> Seq(1 .. (L + 1))]
      BY <1>9
    <3> HIDE DEF T
    <3>2. T \in [Inst -> Seq(Inst)]
      BY <1>8, <3>1, FunctionsGrow
    <3>3. QED BY <3>2 DEF T
  <2>2. QED
    BY <1>1, <1>6, <1>10, <1>11, <2>1
    DEF TypeInv, TypeOK, flagVars, managerVars, waiterVars, historyVars
<1>13. records' \subseteq 1 .. (L + 1) /\ modules' \in [Inst -> SUBSET (1 .. (L + 1))]
  BY <1>8, <1>11 DEF TypeInv, Bounded, Created
<1>14. Bounded'
  BY <1>6, <1>7, <1>9, <1>10, <1>13 DEF Bounded, Created, Frames
<1>15. QED BY <1>12, <1>14 DEF TypeInv

(* What the constructor of a top-level registration returns to. *)
LEMMA ThenInitializeType ==
  ASSUME TypeInv, NEW s \in Service
  PROVE  ThenInitialize(s) \in Seq(Frames(Len(record) + 1))
<1> DEFINE L == Len(record)
<1>1. L + 1 \in Nat /\ L + 1 \in 1 .. (L + 1)
  BY DEF TypeInv, TypeOK
<1>2. ModulesOf[s] \in SUBSET Service
  BY ConfigurationAssumption
<1>3. ModuleLoop(L + 1, ModulesOf[s]) \in Frames(L + 1)
  BY <1>1, <1>2, FrameTypes
<1>4. Walk("initialize", L + 1, 0) \in Frames(L + 1)
  BY <1>1, FrameTypes
<1>5. QED BY <1>3, <1>4 DEF ThenInitialize

(* Every activation loop: the next registration is constructed, filtered,   *)
(* or throws.                                                              *)
LEMMA ActivationType ==
  ASSUME TypeInv, ProfileNext \/ ModulesNext \/ (\E s \in Service : Register(s))
  PROVE  TypeInv'
<1> DEFINE L == Len(record)
<1>1. L \in Nat /\ L + 1 \in Nat /\ L <= L + 1 /\ L + 1 \in 1 .. (L + 1)
  BY DEF TypeInv, TypeOK
<1>2. \A s \in Service : ThenInitialize(s) \in Seq(Frames(L + 1))
  BY ThenInitializeType
<1>3. CASE ProfileNext
  <2> USE <1>3
  <2>1. stack # <<>> /\ Top.svcs \subseteq Service /\ Rest \in Seq(Frames(L))
    BY TopType, TopFields DEF ProfileNext, At
  <2>2. PICK s \in Top.svcs :
          LET remaining == <<ProfileLoop(Top.svcs \ {s})>> \o Rest
          IN \/ /\ CanCreate(s)
                /\ Construct(s, 0, ThenInitialize(s) \o remaining)
             \/ /\ stack' = remaining
                /\ UNCHANGED <<registryVars, flagVars, managerVars, waiterVars, historyVars>>
             \/ /\ Throw
                /\ UNCHANGED <<registryVars, flagVars, managerVars, waiterVars, reported, called>>
    BY DEF ProfileNext
  <2> DEFINE remaining == <<ProfileLoop(Top.svcs \ {s})>> \o Rest
  <2>3. remaining \in Seq(Frames(L))
    <3>1. ProfileLoop(Top.svcs \ {s}) \in Frames(L)
      BY <1>1, <2>1, LoopTypes
    <3>2. QED BY <2>1, <3>1, PushOne
  <2>4. remaining \in Seq(Frames(L + 1))
    BY <1>1, <2>3, FramesGrow
  <2>5. ThenInitialize(s) \o remaining \in Seq(Frames(L + 1))
    BY <1>2, <2>1, <2>2, <2>4, ConcatProperties
  <2> HIDE DEF remaining
  <2>6. CASE CanCreate(s) /\ Construct(s, 0, ThenInitialize(s) \o remaining)
    <3>1. 0 \in 0 .. L /\ s \in Service
      BY <1>1, <2>1, <2>2
    <3> DEFINE continuation == ThenInitialize(s) \o remaining
    <3>2. continuation \in Seq(Frames(L + 1)) /\ CanCreate(s) /\ Construct(s, 0, continuation)
      BY <2>5, <2>6
    <3> HIDE DEF continuation
    <3>3. QED BY <3>1, <3>2, ConstructType
  <2>7. CASE /\ stack' = remaining
             /\ UNCHANGED <<registryVars, flagVars, managerVars, waiterVars, historyVars>>
    BY <2>3, <2>7, StackStep
  <2>8. CASE /\ Throw
             /\ UNCHANGED <<registryVars, flagVars, managerVars, waiterVars, reported, called>>
    BY <2>1, <2>8, ThrowStep
  <2>9. QED BY <2>2, <2>6, <2>7, <2>8 DEF remaining
<1>4. CASE ModulesNext
  <2> USE <1>4
  <2>1. /\ stack # <<>> /\ Top.svcs \subseteq Service /\ Rest \in Seq(Frames(L))
        /\ Top.inst \in 1 .. L
    BY TopType, TopFields DEF ModulesNext, At, Created
  <2>2. PICK s \in Top.svcs :
          LET remaining == <<ModuleLoop(Top.inst, Top.svcs \ {s})>> \o Rest
          IN \/ /\ CanCreate(s)
                /\ Construct(s, Top.inst, remaining)
             \/ /\ stack' = remaining
                /\ UNCHANGED <<registryVars, flagVars, managerVars, waiterVars, historyVars>>
             \/ /\ Throw
                /\ UNCHANGED <<registryVars, flagVars, managerVars, waiterVars, reported, called>>
    BY DEF ModulesNext
  <2> DEFINE remaining == <<ModuleLoop(Top.inst, Top.svcs \ {s})>> \o Rest
  <2>3. remaining \in Seq(Frames(L))
    <3>1. ModuleLoop(Top.inst, Top.svcs \ {s}) \in Frames(L)
      BY <1>1, <2>1, FrameTypes
    <3>2. QED BY <2>1, <3>1, PushOne
  <2>4. remaining \in Seq(Frames(L + 1))
    BY <1>1, <2>3, FramesGrow
  <2> HIDE DEF remaining
  <2>5. CASE CanCreate(s) /\ Construct(s, Top.inst, remaining)
    <3>1. Top.inst \in 0 .. L
      BY <1>1, <2>1
    <3>2. QED BY <2>1, <2>2, <2>4, <2>5, <3>1, ConstructType
  <2>6. CASE /\ stack' = remaining
             /\ UNCHANGED <<registryVars, flagVars, managerVars, waiterVars, historyVars>>
    BY <2>3, <2>6, StackStep
  <2>7. CASE /\ Throw
             /\ UNCHANGED <<registryVars, flagVars, managerVars, waiterVars, reported, called>>
    BY <2>1, <2>7, ThrowStep
  <2>8. QED BY <2>2, <2>5, <2>6, <2>7 DEF remaining
<1>5. CASE \E s \in Service : Register(s)
  <2>1. PICK s \in Service :
          /\ CanCreate(s)
          /\ Construct(s, 0, ThenInitialize(s) \o <<StartIfStarted(L + 1)>> \o stack)
    BY <1>5 DEF Register
  <2> DEFINE continuation == ThenInitialize(s) \o <<StartIfStarted(L + 1)>> \o stack
  <2>2. stack \in Seq(Frames(L + 1))
    BY <1>1, FramesGrow DEF TypeInv, Bounded
  <2>3. StartIfStarted(L + 1) \in Frames(L + 1)
    BY <1>1, FrameTypes
  <2>4. <<StartIfStarted(L + 1)>> \in Seq(Frames(L + 1))
    BY <2>3
  <2>5. ThenInitialize(s) \o <<StartIfStarted(L + 1)>> \in Seq(Frames(L + 1))
    BY <1>2, <2>4, ConcatProperties
  <2>6. continuation \in Seq(Frames(L + 1))
    BY <2>2, <2>5, ConcatProperties
  <2> HIDE DEF continuation
  <2>7. CanCreate(s) /\ Construct(s, 0, continuation)
    BY <2>1 DEF continuation
  <2>8. QED BY <1>1, <2>6, <2>7, ConstructType
<1>6. QED BY <1>3, <1>4, <1>5

(* The loops over records, and the calls that begin them. *)
LEMMA LoopType ==
  ASSUME TypeInv,
         \/ InitializeProfile \/ WalkNext \/ StartIfStartedNext \/ Tick \/ Reset
         \/ ForEachNext \/ DisposeNext \/ DisposeModulesNext \/ CallbackReturns
         \/ \E i \in records : Unregister(i)
  PROVE  TypeInv'
<1> DEFINE L == Len(record)
           F == Frames(L)
<1>1. /\ L \in Nat /\ records \subseteq 1 .. L /\ stack \in Seq(F)
      /\ \A i \in Inst : modules[i] \subseteq 1 .. L
  BY DEF TypeInv, TypeOK, Bounded, Created
<1>2. ASSUME stack # <<>>
      PROVE  /\ Rest \in Seq(F) /\ Top.hook \in Hook /\ Top.insts \subseteq 1 .. L
             /\ Top.t \in {"walk", "startIfStarted", "dispose"} =>
                  Top.inst \in 1 .. L /\ modules[Top.inst] \subseteq 1 .. L
             /\ Top.t = "walk" => Top.hook \in {"initialize", "start"}
             /\ Top.t = "forEach" => Top.hook \in Looped
  BY <1>1, <1>2, TopType, TopFields DEF Created
<1>3. ASSUME stack' \in Seq(F),
             UNCHANGED <<registryVars, flagVars, managerVars, waiterVars, historyVars>>
      PROVE  TypeInv'
  BY <1>3, StackStep
<1>4. CASE InitializeProfile
  <2>1. ProfileLoop(Profile) \in F
    BY <1>1, LoopTypes, ConfigurationAssumption
  <2>2. QED BY <1>1, <1>3, <1>4, <2>1, PushOne DEF InitializeProfile
<1>5. CASE WalkNext
  <2>1. stack # <<>> /\ Top.t = "walk"
    BY <1>5 DEF WalkNext, At
  <2>2. \A j \in 1 .. L : RunHook(Top.hook, j) \in F
    BY <1>1, <1>2, <2>1, FrameTypes
  <2>3. \A n \in Nat : Walk(Top.hook, Top.inst, n) \in F
    BY <1>1, <1>2, <2>1, FrameTypes
  <2>4. \A j \in 1 .. L :
          <<RunHook(Top.hook, j), Walk(Top.hook, Top.inst, j)>> \o Rest \in Seq(F)
    BY <1>2, <2>1, <2>2, <2>3, PushTwo
  <2>5. stack' \in Seq(F)
    BY <1>2, <1>5, <2>1, <2>4 DEF WalkNext
  <2>6. QED BY <1>3, <1>5, <2>5 DEF WalkNext
<1>6. CASE StartIfStartedNext
  <2>1. stack # <<>> /\ Top.t = "startIfStarted"
    BY <1>6 DEF StartIfStartedNext, At
  <2>2. Walk("start", Top.inst, 0) \in F
    BY <1>1, <1>2, <2>1, FrameTypes
  <2>3. stack' \in Seq(F)
    BY <1>2, <1>6, <2>1, <2>2, PushOne DEF StartIfStartedNext
  <2>4. QED BY <1>3, <1>6, <2>3 DEF StartIfStartedNext
<1>7. CASE Tick \/ Reset
  <2>1. ForEach("update", records) \in F /\ ForEach("reset", records) \in F
    BY <1>1, LoopTypes DEF Looped
  <2>2. QED BY <1>1, <1>3, <1>7, <2>1, PushOne DEF Tick, Reset
<1>8. CASE ForEachNext
  <2>1. stack # <<>> /\ Top.t = "forEach"
    BY <1>8 DEF ForEachNext, At
  <2>2. \A i \in Top.insts :
          /\ RunHook("start", i) \in F
          /\ User(Top.hook, i) \in F
          /\ ForEach(Top.hook, Top.insts \ {i}) \in F
    BY <1>1, <1>2, <2>1, FrameTypes, LoopTypes
  <2>3. \A i \in Top.insts :
          <<IF Top.hook = "start" THEN RunHook("start", i) ELSE User(Top.hook, i),
            ForEach(Top.hook, Top.insts \ {i})>> \o Rest \in Seq(F)
    BY <1>2, <2>1, <2>2, PushTwo
  <2>4. stack' \in Seq(F)
    BY <1>2, <1>8, <2>1, <2>3 DEF ForEachNext
  <2>5. QED BY <1>3, <1>8, <2>4 DEF ForEachNext
<1>9. CASE DisposeNext
  <2>1. stack # <<>> /\ Top.t = "dispose"
    BY <1>9 DEF DisposeNext, At
  <2>2. DisposeModules(modules[Top.inst]) \in F /\ DestroyOne(Top.inst) \in F
    BY <1>1, <1>2, <2>1, FrameTypes, LoopTypes
  <2>3. stack' \in Seq(F)
    BY <1>2, <1>9, <2>1, <2>2, PushTwo DEF DisposeNext
  <2>4. QED BY <1>3, <1>9, <2>3 DEF DisposeNext
<1>10. CASE DisposeModulesNext
  <2>1. stack # <<>>
    BY <1>10 DEF DisposeModulesNext, At
  <2>2. \A i \in Top.insts :
          DisposeOne(i) \in F /\ DisposeModules(Top.insts \ {i}) \in F
    BY <1>1, <1>2, <2>1, FrameTypes, LoopTypes
  <2>3. \A i \in Top.insts :
          <<DisposeOne(i), DisposeModules(Top.insts \ {i})>> \o Rest \in Seq(F)
    BY <1>2, <2>1, <2>2, PushTwo
  <2>4. stack' \in Seq(F)
    BY <1>2, <1>10, <2>1, <2>3 DEF DisposeModulesNext
  <2>5. QED BY <1>3, <1>10, <2>4 DEF DisposeModulesNext
<1>11. CASE CallbackReturns
  BY <1>2, <1>3, <1>11 DEF CallbackReturns, Returns, At
<1>12. CASE \E i \in records : Unregister(i)
  <2>1. PICK i \in records : Unregister(i)
    BY <1>12
  <2>2. DisposeOne(i) \in F
    BY <1>1, FrameTypes
  <2>3. QED BY <1>1, <1>3, <2>1, <2>2, PushOne DEF Unregister
<1>13. QED
  BY <1>4, <1>5, <1>6, <1>7, <1>8, <1>9, <1>10, <1>11, <1>12

(* What a step that creates nothing has to show. *)
LEMMA OldInstances ==
  ASSUME TypeInv, UNCHANGED record,
         stack' \in Seq(Frames(Len(record))),
         records' \subseteq Created,
         place' \in [Inst -> Place],
         modules' \in [Inst -> SUBSET Created],
         serviceModules' \in [Inst -> Seq(Created)],
         isServiceRegistered' \subseteq Inst, isInitialized' \subseteq Inst,
         isStarted' \subseteq Inst, isDestroyed' \subseteq Inst, aborted' \subseteq Inst,
         initialized' \in BOOLEAN, started' \in BOOLEAN,
         disposed' \in BOOLEAN, subscribed' \in BOOLEAN, failed' \in BOOLEAN,
         waiting' \in [Waiter -> WaiterState],
         answer' \in [Waiter -> Inst \cup {0}],
         initWaiting' \in [InitWaiter -> WaiterState],
         reported' \in [Inst -> SUBSET Report],
         called' \in [Inst -> [CountedHook -> 0 .. 2]]
  PROVE  TypeInv'
<1>1. Created \subseteq Inst
  BY BoundAssumption DEF TypeInv, TypeOK, Created, Inst
<1>2. serviceModules' \in [Inst -> Seq(Inst)]
  <2> DEFINE T == serviceModules'
  <2>1. T \in [Inst -> Seq(Created)]
    OBVIOUS
  <2> HIDE DEF T
  <2>2. T \in [Inst -> Seq(Inst)]
    BY <1>1, <2>1, FunctionsGrow
  <2>3. QED BY <2>2 DEF T
<1>3. stack' \in Seq(Frame)
  BY FramesGrow DEF TypeInv, TypeOK
<1>4. TypeOK'
  BY <1>1, <1>2, <1>3 DEF TypeInv, TypeOK
<1>5. Bounded'
  BY DEF TypeInv, Bounded, Created, Frames
<1>6. QED BY <1>4, <1>5 DEF TypeInv

(* The history counters and reports. *)
LEMMA HistoryType ==
  ASSUME TypeInv
  PROVE  /\ \A h \in CountedHook, i \in Inst :
              Count(h, i) => called' \in [Inst -> [CountedHook -> 0 .. 2]]
         /\ \A i : \A what \in Report : Log(i, what) => reported' \in [Inst -> SUBSET Report]
<1>1. called \in [Inst -> [CountedHook -> 0 .. 2]] /\ reported \in [Inst -> SUBSET Report]
  BY DEF TypeInv, TypeOK
<1>2. ASSUME NEW h \in CountedHook, NEW i \in Inst, Count(h, i)
      PROVE  called' \in [Inst -> [CountedHook -> 0 .. 2]]
  <2> DEFINE row == [called[i] EXCEPT ![h] = IF @ < 2 THEN @ + 1 ELSE 2]
  <2>1. called[i] \in [CountedHook -> 0 .. 2] /\ called[i][h] \in 0 .. 2
    BY <1>1
  <2>2. row \in [CountedHook -> 0 .. 2]
    BY <2>1
  <2>3. called' = [called EXCEPT ![i] = row]
    BY <1>2 DEF Count
  <2> HIDE DEF row
  <2>4. QED BY <1>1, <2>2, <2>3
<1>3. ASSUME NEW i, NEW what \in Report, Log(i, what)
      PROVE  reported' \in [Inst -> SUBSET Report]
  BY <1>1, <1>3 DEF Log
<1>4. QED BY <1>2, <1>3

(* initializeRecord, startRecord and the destruction of a record. *)
LEMMA HookType ==
  ASSUME TypeInv, HookNext \/ HookModulesNext \/ DestroyNext
  PROVE  TypeInv'
<1> DEFINE L == Len(record)
           F == Frames(L)
<1>1. /\ L \in Nat /\ stack # <<>> /\ Rest \in Seq(F)
      /\ Top.inst \in 1 .. L /\ Top.inst \in Inst /\ Top.n \in Nat
      /\ Top.t \in {"hook", "hookModules"} => Top.hook \in {"initialize", "start"}
      /\ Top.t = "hookModules" => Top.n # 0
  BY TopType, TopFields DEF HookNext, HookModulesNext, DestroyNext, At, Created
<1>2. \A i \in 1 .. L : i \in Inst
  BY BoundAssumption DEF TypeInv, TypeOK, Inst
<1>3. \A h \in Hook, i \in 1 .. L : User(h, i) \in F
  BY <1>1, FrameTypes
<1>4. CASE HookNext
  <2>1. Top.hook \in {"initialize", "start"}
    BY <1>1, <1>4 DEF HookNext, At
  <2>2. /\ User(Top.hook, Top.inst) \in F
        /\ RunHookModules(Top.hook, Top.inst, 0 + 1) \in F
    BY <1>1, <1>3, <2>1, FrameTypes DEF Hook
  <2>3. stack' \in Seq(F)
    BY <1>1, <1>4, <2>2, PushTwo DEF HookNext
  <2>4. called' \in [Inst -> [CountedHook -> 0 .. 2]]
    BY <1>1, <1>4, <2>1, HistoryType DEF HookNext, CountedHook, TypeInv, TypeOK
  <2>5. UNCHANGED <<registryVars, flagVars, managerVars, waiterVars, reported, failed>>
    BY <1>4 DEF HookNext
  <2>6. QED
    BY <2>3, <2>4, <2>5, OldInstances
    DEF TypeInv, TypeOK, Bounded, registryVars, flagVars, managerVars, waiterVars
<1>5. CASE HookModulesNext
  <2> DEFINE ms == serviceModules[Top.inst]
             onward == <<RunHookModules(Top.hook, Top.inst, Top.n + 1)>> \o Rest
  <2>1. Top.hook \in {"initialize", "start"}
    BY <1>1, <1>5 DEF HookModulesNext, At
  <2>2. onward \in Seq(F)
    <3>1. RunHookModules(Top.hook, Top.inst, Top.n + 1) \in F
      BY <1>1, <2>1, FrameTypes
    <3>2. QED BY <1>1, <3>1, PushOne
  <2>3. ms \in Seq(1 .. L)
    BY <1>1 DEF TypeInv, Bounded, Created
  <2>4. UNCHANGED <<registryVars, flagVars, managerVars, waiterVars, failed>>
    BY <1>5 DEF HookModulesNext
  <2>5. ASSUME stack' \in Seq(F),
               called' \in [Inst -> [CountedHook -> 0 .. 2]],
               reported' \in [Inst -> SUBSET Report]
        PROVE  TypeInv'
    BY <2>4, <2>5, OldInstances
    DEF TypeInv, TypeOK, Bounded, registryVars, flagVars, managerVars, waiterVars
  <2>6. CASE stack' = onward /\ UNCHANGED <<called, reported>>
    BY <2>2, <2>5, <2>6 DEF TypeInv, TypeOK
  <2>7. CASE /\ Top.n <= Len(ms) /\ ms[Top.n] \notin Flagged(Top.hook)
             /\ stack' = <<User(Top.hook, ms[Top.n])>> \o onward
             /\ Count(Top.hook, ms[Top.n])
             /\ UNCHANGED reported
    <3>1. ms[Top.n] \in 1 .. L
      <4>1. Top.n \in 1 .. Len(ms)
        BY <1>1, <1>5, <2>3, <2>7 DEF HookModulesNext, At
      <4>2. QED BY <2>3, <4>1, ElementOfSeq
    <3>2. User(Top.hook, ms[Top.n]) \in F
      BY <1>3, <2>1, <3>1 DEF Hook
    <3>3. stack' \in Seq(F)
      BY <2>2, <2>7, <3>2, PushOne
    <3>4. called' \in [Inst -> [CountedHook -> 0 .. 2]]
      BY <1>2, <2>1, <2>7, <3>1, HistoryType DEF CountedHook
    <3>5. QED BY <2>5, <2>7, <3>3, <3>4 DEF TypeInv, TypeOK
  <2>8. CASE /\ stack' = Rest
             /\ Log(Top.inst, IF Top.hook = "initialize" THEN "service_initialized"
                                                         ELSE "service_started")
             /\ UNCHANGED called
    <3> DEFINE what == IF Top.hook = "initialize" THEN "service_initialized" ELSE "service_started"
    <3>1. what \in Report /\ Log(Top.inst, what)
      BY <2>8 DEF Report
    <3> HIDE DEF what
    <3>2. reported' \in [Inst -> SUBSET Report]
      BY <3>1, HistoryType
    <3>3. QED BY <1>1, <2>5, <2>8, <3>2 DEF TypeInv, TypeOK
  <2>9. QED BY <1>5, <2>6, <2>7, <2>8 DEF HookModulesNext
<1>6. CASE DestroyNext
  <2>1. User("destroy", Top.inst) \in F
    BY <1>1, <1>3 DEF Hook
  <2>2. stack' \in Seq(F)
    BY <1>1, <1>6, <2>1, PushOne DEF DestroyNext
  <2>3. /\ called' \in [Inst -> [CountedHook -> 0 .. 2]]
        /\ reported' \in [Inst -> SUBSET Report]
    <3>1. Count("destroy", Top.inst) /\ Log(Top.inst, "service_disposed")
      BY <1>6 DEF DestroyNext
    <3>2. "destroy" \in CountedHook /\ "service_disposed" \in Report
      BY DEF CountedHook, Report
    <3>3. QED BY <1>1, <3>1, <3>2, HistoryType
  <2>4. aborted' \subseteq Inst
    BY <1>1, <1>6 DEF DestroyNext, TypeInv, TypeOK
  <2>5. UNCHANGED <<registryVars, isServiceRegistered, isInitialized, isStarted, isDestroyed,
                    managerVars, waiterVars, failed>>
    BY <1>6 DEF DestroyNext
  <2>6. QED
    BY <2>2, <2>3, <2>4, <2>5, OldInstances
    DEF TypeInv, TypeOK, Bounded, registryVars, managerVars, waiterVars
<1>7. QED BY <1>4, <1>5, <1>6

(* Where addRecord puts an instance. *)
LEMMA PlaceType ==
  ASSUME TypeInv, NEW i
  PROVE  PlaceFor(i) \in Place
<1> DEFINE arrived == {j \in Inst : place[j].arrived # 0}
           now == Cardinality(arrived) + 1
           bucket == Bucket(TokenOf[Svc(i)])
<1>1. now \in Nat
  <2>1. IsFiniteSet(Inst)
    BY FS_Interval, BoundAssumption DEF Inst
  <2>2. IsFiniteSet(arrived)
    BY <2>1, FS_Subset
  <2>3. QED BY <2>2, FS_CardinalityType
<1> HIDE DEF now
<1>2. bucket # {} => (CHOOSE k \in {place[j].key : j \in bucket} : TRUE) \in Nat
  <2> SUFFICES ASSUME bucket # {}
               PROVE  (CHOOSE k \in {place[j].key : j \in bucket} : TRUE) \in Nat
    OBVIOUS
  <2>1. \A j \in bucket : place[j].key \in Nat
    BY DEF Bucket, TypeInv, TypeOK, Place
  <2>2. {place[j].key : j \in bucket} # {} /\ {place[j].key : j \in bucket} \subseteq Nat
    BY <2>1
  <2>3. QED BY <2>2
<1>3. PlaceFor(i) = [arrived |-> now,
                     key |-> IF bucket = {} THEN now
                             ELSE CHOOSE k \in {place[j].key : j \in bucket} : TRUE]
  BY DEF PlaceFor, now
<1>4. QED BY <1>1, <1>2, <1>3 DEF Place

(* User code that returns to the manager, or throws. *)
LEMMA ReturnType ==
  ASSUME TypeInv,
         ConstructReturns \/ InitializeReturns \/ StartReturns \/ DestroyReturns \/ UserThrows
  PROVE  TypeInv'
<1> DEFINE L == Len(record)
           F == Frames(L)
<1>1. /\ L \in Nat /\ stack # <<>> /\ Rest \in Seq(F)
      /\ Top.inst \in Created /\ Top.inst \in Inst
  BY TopType, TopFields
  DEF ConstructReturns, InitializeReturns, StartReturns, DestroyReturns, UserThrows,
      Returns, At
<1>2. CASE ConstructReturns
  <2>1. /\ waiting' \in [Waiter -> WaiterState]
        /\ answer' \in [Waiter -> Inst \cup {0}]
    BY <1>1, <1>2 DEF ConstructReturns, TypeInv, TypeOK, WaiterState
  <2>2. /\ records' \subseteq Created /\ isServiceRegistered' \subseteq Inst
        /\ stack' \in Seq(F)
    BY <1>1, <1>2 DEF ConstructReturns, Returns, TypeInv, TypeOK, Bounded
  <2>3. UNCHANGED <<record, modules, serviceModules, isInitialized, isStarted, isDestroyed,
                    aborted, managerVars, initWaiting, historyVars>>
    BY <1>2 DEF ConstructReturns
  <2>4. place' \in [Inst -> Place]
    <3>1. place' = [place EXCEPT ![Top.inst] = PlaceFor(Top.inst)]
      BY <1>2 DEF ConstructReturns
    <3>2. place \in [Inst -> Place] /\ PlaceFor(Top.inst) \in Place
      BY PlaceType DEF TypeInv, TypeOK
    <3>3. QED BY <3>1, <3>2
  <2>5. QED
    BY <2>1, <2>2, <2>3, <2>4, OldInstances
    DEF TypeInv, TypeOK, Bounded, managerVars, historyVars
<1>3. CASE InitializeReturns \/ StartReturns
  <2>1. /\ isServiceRegistered' \subseteq Inst /\ isInitialized' \subseteq Inst
        /\ isStarted' \subseteq Inst /\ stack' \in Seq(F)
    BY <1>1, <1>3 DEF InitializeReturns, StartReturns, Returns, TypeInv, TypeOK
  <2>2. UNCHANGED <<registryVars, isDestroyed, aborted, managerVars, waiterVars, historyVars>>
    BY <1>3 DEF InitializeReturns, StartReturns
  <2>3. QED
    BY <2>1, <2>2, OldInstances
    DEF TypeInv, TypeOK, Bounded, registryVars, managerVars, waiterVars, historyVars
<1>4. CASE DestroyReturns
  <2> DEFINE p == record[Top.inst].parent
             ms == Without(serviceModules[p], Top.inst)
  <2>1. serviceModules' \in [Inst -> Seq(Created)]
    <3>1. serviceModules \in [Inst -> Seq(Created)]
      BY DEF TypeInv, Bounded
    <3>2. CASE p = 0
      BY <1>4, <3>1, <3>2 DEF DestroyReturns
    <3>3. CASE p # 0
      <4>1. p \in Inst
        <5>1. p \in 0 .. L
          BY <1>1 DEF TypeInv, Bounded
        <5>2. L <= MaxInstances /\ MaxInstances \in Nat
          BY BoundAssumption DEF TypeInv, TypeOK
        <5>3. QED BY <1>1, <3>3, <5>1, <5>2 DEF Inst
      <4>2. ms \in Seq(Created)
        BY <3>1, <4>1, WithoutType
      <4>3. serviceModules' = [serviceModules EXCEPT ![p] = ms]
        BY <1>4, <3>3 DEF DestroyReturns
      <4> HIDE DEF ms
      <4>4. QED BY <3>1, <4>1, <4>2, <4>3
    <3>4. QED BY <3>2, <3>3
  <2>2. /\ modules' \in [Inst -> SUBSET Created] /\ records' \subseteq Created
        /\ isDestroyed' \subseteq Inst /\ isServiceRegistered' \subseteq Inst
        /\ stack' \in Seq(F)
    BY <1>1, <1>4 DEF DestroyReturns, Returns, TypeInv, TypeOK, Bounded
  <2>3. UNCHANGED <<record, place, isInitialized, isStarted, aborted, managerVars, waiterVars,
                    historyVars>>
    BY <1>4 DEF DestroyReturns
  <2>4. QED
    BY <2>1, <2>2, <2>3, OldInstances
    DEF TypeInv, TypeOK, managerVars, waiterVars, historyVars
<1>5. CASE UserThrows
  <2>1. stack' \in Seq(F)
    BY <1>1, <1>5, ThrowType DEF UserThrows, TypeInv, Bounded
  <2>2. reported' \in [Inst -> SUBSET Report]
    <3>1. CASE UNCHANGED reported
      BY <3>1 DEF TypeInv, TypeOK
    <3>2. CASE Log(Rest[1].inst, "service_failed")
      BY <3>2, HistoryType DEF Report
    <3>3. QED BY <1>5, <3>1, <3>2 DEF UserThrows
  <2>3. failed' \in BOOLEAN
    BY <1>5 DEF UserThrows, Throw
  <2>4. UNCHANGED <<registryVars, flagVars, managerVars, waiterVars, called>>
    BY <1>5 DEF UserThrows
  <2>5. QED
    BY <2>1, <2>2, <2>3, <2>4, OldInstances
    DEF TypeInv, TypeOK, Bounded, registryVars, flagVars, managerVars, waiterVars
<1>6. QED BY <1>2, <1>3, <1>4, <1>5

(* The ends of the outer loops, and the calls that set the manager's flags. *)
LEMMA ManagerType ==
  ASSUME TypeInv, ProfileDone \/ ModulesDone \/ Start \/ Dispose \/ DisposeAllNext
  PROVE  TypeInv'
<1> DEFINE L == Len(record)
           F == Frames(L)
<1>1. L \in Nat /\ records \subseteq 1 .. L /\ stack \in Seq(F)
  BY DEF TypeInv, TypeOK, Bounded, Created
<1>2. ASSUME stack # <<>> PROVE Rest \in Seq(F) /\ Top.insts \subseteq 1 .. L
  BY <1>2, TopType, TopFields DEF Created
<1>3. CASE ProfileDone
  <2>1. initWaiting' \in [InitWaiter -> WaiterState] /\ initialized' \in BOOLEAN
    BY <1>3 DEF ProfileDone, TypeInv, TypeOK, WaiterState
  <2>2. stack' \in Seq(F)
    BY <1>2, <1>3 DEF ProfileDone, At
  <2>3. UNCHANGED <<registryVars, flagVars, started, disposed, subscribed, waiting, answer,
                    historyVars>>
    BY <1>3 DEF ProfileDone
  <2>4. QED
    BY <2>1, <2>2, <2>3, OldInstances
    DEF TypeInv, TypeOK, Bounded, registryVars, flagVars, historyVars
<1>4. CASE ModulesDone
  <2>1. modules' \in [Inst -> SUBSET Created]
    BY <1>4 DEF ModulesDone, TypeInv, Bounded, Created
  <2>2. stack' \in Seq(F)
    BY <1>2, <1>4 DEF ModulesDone, At
  <2>3. UNCHANGED <<record, records, place, serviceModules, flagVars, managerVars, waiterVars,
                    historyVars>>
    BY <1>4 DEF ModulesDone
  <2>4. QED
    BY <2>1, <2>2, <2>3, OldInstances
    DEF TypeInv, TypeOK, Bounded, flagVars, managerVars, waiterVars, historyVars
<1>5. CASE Start \/ Dispose
  <2>1. ForEach("start", records) \in F /\ DisposeAll(records) \in F
    BY <1>1, LoopTypes DEF Looped
  <2>2. stack' \in Seq(F)
    BY <1>1, <1>5, <2>1, PushOne DEF Start, Dispose
  <2>3. /\ started' \in BOOLEAN /\ disposed' \in BOOLEAN
        /\ UNCHANGED <<registryVars, flagVars, initialized, subscribed, waiterVars, historyVars>>
    BY <1>5 DEF Start, Dispose, TypeInv, TypeOK
  <2>4. QED
    BY <2>2, <2>3, OldInstances
    DEF TypeInv, TypeOK, Bounded, registryVars, flagVars, waiterVars, historyVars
<1>6. CASE DisposeAllNext
  <2>1. stack # <<>>
    BY <1>6 DEF DisposeAllNext, At
  <2>2. \A i \in Top.insts : DisposeOne(i) \in F /\ DisposeAll(Top.insts \ {i}) \in F
    BY <1>1, <1>2, <2>1, FrameTypes, LoopTypes
  <2>3. \A i \in Top.insts : <<DisposeOne(i), DisposeAll(Top.insts \ {i})>> \o Rest \in Seq(F)
    BY <1>2, <2>1, <2>2, PushTwo
  <2>4. stack' \in Seq(F)
    BY <1>2, <1>6, <2>1, <2>3 DEF DisposeAllNext
  <2>5. /\ subscribed' \in BOOLEAN
        /\ UNCHANGED <<registryVars, flagVars, initialized, started, disposed, waiterVars,
                       historyVars>>
    BY <1>6 DEF DisposeAllNext, TypeInv, TypeOK
  <2>6. QED
    BY <2>4, <2>5, OldInstances
    DEF TypeInv, TypeOK, Bounded, registryVars, flagVars, waiterVars, historyVars
<1>7. QED BY <1>3, <1>4, <1>5, <1>6

(* Promises settle without touching the registry. *)
LEMMA WaitType ==
  ASSUME TypeInv, Wait
  PROVE  TypeInv'
<1>1. UNCHANGED <<registryVars, flagVars, managerVars, historyVars, stack>>
  BY DEF Wait, ResolveAsync, ResolveTimeout, WaitUntilInitialized, InitializationTimeout
<1>2. waiting' \in [Waiter -> WaiterState] /\ initWaiting' \in [InitWaiter -> WaiterState]
  BY DEF Wait, ResolveAsync, ResolveTimeout, WaitUntilInitialized, InitializationTimeout,
         TypeInv, TypeOK, WaiterState
<1>3. answer' \in [Waiter -> Inst \cup {0}]
  <2>1. answer \in [Waiter -> Inst \cup {0}] /\ records \subseteq Inst
    BY DEF TypeInv, TypeOK
  <2>2. CASE UNCHANGED answer
    BY <2>1, <2>2
  <2>3. CASE \E w \in Waiter : \E i \in records : answer' = [answer EXCEPT ![w] = i]
    BY <2>1, <2>3
  <2>4. QED
    BY <2>2, <2>3
    DEF Wait, ResolveAsync, ResolveTimeout, WaitUntilInitialized, InitializationTimeout
<1>4. QED
  BY <1>1, <1>2, <1>3, OldInstances
  DEF TypeInv, TypeOK, Bounded, registryVars, flagVars, managerVars, historyVars

LEMMA TypeStep ==
  TypeInv /\ [Next]_vars => TypeInv'
<1> SUFFICES ASSUME TypeInv, [Next]_vars
             PROVE  TypeInv'
  OBVIOUS
<1>1. CASE Advance
  BY <1>1, ActivationType, LoopType, HookType, ReturnType, ManagerType DEF Advance
<1>2. CASE Call
  BY <1>2, ActivationType, LoopType, ManagerType DEF Call
<1>3. CASE Wait
  BY <1>3, WaitType
<1>4. CASE UNCHANGED vars
  BY <1>4, StackStep
  DEF TypeInv, Bounded, vars, registryVars, flagVars, managerVars, waiterVars, historyVars
<1>5. QED BY <1>1, <1>2, <1>3, <1>4 DEF Next

LEMMA TypeInit ==
  Init => TypeInv
<1> SUFFICES ASSUME Init PROVE TypeInv
  OBVIOUS
<1>1. Inst \subseteq Nat /\ MaxInstances \in Nat
  BY BoundAssumption DEF Inst
<1>2. TypeOK
  <2>1. <<>> \in Seq(Record) /\ <<>> \in Seq(Frame) /\ <<>> \in Seq(Inst) /\ Len(<<>>) = 0
    OBVIOUS
  <2>2. [i \in Inst |-> [h \in CountedHook |-> 0]] \in [Inst -> [CountedHook -> 0 .. 2]]
    OBVIOUS
  <2>3. called \in [Inst -> [CountedHook -> 0 .. 2]]
    BY <2>2 DEF Init
  <2>4. /\ record \in Seq(Record) /\ stack \in Seq(Frame) /\ Len(record) <= MaxInstances
        /\ serviceModules \in [Inst -> Seq(Inst)]
    BY <1>1, <2>1 DEF Init
  <2>5. /\ waiting \in [Waiter -> WaiterState] /\ initWaiting \in [InitWaiter -> WaiterState]
        /\ answer \in [Waiter -> Inst \cup {0}]
    BY DEF Init, WaiterState
  <2>6. place \in [Inst -> Place]
    BY DEF Init, Place
  <2>7. modules \in [Inst -> SUBSET Inst] /\ reported \in [Inst -> SUBSET Report]
    BY DEF Init
  <2>8. QED BY <2>3, <2>4, <2>5, <2>6, <2>7 DEF Init, TypeOK
<1>3. Bounded
  BY <1>1 DEF Init, Bounded, Created
<1>4. QED BY <1>2, <1>3 DEF TypeInv

(* Every variable keeps its type, and the manager refers only to instances *)
(* it has created, however callbacks throw or re-enter it.                 *)
THEOREM TypeCorrect ==
  Spec => []TypeInv
<1>1. Init => TypeInv
  BY TypeInit
<1>2. TypeInv /\ [Next]_vars => TypeInv'
  BY TypeStep
<1>3. QED BY <1>1, <1>2, PTL DEF Spec

(* The type invariant the runs check. *)
THEOREM TypesHold ==
  Spec => []TypeOK
<1>1. TypeInv => TypeOK
  BY DEF TypeInv
<1>2. QED BY <1>1, TypeCorrect, PTL

-----------------------------------------------------------------------------

Constructs == ProfileNext \/ ModulesNext \/ \E s \in Service : Register(s)

(* What a step does to the registry and to the waiters. *)
LEMMA RegistrySteps ==
  ASSUME [Next]_vars
  PROVE  \/ UNCHANGED <<record, records, initialized, waiterVars>>
         \/ Constructs
         \/ ConstructReturns
         \/ DestroyReturns
         \/ ProfileDone
         \/ Wait
<1>1. CASE Call
  BY <1>1
  DEF Call, Constructs, InitializeProfile, Start, Tick, Reset, Dispose, Unregister,
      registryVars, managerVars, waiterVars
<1>2. CASE Advance
  BY <1>2
  DEF Advance, Constructs, ModulesDone, WalkNext, StartIfStartedNext, HookNext,
      HookModulesNext, ForEachNext, DisposeAllNext, DisposeNext, DisposeModulesNext,
      DestroyNext, InitializeReturns, StartReturns, CallbackReturns, UserThrows,
      registryVars, managerVars, waiterVars
<1>3. CASE UNCHANGED vars
  BY <1>3 DEF vars, registryVars, managerVars, waiterVars
<1>4. QED BY <1>1, <1>2, <1>3 DEF Next

(* An activation step appends at most one record and leaves the rest. *)
LEMMA ConstructsKeep ==
  ASSUME TypeInv, Constructs
  PROVE  /\ \A i \in Created : record'[i] = record[i]
         /\ UNCHANGED <<records, isDestroyed, aborted, initialized, waiterVars>>
<1>1. \/ \E s \in Service : \E p, c : Construct(s, p, c)
      \/ UNCHANGED <<registryVars, flagVars, managerVars, waiterVars>>
  <2>1. CASE ProfileNext
    <3>1. Top.svcs \subseteq Service
      BY <2>1, TopFields DEF ProfileNext, At
    <3>2. QED BY <2>1, <3>1 DEF ProfileNext
  <2>2. CASE ModulesNext
    <3>1. Top.svcs \subseteq Service
      BY <2>2, TopFields DEF ModulesNext, At
    <3>2. QED BY <2>2, <3>1 DEF ModulesNext
  <2>3. CASE \E s \in Service : Register(s)
    BY <2>3 DEF Register
  <2>4. QED BY <2>1, <2>2, <2>3 DEF Constructs
<1>2. ASSUME NEW s \in Service, NEW p, NEW c, Construct(s, p, c)
      PROVE  /\ \A i \in Created : record'[i] = record[i]
             /\ UNCHANGED <<records, flagVars, managerVars, waiterVars>>
  <2>1. record \in Seq(Record)
    BY DEF TypeInv, TypeOK
  <2> DEFINE r == [svc |-> s, parent |-> p, deps |-> Resolved(s)]
  <2>2. record' = Append(record, r)
    BY <1>2 DEF Construct
  <2> HIDE DEF r
  <2>3. \A i \in Created : record'[i] = record[i]
    BY <2>1, <2>2 DEF Created
  <2>4. QED BY <1>2, <2>3 DEF Construct
<1>3. CASE UNCHANGED <<registryVars, flagVars, managerVars, waiterVars>>
  BY <1>3 DEF registryVars, flagVars, managerVars
<1>4. QED BY <1>1, <1>2, <1>3 DEF flagVars, managerVars

-----------------------------------------------------------------------------
(* No lost wake-up *)

LEMMA WakeupStep ==
  TypeInv /\ NoLostWakeup /\ [Next]_vars => NoLostWakeup'
<1> SUFFICES ASSUME TypeInv, NoLostWakeup, [Next]_vars
             PROVE  NoLostWakeup'
  OBVIOUS
<1>1. CASE UNCHANGED <<record, records, initialized, waiterVars>>
  BY <1>1 DEF NoLostWakeup, Accepts, Svc, waiterVars
<1>2. CASE Constructs
  <2>1. /\ \A i \in Created : record'[i] = record[i]
        /\ UNCHANGED <<records, initialized, waiting, initWaiting>>
    BY <1>2, ConstructsKeep DEF waiterVars
  <2>2. \A i \in records : record'[i] = record[i]
    BY <2>1 DEF TypeInv, Bounded
  <2>3. \A w \in Waiter, i \in records : Accepts(w, i)' = Accepts(w, i)
    BY <2>2 DEF Accepts, Svc
  <2>4. QED BY <2>1, <2>3 DEF NoLostWakeup
<1>3. CASE ConstructReturns
  <2>1. records' = records \cup {Top.inst}
    BY <1>3 DEF ConstructReturns
  <2>2. \A w \in Waiter :
          waiting'[w] = "pending" => waiting[w] = "pending" /\ ~Accepts(w, Top.inst)
    BY <1>3 DEF ConstructReturns
  <2>3. UNCHANGED <<record, initialized, initWaiting>>
    BY <1>3 DEF ConstructReturns, managerVars
  <2>4. QED BY <2>1, <2>2, <2>3 DEF NoLostWakeup, Accepts, Svc
<1>4. CASE DestroyReturns
  <2>1. records' \subseteq records
    BY <1>4 DEF DestroyReturns
  <2>2. QED BY <1>4, <2>1 DEF DestroyReturns, NoLostWakeup, Accepts, Svc, managerVars, waiterVars
<1>5. CASE ProfileDone
  <2>1. \A w \in InitWaiter : initWaiting'[w] # "pending"
    BY <1>5 DEF ProfileDone
  <2>2. QED BY <1>5, <2>1 DEF ProfileDone, NoLostWakeup, Accepts, Svc, registryVars
<1>6. CASE Wait
  <2>1. UNCHANGED <<record, records, initialized>>
    BY <1>6 DEF Wait, ResolveAsync, ResolveTimeout, WaitUntilInitialized,
                InitializationTimeout, registryVars, managerVars
  <2>2. waiting \in [Waiter -> WaiterState] /\ initWaiting \in [InitWaiter -> WaiterState]
    BY DEF TypeInv, TypeOK
  <2>3. \A w \in Waiter : waiting'[w] = "pending" =>
          waiting[w] = "pending" \/ {i \in records : Accepts(w, i)} = {}
    BY <1>6, <2>2 DEF Wait, ResolveAsync, ResolveTimeout, WaitUntilInitialized,
                      InitializationTimeout
  <2>4. \A w \in InitWaiter : initWaiting'[w] = "pending" =>
          initWaiting[w] = "pending" \/ ~initialized
    BY <1>6, <2>2 DEF Wait, ResolveAsync, ResolveTimeout, WaitUntilInitialized,
                      InitializationTimeout
  <2>5. \A w \in Waiter : waiting'[w] = "pending" => \A i \in records : ~Accepts(w, i)
    BY <2>3 DEF NoLostWakeup
  <2>6. QED BY <2>1, <2>4, <2>5 DEF NoLostWakeup, Accepts, Svc
<1>7. QED BY <1>1, <1>2, <1>3, <1>4, <1>5, <1>6, RegistrySteps

(* A pending resolveAsync call accepts none of the registered services and *)
(* a pending waitUntilInitialized call has not been overtaken by the       *)
(* profile: no registration slips between tryResolve, the waiter list and  *)
(* notifyWaiters (service-manager.ts 205-249, 550-582), for any number of  *)
(* waiters and services, and whatever constructors throw or re-enter.      *)
THEOREM NoWakeupIsLost ==
  Spec => []NoLostWakeup
<1>1. Init => NoLostWakeup
  BY DEF Init, NoLostWakeup
<1>2. TypeInv /\ NoLostWakeup /\ [Next]_vars => NoLostWakeup'
  BY WakeupStep
<1>3. QED BY <1>1, <1>2, TypeCorrect, PTL DEF Spec

-----------------------------------------------------------------------------
(* Destroyed services are gone.                                            *)
(*                                                                         *)
(* The property alone is not inductive: a constructor that returns would   *)
(* put a destroyed instance back, were it not for the fact that no         *)
(* instance is both under construction and known to the registry, and that *)
(* two constructors never build the same one.                              *)

Constructing(f) == f.t = "user" /\ f.hook = "construct"
Leaving(f) == f.t = "user" /\ f.hook = "destroy"
Destroying(f) == f.t = "destroy" \/ Leaving(f)
Quiet(f) == ~Constructing(f) /\ ~Destroying(f)

Known == records \cup isDestroyed

StackKnows ==
  /\ \A k \in 1 .. Len(stack) :
       /\ Constructing(stack[k]) => stack[k].inst \notin Known
       /\ Destroying(stack[k]) => stack[k].inst \in Known
       /\ Leaving(stack[k]) => stack[k].inst \in aborted
  /\ \A j, k \in 1 .. Len(stack) :
       (Constructing(stack[j]) /\ Constructing(stack[k]) /\ j # k)
         => stack[j].inst # stack[k].inst

DestroyInv ==
  /\ DestroyedIsGone
  /\ isDestroyed \subseteq Created
  /\ StackKnows

(* Stack t is stack s, moved by d frames, under new quiet frames. *)
ShiftedBy(s, t, d) ==
  \A k \in 1 .. Len(t) :
    Quiet(t[k]) \/ (k - d \in 1 .. Len(s) /\ t[k] = s[k - d])

Shifts(s, t) == \E d \in Int : ShiftedBy(s, t, d)

LEMMA ShiftPush ==
  ASSUME NEW S, NEW s \in Seq(S), NEW f \in S, NEW g \in S, Quiet(f), Quiet(g)
  PROVE  Shifts(s, s) /\ Shifts(s, <<f>> \o s) /\ Shifts(s, <<f, g>> \o s)
<1>1. 0 \in Int /\ 1 \in Int /\ 2 \in Int
  OBVIOUS
<1>2. ShiftedBy(s, s, 0)
  BY DEF ShiftedBy
<1>3. ShiftedBy(s, <<f>> \o s, 1)
  <2>1. \A k \in 1 .. Len(<<f>> \o s) :
          Quiet((<<f>> \o s)[k]) \/ (k - 1 \in 1 .. Len(s) /\ (<<f>> \o s)[k] = s[k - 1])
    OBVIOUS
  <2>2. QED BY <2>1, Zenon DEF ShiftedBy
<1>4. ShiftedBy(s, <<f, g>> \o s, 2)
  <2>1. \A k \in 1 .. Len(<<f, g>> \o s) :
          Quiet((<<f, g>> \o s)[k]) \/ (k - 2 \in 1 .. Len(s) /\ (<<f, g>> \o s)[k] = s[k - 2])
    OBVIOUS
  <2>2. QED BY <2>1, Zenon DEF ShiftedBy
<1>5. QED BY <1>1, <1>2, <1>3, <1>4, Zenon DEF Shifts

LEMMA ShiftQuiet ==
  ASSUME NEW S, NEW q \in Seq(S), NEW s \in Seq(S), \A k \in 1 .. Len(q) : Quiet(q[k])
  PROVE  Shifts(s, q \o s) /\ Len(q \o s) \in Nat
<1>1. Len(q) \in Nat /\ Len(s) \in Nat /\ Len(q \o s) = Len(q) + Len(s)
  BY ConcatProperties
<1>2. \A k \in 1 .. Len(q \o s) :
        Quiet((q \o s)[k]) \/ (k - Len(q) \in 1 .. Len(s) /\ (q \o s)[k] = s[k - Len(q)])
  <2>1. \A k \in 1 .. Len(q) + Len(s) :
          (q \o s)[k] = IF k <= Len(q) THEN q[k] ELSE s[k - Len(q)]
    BY ConcatProperties
  <2> SUFFICES ASSUME NEW k \in 1 .. Len(q \o s), ~(k <= Len(q))
               PROVE  k - Len(q) \in 1 .. Len(s) /\ (q \o s)[k] = s[k - Len(q)]
    BY <1>1, <2>1
  <2>2. QED BY <1>1, <2>1
<1>3. Len(q) \in Int
  BY <1>1
<1>4. ShiftedBy(s, q \o s, Len(q))
  BY <1>2, Zenon DEF ShiftedBy
<1>5. Shifts(s, q \o s)
  BY <1>3, <1>4, Zenon DEF Shifts
<1>6. Len(q \o s) \in Nat
  BY <1>1
<1>7. QED BY <1>5, <1>6

(* Dropping frames from the front. *)
LEMMA ShiftDrop ==
  ASSUME NEW S, NEW s \in Seq(S), NEW m \in 1 .. (Len(s) + 1)
  PROVE  Shifts(s, SubSeq(s, m, Len(s)))
<1> DEFINE t == SubSeq(s, m, Len(s))
<1>1. Len(t) = Len(s) - m + 1 /\ \A k \in 1 .. Len(t) : t[k] = s[m + k - 1]
  BY SubSeqProperties
<1>2. \A k \in 1 .. Len(t) : k - (1 - m) \in 1 .. Len(s) /\ t[k] = s[k - (1 - m)]
  BY <1>1
<1>3. 1 - m \in Int
  OBVIOUS
<1> HIDE DEF t
<1>4. Shifts(s, t)
  <2>1. ShiftedBy(s, t, 1 - m)
    BY <1>2 DEF ShiftedBy
  <2>2. QED BY <1>3, <2>1, Zenon DEF Shifts
<1>5. QED BY <1>4 DEF t

LEMMA ShiftCompose ==
  ASSUME NEW r, NEW s, NEW t, Len(t) \in Nat, Shifts(r, s), Shifts(s, t)
  PROVE  Shifts(r, t)
<1>1. PICK d \in Int : \A k \in 1 .. Len(s) :
        Quiet(s[k]) \/ (k - d \in 1 .. Len(r) /\ s[k] = r[k - d])
  BY DEF Shifts, ShiftedBy
<1>2. PICK e \in Int : \A k \in 1 .. Len(t) :
        Quiet(t[k]) \/ (k - e \in 1 .. Len(s) /\ t[k] = s[k - e])
  BY DEF Shifts, ShiftedBy
<1>3. \A k \in 1 .. Len(t) :
        Quiet(t[k]) \/ (k - (d + e) \in 1 .. Len(r) /\ t[k] = r[k - (d + e)])
  <2> SUFFICES ASSUME NEW k \in 1 .. Len(t), ~Quiet(t[k])
               PROVE  k - (d + e) \in 1 .. Len(r) /\ t[k] = r[k - (d + e)]
    OBVIOUS
  <2>1. k - e \in 1 .. Len(s) /\ t[k] = s[k - e]
    BY <1>2
  <2>2. (k - e) - d \in 1 .. Len(r) /\ s[k - e] = r[(k - e) - d]
    BY <1>1, <2>1
  <2>3. (k - e) - d = k - (d + e)
    OBVIOUS
  <2>4. QED BY <2>1, <2>2, <2>3
<1>4. d + e \in Int /\ ShiftedBy(r, t, d + e)
  BY <1>3 DEF ShiftedBy
<1>5. QED BY <1>4, Zenon DEF Shifts

(* Moving the stack disturbs nothing the invariant says about frames. *)
LEMMA ShiftKnows ==
  ASSUME TypeInv, DestroyInv, Shifts(stack, stack'), Len(stack') \in Nat,
         UNCHANGED <<records, isDestroyed>>, aborted \subseteq aborted'
  PROVE  StackKnows' /\ DestroyedIsGone'
<1>1. PICK d \in Int : \A k \in 1 .. Len(stack') :
        \/ Quiet(stack'[k])
        \/ k - d \in 1 .. Len(stack) /\ stack'[k] = stack[k - d]
  BY DEF Shifts, ShiftedBy
<1>2. \A k \in 1 .. Len(stack') :
        /\ Constructing(stack'[k]) => stack'[k].inst \notin Known'
        /\ Destroying(stack'[k]) => stack'[k].inst \in Known'
        /\ Leaving(stack'[k]) => stack'[k].inst \in aborted'
  BY <1>1 DEF DestroyInv, StackKnows, Quiet, Known, Destroying
<1>3. ASSUME NEW j \in 1 .. Len(stack'), NEW k \in 1 .. Len(stack'), j # k,
             Constructing(stack'[j]), Constructing(stack'[k])
      PROVE  stack'[j].inst # stack'[k].inst
  <2>1. /\ j - d \in 1 .. Len(stack) /\ stack'[j] = stack[j - d]
        /\ k - d \in 1 .. Len(stack) /\ stack'[k] = stack[k - d]
    BY <1>1, <1>3 DEF Quiet
  <2>2. j - d # k - d
    BY <1>3
  <2>3. QED BY <1>3, <2>1, <2>2 DEF DestroyInv, StackKnows
<1>4. StackKnows'
  BY <1>2, <1>3 DEF StackKnows, Constructing, Destroying, Leaving
<1>5. DestroyedIsGone'
  BY DEF DestroyInv, DestroyedIsGone
<1>6. QED BY <1>4, <1>5

LEMMA QuietFrames ==
  /\ \A S : Quiet(ProfileLoop(S)) /\ Quiet(DisposeAll(S)) /\ Quiet(DisposeModules(S))
  /\ \A i : Quiet(StartIfStarted(i)) /\ Quiet(DisposeOne(i))
  /\ \A i, S : Quiet(ModuleLoop(i, S))
  /\ \A h, i : Quiet(RunHook(h, i))
  /\ \A h, i, n : Quiet(Walk(h, i, n)) /\ Quiet(RunHookModules(h, i, n))
  /\ \A h, S : Quiet(ForEach(h, S))
  /\ \A h, i : h \notin {"construct", "destroy"} => Quiet(User(h, i))
BY DEF Quiet, Constructing, Destroying, Leaving, About, User, RunHook, Walk, RunHookModules,
       StartIfStarted, ProfileLoop, ModuleLoop, ForEach, DisposeAll, DisposeOne, DisposeModules

(* The shapes of a stack that only moved. *)
LEMMA MovedStack ==
  ASSUME TypeInv, NEW base, base = stack \/ (stack # <<>> /\ base = Rest),
         NEW f, NEW g, Quiet(f), Quiet(g)
  PROVE  /\ stack' = base => Shifts(stack, stack')
         /\ stack' = <<f>> \o base => Shifts(stack, stack')
         /\ stack' = <<f, g>> \o base => Shifts(stack, stack')
         /\ stack' = <<f>> \o (<<g>> \o base) => Shifts(stack, stack')
<1> DEFINE S == Frame \cup {f, g}
<1>1. stack \in Seq(S)
  BY DEF TypeInv, TypeOK
<1>2. base \in Seq(S)
  BY <1>1, HeadTailProperties DEF Rest
<1>3. Shifts(stack, base)
  <2>1. CASE base = stack
    BY <1>1, <2>1, ShiftPush
  <2>2. CASE stack # <<>> /\ base = Rest
    <3>1. 2 \in 1 .. (Len(stack) + 1) /\ base = SubSeq(stack, 2, Len(stack))
      BY <1>1, <2>2 DEF Rest
    <3>2. QED BY <1>1, <3>1, ShiftDrop
  <2>3. QED BY <2>1, <2>2
<1>4. f \in S /\ g \in S
  OBVIOUS
<1>5. /\ Shifts(base, base) /\ Shifts(base, <<f>> \o base) /\ Shifts(base, <<f, g>> \o base)
      /\ Len(base) \in Nat /\ Len(<<f>> \o base) \in Nat /\ Len(<<f, g>> \o base) \in Nat
  BY <1>2, <1>4, ShiftPush
<1> HIDE DEF S
<1> DEFINE inner == <<g>> \o base
<1>6. inner \in Seq(S) /\ Shifts(base, inner) /\ Len(inner) \in Nat
  BY <1>2, <1>4, ShiftPush, PushOne, LenProperties
<1> HIDE DEF inner
<1>7. Shifts(inner, <<f>> \o inner) /\ Len(<<f>> \o inner) \in Nat
  BY <1>4, <1>6, ShiftPush, PushOne, LenProperties
<1>8. Shifts(stack, <<f>> \o inner)
  BY <1>3, <1>5, <1>6, <1>7, ShiftCompose
<1>9. QED BY <1>3, <1>5, <1>8, ShiftCompose DEF inner

LEMMA MovedThrow ==
  ASSUME TypeInv, stack # <<>>, Throw
  PROVE  Shifts(stack, stack')
<1>1. stack \in Seq(Frame) /\ Rest \in Seq(Frame) /\ Len(stack) \in Nat
  BY HeadTailProperties DEF TypeInv, TypeOK, Rest
<1>2. CASE stack' = <<>>
  BY <1>2 DEF Shifts, ShiftedBy
<1>3. ASSUME NEW k \in UserFrames(Rest), stack' = SubSeq(Rest, k, Len(Rest))
      PROVE  Shifts(stack, stack')
  <2>1. k \in 1 .. (Len(Rest) + 1)
    BY <1>1 DEF UserFrames
  <2>2. Shifts(Rest, stack')
    BY <1>1, <1>3, <2>1, ShiftDrop
  <2>3. Shifts(stack, Rest)
    <3>1. 2 \in 1 .. (Len(stack) + 1) /\ Rest = SubSeq(stack, 2, Len(stack))
      BY <1>1 DEF Rest
    <3>2. QED BY <1>1, <3>1, ShiftDrop
  <2>4. Len(stack') \in Nat
    BY <1>1, <1>3, <2>1, SubSeqProperties DEF UserFrames
  <2>5. QED BY <2>2, <2>3, <2>4, ShiftCompose
<1>4. QED BY <1>2, <1>3 DEF Throw

(* The steps that only move the stack under quiet frames. *)
LEMMA LoopsMove ==
  ASSUME TypeInv,
         \/ InitializeProfile \/ ProfileDone \/ ModulesDone \/ WalkNext \/ StartIfStartedNext
         \/ HookNext \/ HookModulesNext \/ Start \/ Tick \/ Reset \/ ForEachNext
         \/ Dispose \/ DisposeAllNext \/ DisposeModulesNext
         \/ InitializeReturns \/ StartReturns \/ CallbackReturns \/ UserThrows
         \/ (\E i \in records : Unregister(i)) \/ Wait \/ UNCHANGED vars
  PROVE  Shifts(stack, stack') /\ UNCHANGED <<record, records, isDestroyed, aborted>>
<1>1. CASE InitializeProfile \/ Start \/ Tick \/ Reset \/ Dispose
           \/ (\E i \in records : Unregister(i)) \/ Wait \/ UNCHANGED vars
  <2>1. \/ stack' = stack
        \/ \E f : Quiet(f) /\ stack' = <<f>> \o stack
    BY <1>1, QuietFrames
    DEF InitializeProfile, Start, Tick, Reset, Dispose, Unregister, Wait, ResolveAsync,
        ResolveTimeout, WaitUntilInitialized, InitializationTimeout, vars
  <2>2. Shifts(stack, stack')
    <3>1. \E f : Quiet(f)
      BY QuietFrames
    <3>2. QED BY <2>1, <3>1, MovedStack
  <2>3. UNCHANGED <<record, records, isDestroyed, aborted>>
    BY <1>1
    DEF InitializeProfile, Start, Tick, Reset, Dispose, Unregister, Wait, ResolveAsync,
        ResolveTimeout, WaitUntilInitialized, InitializationTimeout, vars, registryVars, flagVars
  <2>4. QED BY <2>2, <2>3
<1>2. CASE ProfileDone \/ ModulesDone \/ WalkNext \/ StartIfStartedNext \/ HookNext
           \/ HookModulesNext \/ ForEachNext \/ DisposeAllNext \/ DisposeModulesNext
           \/ InitializeReturns \/ StartReturns \/ CallbackReturns
  <2>1. stack # <<>>
    BY <1>2
    DEF ProfileDone, ModulesDone, WalkNext, StartIfStartedNext, HookNext, HookModulesNext,
        ForEachNext, DisposeAllNext, DisposeModulesNext, InitializeReturns, StartReturns,
        CallbackReturns, Returns, At
  <2>2. /\ Top.t \in {"hook", "hookModules"} => Top.hook \notin {"construct", "destroy"}
        /\ Top.t = "forEach" => Top.hook \notin {"construct", "destroy"}
    BY <2>1, TopFields DEF Looped
  <2>3. \/ stack' = Rest
        \/ \E f : Quiet(f) /\ stack' = <<f>> \o Rest
        \/ \E f, g : Quiet(f) /\ Quiet(g) /\ stack' \in {<<f, g>> \o Rest, <<f>> \o (<<g>> \o Rest)}
    <3>1. CASE ProfileDone \/ ModulesDone \/ InitializeReturns \/ StartReturns \/ CallbackReturns
      BY <3>1 DEF ProfileDone, ModulesDone, InitializeReturns, StartReturns, CallbackReturns,
                  Returns
    <3>2. CASE WalkNext
      BY <3>2, QuietFrames DEF WalkNext
    <3>3. CASE StartIfStartedNext \/ HookNext
      BY <2>2, <3>3, QuietFrames DEF StartIfStartedNext, HookNext, At
    <3>4. CASE HookModulesNext
      BY <2>2, <3>4, QuietFrames DEF HookModulesNext, At
    <3>5. CASE ForEachNext
      BY <2>2, <3>5, QuietFrames DEF ForEachNext, At
    <3>6. CASE DisposeAllNext \/ DisposeModulesNext
      BY <3>6, QuietFrames DEF DisposeAllNext, DisposeModulesNext
    <3>7. QED BY <1>2, <3>1, <3>2, <3>3, <3>4, <3>5, <3>6
  <2>4. Shifts(stack, stack')
    <3>1. \E f : Quiet(f)
      BY QuietFrames
    <3>2. QED BY <2>1, <2>3, <3>1, MovedStack
  <2>5. UNCHANGED <<record, records, isDestroyed, aborted>>
    BY <1>2
    DEF ProfileDone, ModulesDone, WalkNext, StartIfStartedNext, HookNext, HookModulesNext,
        ForEachNext, DisposeAllNext, DisposeModulesNext, InitializeReturns, StartReturns,
        CallbackReturns, registryVars, flagVars
  <2>6. QED BY <2>4, <2>5
<1>3. CASE UserThrows
  BY <1>3, MovedThrow DEF UserThrows, At, registryVars, flagVars
<1>4. QED BY <1>1, <1>2, <1>3

(* A constructor is entered: its instance is new to everything. *)
LEMMA ConstructKnows ==
  ASSUME TypeInv, DestroyInv, NEW s, NEW p, NEW continuation,
         Construct(s, p, continuation), Shifts(stack, continuation),
         Len(continuation) \in Nat, Len(stack') \in Nat,
         NEW S, continuation \in Seq(S)
  PROVE  StackKnows' /\ DestroyedIsGone'
<1> DEFINE i == Len(record) + 1
           f == User("construct", i)
<1>1. stack' = <<f>> \o continuation /\ UNCHANGED <<records, isDestroyed, aborted>>
  BY DEF Construct, flagVars
<1>2. f.inst = i /\ Constructing(f) /\ ~Destroying(f)
  BY DEF User, About, Constructing, Destroying, Leaving
<1>3. Len(record) \in Nat /\ i \notin Known
  BY DEF TypeInv, TypeOK, Bounded, DestroyInv, Known, Created
<1>4. PICK d \in Int : \A k \in 1 .. Len(continuation) :
        \/ Quiet(continuation[k])
        \/ k - d \in 1 .. Len(stack) /\ continuation[k] = stack[k - d]
  BY DEF Shifts, ShiftedBy
<1>5. \A k \in 1 .. Len(stack) : Constructing(stack[k]) => stack[k].inst # i
  <2>1. \A k \in 1 .. Len(stack) : stack[k] \in Frames(Len(record))
    BY ElementOfSeq DEF TypeInv, Bounded
  <2>2. QED BY <1>3, <2>1 DEF Frames, Constructing
<1> HIDE DEF f
<1>6. \A k \in 1 .. Len(stack') :
        \/ k = 1 /\ stack'[k] = f
        \/ k # 1 /\ Quiet(stack'[k])
        \/ k # 1 /\ k - (d + 1) \in 1 .. Len(stack) /\ stack'[k] = stack[k - (d + 1)]
  <2>1. \A k \in 1 .. Len(stack') :
          stack'[k] = IF k = 1 THEN f ELSE continuation[k - 1]
    <3> DEFINE T == S \cup {f}
    <3>1. <<f>> \in Seq(T) /\ continuation \in Seq(T) /\ Len(<<f>>) = 1 /\ <<f>>[1] = f
      OBVIOUS
    <3> HIDE DEF T
    <3>2. QED BY <1>1, <3>1, ConcatProperties
  <2>2. Len(stack') = Len(continuation) + 1
    <3> DEFINE T == S \cup {f}
    <3>1. <<f>> \in Seq(T) /\ continuation \in Seq(T) /\ Len(<<f>>) = 1
      OBVIOUS
    <3> HIDE DEF T
    <3>2. QED BY <1>1, <3>1, ConcatProperties
  <2> SUFFICES ASSUME NEW k \in 1 .. Len(stack'), k # 1
               PROVE  \/ Quiet(stack'[k])
                      \/ /\ k - (d + 1) \in 1 .. Len(stack)
                         /\ stack'[k] = stack[k - (d + 1)]
    BY <2>1
  <2>3. k - 1 \in 1 .. Len(continuation) /\ (k - 1) - d = k - (d + 1)
    BY <2>2
  <2>4. QED BY <1>4, <2>1, <2>3
<1>7. \A k \in 1 .. Len(stack') :
        /\ Constructing(stack'[k]) => stack'[k].inst \notin Known'
        /\ Destroying(stack'[k]) => stack'[k].inst \in Known'
        /\ Leaving(stack'[k]) => stack'[k].inst \in aborted'
  <2> SUFFICES ASSUME NEW k \in 1 .. Len(stack')
               PROVE  /\ Constructing(stack'[k]) => stack'[k].inst \notin Known
                      /\ Destroying(stack'[k]) => stack'[k].inst \in Known
                      /\ Leaving(stack'[k]) => stack'[k].inst \in aborted
    BY <1>1 DEF Known
  <2>1. CASE stack'[k] = f
    BY <1>2, <1>3, <2>1 DEF Destroying
  <2>2. CASE Quiet(stack'[k])
    BY <2>2 DEF Quiet, Destroying
  <2>3. CASE k - (d + 1) \in 1 .. Len(stack) /\ stack'[k] = stack[k - (d + 1)]
    BY <2>3 DEF DestroyInv, StackKnows
  <2>4. QED BY <1>6, <2>1, <2>2, <2>3
<1>8. ASSUME NEW j \in 1 .. Len(stack'), NEW k \in 1 .. Len(stack'), j # k,
             Constructing(stack'[j]), Constructing(stack'[k])
      PROVE  stack'[j].inst # stack'[k].inst
  <2>1. CASE j = 1 \/ k = 1
    <3>1. \A l \in 1 .. Len(stack') : (l # 1 /\ Constructing(stack'[l])) => stack'[l].inst # i
      <4> SUFFICES ASSUME NEW l \in 1 .. Len(stack'), l # 1, Constructing(stack'[l])
                   PROVE  stack'[l].inst # i
        OBVIOUS
      <4>1. l - (d + 1) \in 1 .. Len(stack) /\ stack'[l] = stack[l - (d + 1)]
        BY <1>6 DEF Quiet
      <4>2. QED BY <1>5, <4>1
    <3>2. 1 \in 1 .. Len(stack') => stack'[1] = f
      BY <1>6
    <3>3. QED BY <1>2, <1>8, <2>1, <3>1, <3>2
  <2>2. CASE j # 1 /\ k # 1
    <3>1. /\ j - (d + 1) \in 1 .. Len(stack) /\ stack'[j] = stack[j - (d + 1)]
          /\ k - (d + 1) \in 1 .. Len(stack) /\ stack'[k] = stack[k - (d + 1)]
      BY <1>6, <1>8, <2>2 DEF Quiet
    <3>2. j - (d + 1) # k - (d + 1)
      BY <1>8
    <3>3. QED BY <1>8, <3>1, <3>2 DEF DestroyInv, StackKnows
  <2>3. QED BY <2>1, <2>2
<1>9. StackKnows'
  BY <1>7, <1>8 DEF StackKnows, Constructing, Destroying, Leaving
<1>10. QED BY <1>1, <1>9 DEF DestroyInv, DestroyedIsGone

(* Activation: a constructor is entered, or the stack moves. *)
LEMMA ActivationKnows ==
  ASSUME TypeInv, TypeInv', DestroyInv, Constructs
  PROVE  StackKnows' /\ DestroyedIsGone'
<1> DEFINE F == Frames(Len(record) + 1)
<1>1. /\ Len(stack') \in Nat /\ stack \in Seq(F) /\ Len(record) \in Nat
      /\ Len(record) + 1 \in 1 .. (Len(record) + 1)
  BY FramesGrow, LenProperties DEF TypeInv, TypeOK, Bounded
<1>2. PICK quiet : Quiet(quiet)
  BY QuietFrames
<1>3. UNCHANGED <<records, isDestroyed, aborted>>
  BY ConstructsKeep
<1>4. ASSUME Shifts(stack, stack') PROVE StackKnows' /\ DestroyedIsGone'
  BY <1>1, <1>3, <1>4, ShiftKnows
<1>5. ASSUME stack # <<>>, Throw PROVE StackKnows' /\ DestroyedIsGone'
  BY <1>4, <1>5, MovedThrow
<1>6. ASSUME NEW s, NEW p, NEW continuation \in Seq(F), Construct(s, p, continuation),
             Shifts(stack, continuation)
      PROVE  StackKnows' /\ DestroyedIsGone'
  <2>1. Len(continuation) \in Nat
    BY LenProperties
  <2>2. QED BY <1>1, <1>6, <2>1, ConstructKnows
<1>7. ASSUME NEW s \in Service
      PROVE  /\ ThenInitialize(s) \in Seq(F)
             /\ Len(ThenInitialize(s)) \in Nat
             /\ \A k \in 1 .. Len(ThenInitialize(s)) : Quiet(ThenInitialize(s)[k])
  <2>1. /\ Quiet(ModuleLoop(Len(record) + 1, ModulesOf[s]))
        /\ Quiet(Walk("initialize", Len(record) + 1, 0))
    BY QuietFrames
  <2>2. QED BY <2>1, ThenInitializeType DEF ThenInitialize
<1> HIDE DEF F
<1>8. CASE ProfileNext
  <2>1. stack # <<>> /\ Top.svcs \subseteq Service /\ Rest \in Seq(F)
    BY <1>1, <1>8, TopFields, HeadTailProperties DEF ProfileNext, At, Rest
  <2>2. PICK s \in Top.svcs :
          LET remaining == <<ProfileLoop(Top.svcs \ {s})>> \o Rest
          IN \/ Construct(s, 0, ThenInitialize(s) \o remaining)
             \/ stack' = remaining
             \/ Throw
    BY <1>8 DEF ProfileNext
  <2> DEFINE loop == ProfileLoop(Top.svcs \ {s})
             remaining == <<loop>> \o Rest
             continuation == ThenInitialize(s) \o remaining
  <2>3. Quiet(loop) /\ loop \in F
    BY <1>1, <2>1, QuietFrames, LoopTypes DEF F
  <2> HIDE DEF loop
  <2>4. remaining \in Seq(F) /\ Shifts(Rest, remaining) /\ Shifts(stack, Rest)
    <3>1. remaining \in Seq(F) /\ Shifts(Rest, remaining)
      BY <2>1, <2>3, PushOne, ShiftPush
    <3>2. 2 \in 1 .. (Len(stack) + 1) /\ Rest = SubSeq(stack, 2, Len(stack))
      BY <1>1, <2>1 DEF Rest
    <3>3. QED BY <1>1, <3>1, <3>2, ShiftDrop
  <2>5. Shifts(stack, remaining) /\ Len(remaining) \in Nat
    BY <2>1, <2>4, ShiftCompose, LenProperties
  <2> HIDE DEF remaining
  <2>6. continuation \in Seq(F) /\ Shifts(remaining, continuation) /\ Len(continuation) \in Nat
    BY <1>7, <2>1, <2>2, <2>4, ShiftQuiet, ConcatProperties
  <2> HIDE DEF continuation
  <2>7. Shifts(stack, continuation)
    BY <2>5, <2>6, ShiftCompose
  <2>8. CASE stack' = remaining
    BY <1>4, <2>5, <2>8
  <2>9. CASE Construct(s, 0, continuation)
    BY <1>6, <2>6, <2>7, <2>9
  <2>10. CASE Throw
    BY <1>5, <2>1, <2>10
  <2>11. QED BY <2>2, <2>8, <2>9, <2>10 DEF continuation, remaining, loop
<1>9. CASE ModulesNext
  <2>1. /\ stack # <<>> /\ Top.svcs \subseteq Service /\ Rest \in Seq(F)
        /\ Top.inst \in 1 .. Len(record)
    BY <1>1, <1>9, TopFields, HeadTailProperties DEF ModulesNext, At, Rest, Created
  <2>2. PICK s \in Top.svcs :
          LET remaining == <<ModuleLoop(Top.inst, Top.svcs \ {s})>> \o Rest
          IN \/ Construct(s, Top.inst, remaining)
             \/ stack' = remaining
             \/ Throw
    BY <1>9 DEF ModulesNext
  <2> DEFINE loop == ModuleLoop(Top.inst, Top.svcs \ {s})
             remaining == <<loop>> \o Rest
  <2>3. Quiet(loop) /\ loop \in F
    <3>1. Top.inst \in 1 .. (Len(record) + 1) /\ Len(record) + 1 \in Nat
      BY <1>1, <2>1
    <3>2. QED BY <2>1, <3>1, QuietFrames, FrameTypes DEF F
  <2> HIDE DEF loop
  <2>4. remaining \in Seq(F) /\ Shifts(Rest, remaining) /\ Shifts(stack, Rest)
    <3>1. remaining \in Seq(F) /\ Shifts(Rest, remaining)
      BY <2>1, <2>3, PushOne, ShiftPush
    <3>2. 2 \in 1 .. (Len(stack) + 1) /\ Rest = SubSeq(stack, 2, Len(stack))
      BY <1>1, <2>1 DEF Rest
    <3>3. QED BY <1>1, <3>1, <3>2, ShiftDrop
  <2>5. Shifts(stack, remaining) /\ Len(remaining) \in Nat
    BY <2>1, <2>4, ShiftCompose, LenProperties
  <2> HIDE DEF remaining
  <2>6. CASE stack' = remaining
    BY <1>4, <2>5, <2>6
  <2>7. CASE Construct(s, Top.inst, remaining)
    BY <1>6, <2>4, <2>5, <2>7
  <2>8. CASE Throw
    BY <1>5, <2>1, <2>8
  <2>9. QED BY <2>2, <2>6, <2>7, <2>8 DEF remaining, loop
<1>10. CASE \E s \in Service : Register(s)
  <2>1. PICK s \in Service :
          Construct(s, 0, ThenInitialize(s) \o <<StartIfStarted(Len(record) + 1)>> \o stack)
    BY <1>10 DEF Register
  <2> DEFINE last == StartIfStarted(Len(record) + 1)
             q == ThenInitialize(s) \o <<last>>
             continuation == q \o stack
  <2>2. Quiet(last) /\ last \in F
    <3>1. Len(record) + 1 \in Nat
      BY <1>1
    <3>2. QED BY <1>1, <3>1, QuietFrames, FrameTypes DEF F
  <2> HIDE DEF last
  <2>3. q \in Seq(F) /\ \A k \in 1 .. Len(q) : Quiet(q[k])
    <3> DEFINE one == <<last>>
    <3>1. one \in Seq(F) /\ Len(one) = 1 /\ one[1] = last
      BY <2>2
    <3> HIDE DEF one
    <3>2. /\ q \in Seq(F) /\ Len(q) = Len(ThenInitialize(s)) + 1
          /\ \A k \in 1 .. Len(ThenInitialize(s)) + 1 :
               q[k] = IF k <= Len(ThenInitialize(s)) THEN ThenInitialize(s)[k]
                      ELSE one[k - Len(ThenInitialize(s))]
      BY <1>7, <3>1, ConcatProperties DEF one
    <3>3. \A k \in 1 .. Len(q) : Quiet(q[k])
      <4> SUFFICES ASSUME NEW k \in 1 .. Len(q) PROVE Quiet(q[k])
        OBVIOUS
      <4>1. CASE k <= Len(ThenInitialize(s))
        BY <1>7, <3>2, <4>1
      <4>2. CASE ~(k <= Len(ThenInitialize(s)))
        <5>1. k - Len(ThenInitialize(s)) = 1
          BY <1>7, <3>2, <4>2
        <5>2. QED BY <1>7, <2>2, <3>1, <3>2, <4>2, <5>1
      <4>3. QED BY <4>1, <4>2
    <3>4. QED BY <3>2, <3>3
  <2> HIDE DEF q
  <2>4. continuation \in Seq(F) /\ Shifts(stack, continuation)
    BY <1>1, <2>3, ShiftQuiet, ConcatProperties
  <2> HIDE DEF continuation
  <2>5. Construct(s, 0, continuation)
    BY <2>1 DEF continuation, q, last
  <2>6. QED BY <1>6, <2>4, <2>5
<1>11. QED BY <1>8, <1>9, <1>10 DEF Constructs

(* The frames under the head. *)
LEMMA RestFrames ==
  ASSUME TypeInv, stack # <<>>
  PROVE  /\ Len(stack) \in Nat /\ 1 \in 1 .. Len(stack) /\ Top = stack[1]
         /\ Len(Rest) = Len(stack) - 1
         /\ \A k \in 1 .. Len(Rest) : k + 1 \in 1 .. Len(stack) /\ Rest[k] = stack[k + 1]
         /\ Rest \in Seq(Frame)
<1>1. stack \in Seq(Frame)
  BY DEF TypeInv, TypeOK
<1>2. QED BY <1>1, HeadTailProperties, LenProperties DEF Top, Rest

(* A service is looked up before its destruction is scheduled. *)
LEMMA DisposeKnows ==
  ASSUME TypeInv, DestroyInv, DisposeNext
  PROVE  StackKnows' /\ DestroyedIsGone'
<1> DEFINE i == Top.inst
           f == DisposeModules(modules[i])
           g == DestroyOne(i)
<1>1. stack # <<>> /\ UNCHANGED <<records, isDestroyed, aborted>>
  BY DEF DisposeNext, At, registryVars, flagVars
<1>2. CASE ~Found(i)
  <2>1. stack' = Rest
    BY <1>2 DEF DisposeNext
  <2>2. PICK quiet : Quiet(quiet)
    BY QuietFrames
  <2>3. Shifts(stack, stack') /\ Len(stack') \in Nat
    BY <1>1, <2>1, <2>2, MovedStack, RestFrames, LenProperties
  <2>4. QED BY <1>1, <2>3, ShiftKnows
<1>3. CASE Found(i)
  <2>1. i \in records
    BY <1>3 DEF Found, IsFirst, Named, Bucket
  <2>2. stack' = <<f, g>> \o Rest
    BY <1>3 DEF DisposeNext
  <2>3. Quiet(f) /\ ~Constructing(g) /\ ~Leaving(g) /\ g.inst = i
    BY QuietFrames DEF Constructing, Leaving, DestroyOne, About
  <2> HIDE DEF f, g
  <2>4. /\ Len(stack') = Len(stack) + 1
        /\ \A k \in 1 .. Len(stack') :
             stack'[k] = IF k = 1 THEN f ELSE IF k = 2 THEN g ELSE Rest[k - 2]
    <3> DEFINE T == Frame \cup {f, g}
               two == <<f, g>>
    <3>1. two \in Seq(T) /\ Rest \in Seq(T) /\ Len(two) = 2 /\ two[1] = f /\ two[2] = g
      BY <1>1, RestFrames
    <3> HIDE DEF T, two
    <3>2. stack' = two \o Rest
      BY <2>2 DEF two
    <3>3. /\ Len(stack') = Len(two) + Len(Rest)
          /\ \A k \in 1 .. Len(two) + Len(Rest) :
               stack'[k] = IF k <= Len(two) THEN two[k] ELSE Rest[k - Len(two)]
      BY <3>1, <3>2, ConcatProperties
    <3>4. Len(Rest) + 1 = Len(stack) /\ Len(Rest) \in Nat /\ Len(stack) \in Nat
      BY <1>1, RestFrames, LenProperties
    <3>5. QED BY <3>1, <3>3, <3>4
  <2>5. \A k \in 1 .. Len(stack') :
          \/ Quiet(stack'[k])
          \/ stack'[k] = g
          \/ k - 1 \in 1 .. Len(stack) /\ stack'[k] = stack[k - 1]
    <3> SUFFICES ASSUME NEW k \in 1 .. Len(stack'), k # 1, k # 2
                 PROVE  k - 1 \in 1 .. Len(stack) /\ stack'[k] = stack[k - 1]
      BY <2>3, <2>4
    <3>1. k - 2 \in 1 .. Len(Rest)
      BY <1>1, <2>4, RestFrames
    <3>2. Rest[k - 2] = stack[(k - 2) + 1] /\ (k - 2) + 1 = k - 1
      BY <1>1, <3>1, RestFrames
    <3>3. QED BY <1>1, <2>4, <3>2, RestFrames
  <2>6. \A k \in 1 .. Len(stack') :
          /\ Constructing(stack'[k]) => stack'[k].inst \notin Known
          /\ Destroying(stack'[k]) => stack'[k].inst \in Known
          /\ Leaving(stack'[k]) => stack'[k].inst \in aborted
    <3> SUFFICES ASSUME NEW k \in 1 .. Len(stack')
                 PROVE  /\ Constructing(stack'[k]) => stack'[k].inst \notin Known
                        /\ Destroying(stack'[k]) => stack'[k].inst \in Known
                        /\ Leaving(stack'[k]) => stack'[k].inst \in aborted
      OBVIOUS
    <3>1. CASE Quiet(stack'[k])
      BY <3>1 DEF Quiet, Destroying
    <3>2. CASE stack'[k] = g
      BY <2>1, <2>3, <3>2 DEF Known
    <3>3. CASE k - 1 \in 1 .. Len(stack) /\ stack'[k] = stack[k - 1]
      BY <3>3 DEF DestroyInv, StackKnows
    <3>4. QED BY <2>5, <3>1, <3>2, <3>3
  <2>7. ASSUME NEW j \in 1 .. Len(stack'), NEW k \in 1 .. Len(stack'), j # k,
               Constructing(stack'[j]), Constructing(stack'[k])
        PROVE  stack'[j].inst # stack'[k].inst
    <3>1. /\ j - 1 \in 1 .. Len(stack) /\ stack'[j] = stack[j - 1]
          /\ k - 1 \in 1 .. Len(stack) /\ stack'[k] = stack[k - 1]
      BY <2>3, <2>5, <2>7 DEF Quiet
    <3>2. j - 1 # k - 1
      BY <2>7
    <3>3. QED BY <2>7, <3>1, <3>2 DEF DestroyInv, StackKnows
  <2>8. StackKnows'
    BY <1>1, <2>6, <2>7 DEF StackKnows, Known, Constructing, Destroying, Leaving
  <2>9. QED BY <1>1, <2>8 DEF DestroyInv, DestroyedIsGone
<1>4. QED BY <1>2, <1>3

(* The abort signal fires before destroy() is entered. *)
LEMMA DestroyKnows ==
  ASSUME TypeInv, DestroyInv, DestroyNext
  PROVE  StackKnows' /\ DestroyedIsGone'
<1> DEFINE i == Top.inst
           f == User("destroy", i)
<1>1. /\ stack # <<>> /\ UNCHANGED <<records, isDestroyed>> /\ aborted' = aborted \cup {i}
      /\ stack' = <<f>> \o Rest /\ Top.t = "destroy"
  BY DEF DestroyNext, At, registryVars
<1>2. ~Constructing(f) /\ f.inst = i
  BY DEF Constructing, User, About
<1>3. i \in Known
  BY <1>1, RestFrames DEF DestroyInv, StackKnows, Destroying
<1> HIDE DEF f
<1>4. /\ Len(stack') = Len(stack)
      /\ \A k \in 1 .. Len(stack') : stack'[k] = IF k = 1 THEN f ELSE stack[k]
  <2> DEFINE T == Frame \cup {f}
             one == <<f>>
  <2>1. one \in Seq(T) /\ Rest \in Seq(T) /\ Len(one) = 1 /\ one[1] = f
    BY <1>1, RestFrames
  <2> HIDE DEF T, one
  <2>2. stack' = one \o Rest
    BY <1>1 DEF one
  <2>3. /\ Len(stack') = Len(stack)
        /\ \A k \in 1 .. Len(stack') : stack'[k] = IF k <= 1 THEN f ELSE Rest[k - 1]
    BY <1>1, <2>1, <2>2, ConcatProperties, RestFrames
  <2>4. \A k \in 1 .. Len(stack') : k # 1 => Rest[k - 1] = stack[k]
    <3> SUFFICES ASSUME NEW k \in 1 .. Len(stack'), k # 1 PROVE Rest[k - 1] = stack[k]
      OBVIOUS
    <3>1. k - 1 \in 1 .. Len(Rest) /\ (k - 1) + 1 = k
      BY <1>1, <2>3, RestFrames
    <3>2. QED BY <1>1, <3>1, RestFrames
  <2>5. \A k \in 1 .. Len(stack') : k <= 1 <=> k = 1
    BY <1>1, <2>3, RestFrames
  <2>6. QED BY <2>3, <2>4, <2>5
<1>5. \A k \in 1 .. Len(stack') :
        /\ Constructing(stack'[k]) => stack'[k].inst \notin Known
        /\ Destroying(stack'[k]) => stack'[k].inst \in Known
        /\ Leaving(stack'[k]) => stack'[k].inst \in aborted'
  BY <1>1, <1>2, <1>3, <1>4 DEF DestroyInv, StackKnows
<1>6. \A j, k \in 1 .. Len(stack') :
        (Constructing(stack'[j]) /\ Constructing(stack'[k]) /\ j # k)
          => stack'[j].inst # stack'[k].inst
  BY <1>2, <1>4 DEF DestroyInv, StackKnows
<1>7. StackKnows'
  BY <1>1, <1>5, <1>6 DEF StackKnows, Known, Constructing, Destroying, Leaving
<1>8. QED BY <1>1, <1>7 DEF DestroyInv, DestroyedIsGone

(* A constructor or destroy() returns: the instance becomes, or stays, known. *)
LEMMA ReturnKnows ==
  ASSUME TypeInv, DestroyInv, ConstructReturns \/ DestroyReturns
  PROVE  StackKnows' /\ DestroyedIsGone' /\ isDestroyed' \subseteq isDestroyed \cup {Top.inst}
<1> DEFINE i == Top.inst
<1>1. /\ stack # <<>> /\ stack' = Rest /\ UNCHANGED aborted
      /\ isDestroyed' \subseteq isDestroyed \cup {i}
  BY DEF ConstructReturns, DestroyReturns, Returns, At
<1>2. \A k \in 1 .. Len(stack') : k + 1 \in 1 .. Len(stack) /\ stack'[k] = stack[k + 1]
  BY <1>1, RestFrames
<1>3. 1 \in 1 .. Len(stack) /\ Top = stack[1]
  BY <1>1, RestFrames
<1>4. ASSUME NEW j \in 1 .. Len(stack'), NEW k \in 1 .. Len(stack'), j # k,
             Constructing(stack'[j]), Constructing(stack'[k])
      PROVE  stack'[j].inst # stack'[k].inst
  <2>1. j + 1 # k + 1
    BY <1>4
  <2>2. QED BY <1>2, <1>4, <2>1 DEF DestroyInv, StackKnows
<1>5. CASE ConstructReturns
  <2>1. records' = records \cup {i} /\ UNCHANGED isDestroyed /\ Constructing(Top)
    BY <1>5 DEF ConstructReturns, Returns, At, Constructing
  <2>2. i \notin Known
    BY <1>3, <2>1 DEF DestroyInv, StackKnows
  <2>3. \A k \in 1 .. Len(stack') : Constructing(stack'[k]) => stack'[k].inst # i
    <3> SUFFICES ASSUME NEW k \in 1 .. Len(stack'), Constructing(stack'[k])
                 PROVE  stack'[k].inst # i
      OBVIOUS
    <3>1. k + 1 \in 1 .. Len(stack) /\ stack'[k] = stack[k + 1] /\ k + 1 # 1
      BY <1>2
    <3>2. QED BY <1>3, <2>1, <3>1 DEF DestroyInv, StackKnows
  <2>4. \A k \in 1 .. Len(stack') :
          /\ Constructing(stack'[k]) => stack'[k].inst \notin Known'
          /\ Destroying(stack'[k]) => stack'[k].inst \in Known'
          /\ Leaving(stack'[k]) => stack'[k].inst \in aborted'
    BY <1>1, <1>2, <2>1, <2>3 DEF DestroyInv, StackKnows, Known
  <2>5. StackKnows'
    BY <1>4, <2>4 DEF StackKnows, Constructing, Destroying, Leaving
  <2>6. QED BY <1>1, <2>1, <2>2, <2>5 DEF DestroyInv, DestroyedIsGone, Known
<1>6. CASE DestroyReturns
  <2>1. records' = records \ {i} /\ isDestroyed' = isDestroyed \cup {i} /\ Leaving(Top)
    BY <1>6 DEF DestroyReturns, Returns, At, Leaving
  <2>2. i \in Known /\ i \in aborted
    BY <1>3, <2>1 DEF DestroyInv, StackKnows, Destroying
  <2>3. Known' = Known
    BY <2>1, <2>2 DEF Known
  <2>4. \A k \in 1 .. Len(stack') :
          /\ Constructing(stack'[k]) => stack'[k].inst \notin Known'
          /\ Destroying(stack'[k]) => stack'[k].inst \in Known'
          /\ Leaving(stack'[k]) => stack'[k].inst \in aborted'
    BY <1>1, <1>2, <2>3 DEF DestroyInv, StackKnows
  <2>5. StackKnows'
    BY <1>4, <2>4 DEF StackKnows, Constructing, Destroying, Leaving
  <2>6. QED BY <1>1, <2>1, <2>2, <2>5 DEF DestroyInv, DestroyedIsGone
<1>7. QED BY <1>5, <1>6

LEMMA DestroyStep ==
  TypeInv /\ TypeInv' /\ DestroyInv /\ [Next]_vars => DestroyInv'
<1> SUFFICES ASSUME TypeInv, TypeInv', DestroyInv, [Next]_vars
             PROVE  DestroyInv'
  OBVIOUS
<1>1. CASE Constructs
  <2>1. isDestroyed' \subseteq Created'
    <3>1. Len(record) <= Len(record')
      <4>1. \/ \E s, p, c : Construct(s, p, c)
            \/ UNCHANGED record
        BY <1>1 DEF Constructs, ProfileNext, ModulesNext, Register, registryVars
      <4>2. record \in Seq(Record)
        BY DEF TypeInv, TypeOK
      <4>3. \A e : Len(record) <= Len(Append(record, e)) /\ Len(record) <= Len(record)
        BY <4>2
      <4>4. (\E e : record' = Append(record, e)) \/ UNCHANGED record
        BY <4>1 DEF Construct
      <4>5. QED BY <4>3, <4>4
    <3>2. Len(record) \in Nat /\ Len(record') \in Nat
      BY DEF TypeInv, TypeOK
    <3>3. isDestroyed' = isDestroyed
      BY <1>1, ConstructsKeep
    <3>4. QED BY <3>1, <3>2, <3>3 DEF DestroyInv, Created
  <2>2. QED BY <1>1, <2>1, ActivationKnows DEF DestroyInv
<1>2. CASE DisposeNext
  BY <1>2, DisposeKnows DEF DestroyInv, DisposeNext, registryVars, flagVars, Created
<1>3. CASE DestroyNext
  BY <1>3, DestroyKnows DEF DestroyInv, DestroyNext, registryVars, Created
<1>4. CASE ConstructReturns \/ DestroyReturns
  <2>1. Top.inst \in Created /\ UNCHANGED record
    BY <1>4, TopFields DEF ConstructReturns, DestroyReturns, Returns, At
  <2>2. isDestroyed' \subseteq isDestroyed \cup {Top.inst}
    BY <1>4, ReturnKnows
  <2>3. QED BY <1>4, <2>1, <2>2, ReturnKnows DEF DestroyInv, Created
<1>5. CASE ~(Constructs \/ DisposeNext \/ DestroyNext \/ ConstructReturns \/ DestroyReturns)
  <2>1. Shifts(stack, stack') /\ UNCHANGED <<record, records, isDestroyed, aborted>>
    BY <1>5, LoopsMove DEF Next, Advance, Call, Constructs
  <2>2. Len(stack') \in Nat
    BY LenProperties DEF TypeInv, TypeOK
  <2>3. QED BY <2>1, <2>2, ShiftKnows DEF DestroyInv, Created
<1>6. QED BY <1>1, <1>2, <1>3, <1>4, <1>5

(* However callbacks throw and re-enter the manager, to any depth, a       *)
(* destroyed service is never in the registry again, and its abort signal  *)
(* fired before it was destroyed (disposeRecord 485-516, addRecord).       *)
THEOREM DestroyedStaysGone ==
  Spec => []DestroyedIsGone
<1>1. Init => DestroyInv
  BY DEF Init, DestroyInv, DestroyedIsGone, StackKnows
<1>2. TypeInv /\ TypeInv' /\ DestroyInv /\ [Next]_vars => DestroyInv'
  BY DestroyStep
<1>3. DestroyInv => DestroyedIsGone
  BY DEF DestroyInv
<1>4. QED BY <1>1, <1>2, <1>3, TypeCorrect, PTL DEF Spec

-----------------------------------------------------------------------------
(* Token and name identify a record.                                       *)
(*                                                                         *)
(* createRecord looks for a duplicate, runs the constructor and only then  *)
(* adds the record.  The check still holds at that point because nothing   *)
(* else can have been added: only one constructor runs at a time, and it   *)
(* is the code that is running.                                            *)

ConstructorsDoNotReenter == \A op \in Operation : <<"construct", op>> \notin Reentrant

Settled == {f \in Frame : ~Constructing(f)}

OneConstructor ==
  stack # <<>> =>
    /\ Rest \in Seq(Settled)
    /\ Constructing(Top) => Named(TokenOf[Svc(Top.inst)], NameOf[Svc(Top.inst)]) = {}

NamesInv == UniqueNames /\ OneConstructor

(* What an exception leaves is taken from the frames under the head. *)
LEMMA ThrowFrames ==
  ASSUME NEW S, Rest \in Seq(S), Throw
  PROVE  stack' \in Seq(S)
<1>1. CASE stack' = <<>>
  BY <1>1, EmptySeq
<1>2. ASSUME NEW k \in UserFrames(Rest), stack' = SubSeq(Rest, k, Len(Rest))
      PROVE  stack' \in Seq(S)
  <2>1. k \in 1 .. Len(Rest) /\ Len(Rest) \in Nat
    BY LenProperties DEF UserFrames
  <2>2. \A i \in k .. Len(Rest) : Rest[i] \in S
    BY <2>1, ElementOfSeq
  <2>3. QED BY <1>2, <2>1, <2>2, SubSeqProperties
<1>3. QED BY <1>1, <1>2 DEF Throw

(* A stack with no constructor on it satisfies the invariant. *)
LEMMA SettledStack ==
  ASSUME stack' \in Seq(Settled), UniqueNames'
  PROVE  NamesInv'
<1>1. ASSUME stack' # <<>>
      PROVE  Rest' \in Seq(Settled) /\ ~Constructing(Top')
  BY <1>1, HeadTailProperties DEF Rest, Top, Settled
<1>2. QED BY <1>1 DEF NamesInv, OneConstructor, Constructing

(* Moving a stack with no constructor on it brings none. *)
LEMMA SettledShift ==
  ASSUME TypeInv, TypeInv', stack \in Seq(Settled), Shifts(stack, stack')
  PROVE  stack' \in Seq(Settled)
<1>1. PICK d \in Int : \A k \in 1 .. Len(stack') :
        Quiet(stack'[k]) \/ (k - d \in 1 .. Len(stack) /\ stack'[k] = stack[k - d])
  BY DEF Shifts, ShiftedBy
<1>2. stack' \in Seq(Frame)
  BY DEF TypeInv, TypeOK
<1>3. \A k \in 1 .. Len(stack') : stack'[k] \in Settled
  <2> SUFFICES ASSUME NEW k \in 1 .. Len(stack')
               PROVE  stack'[k] \in Settled
    OBVIOUS
  <2>1. stack'[k] \in Frame
    BY <1>2, ElementOfSeq
  <2>2. CASE Quiet(stack'[k])
    BY <2>1, <2>2 DEF Quiet, Settled
  <2>3. CASE k - d \in 1 .. Len(stack) /\ stack'[k] = stack[k - d]
    BY <2>3, ElementOfSeq
  <2>4. QED BY <1>1, <2>2, <2>3
<1>4. QED BY <1>2, <1>3

(* Records nobody touches keep their names. *)
LEMMA NamesStay ==
  ASSUME TypeInv, UniqueNames, records' \subseteq records,
         \A i \in Created : record'[i] = record[i]
  PROVE  UniqueNames'
<1>1. \A i \in records' : i \in records /\ record'[i] = record[i]
  BY DEF TypeInv, Bounded
<1>2. QED BY <1>1 DEF UniqueNames, Svc

(* While a constructor runs, it returns, throws, or promises are made. *)
LEMMA ConstructorRuns ==
  ASSUME ConstructorsDoNotReenter, stack # <<>>, Constructing(Top), [Next]_vars
  PROVE  ConstructReturns \/ UserThrows \/ Wait \/ UNCHANGED vars
<1>1. Top.t = "user" /\ Top.hook = "construct"
  BY DEF Constructing
<1>2. \A op \in Operation : ~Calls(op)
  BY <1>1 DEF Calls, ConstructorsDoNotReenter
<1>3. ~Call
  BY <1>2 DEF Call, InitializeProfile, Start, Tick, Reset, Dispose, Register, Unregister,
              Operation
<1>4. Advance => ConstructReturns \/ UserThrows
  BY <1>1
  DEF Advance, ProfileNext, ProfileDone, ModulesNext, ModulesDone, WalkNext,
      StartIfStartedNext, HookNext, HookModulesNext, ForEachNext, DisposeAllNext, DisposeNext,
      DisposeModulesNext, DestroyNext, InitializeReturns, StartReturns, CallbackReturns,
      DestroyReturns, Returns, At
<1>5. QED BY <1>3, <1>4 DEF Next

(* The constructor that runs is the one whose name was looked up. *)
LEMMA ConstructorNames ==
  ASSUME TypeInv, TypeInv', NamesInv, stack # <<>>, Constructing(Top),
         ConstructReturns \/ UserThrows \/ Wait \/ UNCHANGED vars
  PROVE  NamesInv'
<1>1. Rest \in Seq(Settled)
  BY DEF NamesInv, OneConstructor
<1>2. CASE ConstructReturns
  <2>1. /\ records' = records \cup {Top.inst} /\ UNCHANGED record /\ stack' = Rest
    BY <1>2 DEF ConstructReturns, Returns
  <2>2. \A j \in records : ~(/\ TokenOf[Svc(Top.inst)] = TokenOf[Svc(j)]
                             /\ NameOf[Svc(Top.inst)] = NameOf[Svc(j)])
    BY DEF NamesInv, OneConstructor, Named, Bucket
  <2>3. UniqueNames'
    BY <2>1, <2>2 DEF NamesInv, UniqueNames, Svc
  <2>4. QED BY <1>1, <2>1, <2>3, SettledStack
<1>3. CASE UserThrows
  <2>1. Throw /\ UNCHANGED <<record, records>>
    BY <1>3 DEF UserThrows, registryVars
  <2>2. stack' \in Seq(Settled)
    BY <1>1, <2>1, ThrowFrames
  <2>3. UniqueNames'
    BY <2>1, NamesStay DEF NamesInv
  <2>4. QED BY <2>2, <2>3, SettledStack
<1>4. CASE Wait \/ UNCHANGED vars
  <2>1. UNCHANGED <<record, records, stack>>
    BY <1>4 DEF Wait, ResolveAsync, ResolveTimeout, WaitUntilInitialized,
                InitializationTimeout, vars, registryVars
  <2>2. QED
    BY <2>1 DEF NamesInv, UniqueNames, OneConstructor, Named, Bucket, Svc, Top, Rest,
                Constructing
<1>5. QED BY <1>2, <1>3, <1>4

(* A constructor is entered only when no record has its token and name. *)
LEMMA ConstructorEntered ==
  ASSUME TypeInv, UniqueNames, NEW s \in Service, NEW p, NEW continuation \in Seq(Settled),
         CanCreate(s), Construct(s, p, continuation)
  PROVE  NamesInv'
<1> DEFINE i == Len(record) + 1
           r == [svc |-> s, parent |-> p, deps |-> Resolved(s)]
           f == User("construct", i)
<1>1. /\ UNCHANGED records /\ record' = Append(record, r) /\ stack' = <<f>> \o continuation
  BY DEF Construct
<1>2. f.inst = i
  BY DEF User, About
<1>3. record \in Seq(Record) /\ Len(record) \in Nat /\ r.svc = s
  BY DEF TypeInv, TypeOK
<1> HIDE DEF r, f
<1>4. record'[i] = r /\ \A j \in Created : record'[j] = record[j]
  BY <1>1, <1>3 DEF Created
<1>5. UniqueNames'
  BY <1>1, <1>4, NamesStay
<1>6. stack' # <<>> /\ Top' = f /\ Rest' = continuation
  BY <1>1 DEF Top, Rest
<1>7. Svc(Top.inst)' = s
  BY <1>2, <1>3, <1>4, <1>6 DEF Svc
<1>8. \A j \in records : Svc(j)' = Svc(j)
  BY <1>4 DEF Svc, TypeInv, Bounded
<1>9. Named(TokenOf[Svc(Top.inst)], NameOf[Svc(Top.inst)])' = Named(TokenOf[s], NameOf[s])
  BY <1>1, <1>7, <1>8 DEF Named, Bucket
<1>10. Named(TokenOf[s], NameOf[s]) = {}
  BY DEF CanCreate
<1>11. OneConstructor'
  BY <1>6, <1>9, <1>10 DEF OneConstructor
<1>12. QED BY <1>5, <1>11 DEF NamesInv

(* Activation, while no constructor runs. *)
LEMMA ActivationNames ==
  ASSUME TypeInv, TypeInv', UniqueNames, stack \in Seq(Settled), Constructs
  PROVE  NamesInv'
<1>1. stack # <<>> => Rest \in Seq(Settled)
  BY HeadTailProperties DEF Rest
<1>2. \A i \in Nat : \A S \in SUBSET Service :
        ModuleLoop(i, S) \in Settled /\ ProfileLoop(S) \in Settled
  BY DEF Settled, Frame, ModuleLoop, ProfileLoop, About, Constructing, Hook
<1>3. \A i \in Nat : Walk("initialize", i, 0) \in Settled /\ StartIfStarted(i) \in Settled
  BY DEF Settled, Frame, Walk, StartIfStarted, About, Constructing, Hook
<1>4. Len(record) + 1 \in Nat
  BY DEF TypeInv, TypeOK
<1>5. \A s \in Service : ThenInitialize(s) \in Seq(Settled)
  <2> SUFFICES ASSUME NEW s \in Service PROVE ThenInitialize(s) \in Seq(Settled)
    OBVIOUS
  <2>1. ModulesOf[s] \in SUBSET Service
    BY ConfigurationAssumption
  <2>2. /\ ModuleLoop(Len(record) + 1, ModulesOf[s]) \in Settled
        /\ Walk("initialize", Len(record) + 1, 0) \in Settled
    BY <1>2, <1>3, <1>4, <2>1
  <2>3. QED BY <2>2 DEF ThenInitialize
<1>6. ASSUME stack' \in Seq(Settled), UNCHANGED <<record, records>> PROVE NamesInv'
  BY <1>6, NamesStay, SettledStack
<1>7. ASSUME stack # <<>>, Throw, UNCHANGED <<record, records>> PROVE NamesInv'
  BY <1>1, <1>6, <1>7, ThrowFrames
<1>8. CASE ProfileNext
  <2>1. stack # <<>> /\ Top.svcs \subseteq Service
    BY <1>8, TopFields DEF ProfileNext, At
  <2>2. PICK s \in Top.svcs :
          LET remaining == <<ProfileLoop(Top.svcs \ {s})>> \o Rest
          IN \/ CanCreate(s) /\ Construct(s, 0, ThenInitialize(s) \o remaining)
             \/ stack' = remaining /\ UNCHANGED <<record, records>>
             \/ Throw /\ UNCHANGED <<record, records>>
    BY <1>8 DEF ProfileNext, registryVars
  <2> DEFINE loop == ProfileLoop(Top.svcs \ {s})
             remaining == <<loop>> \o Rest
             continuation == ThenInitialize(s) \o remaining
  <2>3. s \in Service /\ Top.svcs \ {s} \in SUBSET Service
    BY <2>1, <2>2
  <2>4. loop \in Settled
    BY <1>2, <1>4, <2>3
  <2> HIDE DEF loop
  <2>5. remaining \in Seq(Settled)
    BY <1>1, <2>1, <2>4, PushOne
  <2> HIDE DEF remaining
  <2>6. continuation \in Seq(Settled)
    BY <1>5, <2>3, <2>5, ConcatProperties
  <2> HIDE DEF continuation
  <2>7. CASE CanCreate(s) /\ Construct(s, 0, continuation)
    BY <2>3, <2>6, <2>7, ConstructorEntered
  <2>8. CASE stack' = remaining /\ UNCHANGED <<record, records>>
    BY <1>6, <2>5, <2>8
  <2>9. CASE Throw /\ UNCHANGED <<record, records>>
    BY <1>7, <2>1, <2>9
  <2>10. QED BY <2>2, <2>7, <2>8, <2>9 DEF continuation, remaining, loop
<1>9. CASE ModulesNext
  <2>1. stack # <<>> /\ Top.svcs \subseteq Service /\ Top.inst \in Nat
    BY <1>9, TopFields DEF ModulesNext, At, Created
  <2>2. PICK s \in Top.svcs :
          LET remaining == <<ModuleLoop(Top.inst, Top.svcs \ {s})>> \o Rest
          IN \/ CanCreate(s) /\ Construct(s, Top.inst, remaining)
             \/ stack' = remaining /\ UNCHANGED <<record, records>>
             \/ Throw /\ UNCHANGED <<record, records>>
    BY <1>9 DEF ModulesNext, registryVars
  <2> DEFINE loop == ModuleLoop(Top.inst, Top.svcs \ {s})
             remaining == <<loop>> \o Rest
  <2>3. s \in Service /\ Top.svcs \ {s} \in SUBSET Service
    BY <2>1, <2>2
  <2>4. loop \in Settled
    BY <1>2, <2>1, <2>3
  <2> HIDE DEF loop
  <2>5. remaining \in Seq(Settled)
    BY <1>1, <2>1, <2>4, PushOne
  <2> HIDE DEF remaining
  <2>6. CASE CanCreate(s) /\ Construct(s, Top.inst, remaining)
    BY <2>3, <2>5, <2>6, ConstructorEntered
  <2>7. CASE stack' = remaining /\ UNCHANGED <<record, records>>
    BY <1>6, <2>5, <2>7
  <2>8. CASE Throw /\ UNCHANGED <<record, records>>
    BY <1>7, <2>1, <2>8
  <2>9. QED BY <2>2, <2>6, <2>7, <2>8 DEF remaining, loop
<1>10. CASE \E s \in Service : Register(s)
  <2>1. PICK s \in Service :
          /\ CanCreate(s)
          /\ Construct(s, 0, ThenInitialize(s) \o <<StartIfStarted(Len(record) + 1)>> \o stack)
    BY <1>10 DEF Register
  <2> DEFINE last == StartIfStarted(Len(record) + 1)
             q == ThenInitialize(s) \o <<last>>
             continuation == q \o stack
  <2>2. last \in Settled
    BY <1>3, <1>4
  <2> HIDE DEF last
  <2>3. <<last>> \in Seq(Settled)
    BY <2>2
  <2>4. q \in Seq(Settled)
    BY <1>5, <2>3, ConcatProperties
  <2> HIDE DEF q
  <2>5. continuation \in Seq(Settled)
    BY <2>4, ConcatProperties
  <2> HIDE DEF continuation
  <2>6. Construct(s, 0, continuation)
    BY <2>1 DEF continuation, q, last
  <2>7. QED BY <2>1, <2>5, <2>6, ConstructorEntered
<1>11. QED BY <1>8, <1>9, <1>10 DEF Constructs

LEMMA NamesStep ==
  ASSUME ConstructorsDoNotReenter, TypeInv, TypeInv', NamesInv, [Next]_vars
  PROVE  NamesInv'
<1>1. CASE stack # <<>> /\ Constructing(Top)
  BY <1>1, ConstructorRuns, ConstructorNames
<1>2. CASE ~(stack # <<>> /\ Constructing(Top))
  <2>1. stack \in Seq(Settled)
    <3>1. stack \in Seq(Frame)
      BY DEF TypeInv, TypeOK
    <3>2. CASE stack = <<>>
      BY <3>2, EmptySeq
    <3>3. CASE stack # <<>>
      <4>1. Top \in Settled /\ Rest \in Seq(Settled)
        BY <1>2, <3>1, <3>3, HeadTailProperties
        DEF NamesInv, OneConstructor, Top, Rest, Settled
      <4>2. stack = <<Top>> \o Rest
        BY <3>1, <3>3 DEF Top, Rest
      <4>3. QED BY <4>1, <4>2, PushOne
    <3>4. QED BY <3>2, <3>3
  <2>2. ASSUME stack' \in Seq(Settled), UNCHANGED record, records' \subseteq records
        PROVE  NamesInv'
    BY <2>2, NamesStay, SettledStack DEF NamesInv
  <2>3. CASE Constructs
    BY <2>1, <2>3, ActivationNames DEF NamesInv
  <2>4. CASE DisposeNext
    <3>1. stack # <<>> /\ UNCHANGED <<record, records>>
      BY <2>4 DEF DisposeNext, At, registryVars
    <3>2. Rest \in Seq(Settled)
      BY <2>1, <3>1, HeadTailProperties DEF Rest
    <3>3. DisposeModules(modules[Top.inst]) \in Settled /\ DestroyOne(Top.inst) \in Settled
      <4>1. Top.t = "dispose"
        BY <2>4 DEF DisposeNext, At
      <4>2. Top.inst \in Inst
        BY <3>1, <4>1, TopFields
      <4>3. modules[Top.inst] \in SUBSET Nat /\ Top.inst \in Nat
        BY <4>2 DEF TypeInv, TypeOK, Inst
      <4>4. QED
        BY <4>3 DEF Settled, Frame, DisposeModules, DestroyOne, About, Constructing, Hook
    <3>4. stack' \in Seq(Settled)
      BY <2>4, <3>2, <3>3, PushTwo DEF DisposeNext
    <3>5. QED BY <2>2, <3>1, <3>4
  <2>5. CASE DestroyNext
    <3>1. stack # <<>> /\ UNCHANGED <<record, records>> /\ Top.t = "destroy"
      BY <2>5 DEF DestroyNext, At, registryVars
    <3>2. Rest \in Seq(Settled)
      BY <2>1, <3>1, HeadTailProperties DEF Rest
    <3>3. User("destroy", Top.inst) \in Settled
      <4>1. Top.inst \in Nat
        BY <3>1, TopFields DEF Created
      <4>2. QED BY <4>1 DEF Settled, Frame, User, About, Constructing, Hook
    <3>4. stack' \in Seq(Settled)
      BY <2>5, <3>2, <3>3, PushOne DEF DestroyNext
    <3>5. QED BY <2>2, <3>1, <3>4
  <2>6. CASE DestroyReturns
    <3>1. stack # <<>> /\ UNCHANGED record /\ records' \subseteq records /\ stack' = Rest
      BY <2>6 DEF DestroyReturns, Returns, At
    <3>2. stack' \in Seq(Settled)
      BY <2>1, <3>1, HeadTailProperties DEF Rest
    <3>3. QED BY <2>2, <3>1, <3>2
  <2>7. CASE ConstructReturns
    BY <1>2, <2>7 DEF ConstructReturns, Returns, At, Constructing
  <2>8. CASE ~(Constructs \/ DisposeNext \/ DestroyNext \/ ConstructReturns \/ DestroyReturns)
    <3>1. Shifts(stack, stack') /\ UNCHANGED <<record, records>>
      BY <2>8, LoopsMove DEF Next, Advance, Call, Constructs
    <3>2. QED BY <2>1, <2>2, <3>1, SettledShift
  <2>9. QED BY <2>3, <2>4, <2>5, <2>6, <2>7, <2>8
<1>3. QED BY <1>1, <1>2

(* Unless a constructor itself calls the manager, no two registered        *)
(* services share a token and a name, whatever other callbacks throw or    *)
(* call: the duplicate check of createRecord (395) and addRecord are       *)
(* separated by a constructor, and nothing registers in between.           *)
THEOREM NamesAreUnique ==
  ASSUME ConstructorsDoNotReenter
  PROVE  Spec => []UniqueNames
<1>1. Init => NamesInv
  BY DEF Init, NamesInv, UniqueNames, OneConstructor
<1>2. TypeInv /\ TypeInv' /\ NamesInv /\ [Next]_vars => NamesInv'
  BY NamesStep
<1>3. NamesInv => UniqueNames
  BY DEF NamesInv
<1>4. QED BY <1>1, <1>2, <1>3, TypeCorrect, PTL DEF Spec

-----------------------------------------------------------------------------
(* Stacks by level: level 1 is the outermost frame, so that calling and    *)
(* returning leave the levels below alone.                                 *)

Level(s, b) == s[Len(s) + 1 - b]

LEMMA LevelConcat ==
  ASSUME NEW S, NEW q \in Seq(S), NEW s \in Seq(S)
  PROVE  /\ Len(q \o s) = Len(q) + Len(s) /\ Len(q) \in Nat /\ Len(s) \in Nat
         /\ \A b \in 1 .. Len(s) : Level(q \o s, b) = Level(s, b)
         /\ \A b \in Len(s) + 1 .. Len(q \o s) : Level(q \o s, b) = q[Len(q) + Len(s) + 1 - b]
<1>1. /\ Len(q \o s) = Len(q) + Len(s) /\ Len(q) \in Nat /\ Len(s) \in Nat
      /\ \A k \in 1 .. Len(q) + Len(s) :
           (q \o s)[k] = IF k <= Len(q) THEN q[k] ELSE s[k - Len(q)]
  BY ConcatProperties, LenProperties
<1>2. ASSUME NEW b \in 1 .. Len(s)
      PROVE  Level(q \o s, b) = Level(s, b)
  <2>1. /\ Len(q) + Len(s) + 1 - b \in 1 .. Len(q) + Len(s)
        /\ ~(Len(q) + Len(s) + 1 - b <= Len(q))
        /\ (Len(q) + Len(s) + 1 - b) - Len(q) = Len(s) + 1 - b
    BY <1>1
  <2>2. QED BY <1>1, <2>1 DEF Level
<1>3. ASSUME NEW b \in Len(s) + 1 .. Len(q \o s)
      PROVE  Level(q \o s, b) = q[Len(q) + Len(s) + 1 - b]
  <2>1. /\ Len(q) + Len(s) + 1 - b \in 1 .. Len(q) + Len(s)
        /\ Len(q) + Len(s) + 1 - b <= Len(q)
    BY <1>1
  <2>2. QED BY <1>1, <2>1 DEF Level
<1>4. QED BY <1>1, <1>2, <1>3

(* A call: one or two frames, q, on top of s. *)
LEMMA LevelCall ==
  ASSUME NEW S, NEW s \in Seq(S), NEW q \in Seq(S)
  PROVE  /\ Len(s) \in Nat
         /\ \A b \in 1 .. Len(s) : Level(q \o s, b) = Level(s, b)
         /\ Len(q) = 1 =>
              Len(q \o s) = Len(s) + 1 /\ Level(q \o s, Len(s) + 1) = q[1]
         /\ Len(q) = 2 =>
              /\ Len(q \o s) = Len(s) + 2
              /\ Level(q \o s, Len(s) + 1) = q[2] /\ Level(q \o s, Len(s) + 2) = q[1]
<1> DEFINE t == q \o s
<1>1. /\ Len(s) \in Nat /\ Len(q) \in Nat /\ Len(t) = Len(q) + Len(s)
      /\ \A b \in 1 .. Len(s) : Level(t, b) = Level(s, b)
      /\ \A b \in Len(s) + 1 .. Len(t) : Level(t, b) = q[Len(q) + Len(s) + 1 - b]
  BY LevelConcat
<1> HIDE DEF t
<1>2. ASSUME Len(q) = 1
      PROVE  Len(t) = Len(s) + 1 /\ Level(t, Len(s) + 1) = q[1]
  <2>1. /\ Len(t) = Len(s) + 1 /\ Len(s) + 1 \in Len(s) + 1 .. Len(t)
        /\ Len(q) + Len(s) + 1 - (Len(s) + 1) = 1
    BY <1>1, <1>2
  <2>2. QED BY <1>1, <2>1
<1>3. ASSUME Len(q) = 2
      PROVE  /\ Len(t) = Len(s) + 2
             /\ Level(t, Len(s) + 1) = q[2] /\ Level(t, Len(s) + 2) = q[1]
  <2>1. /\ Len(t) = Len(s) + 2
        /\ Len(s) + 1 \in Len(s) + 1 .. Len(t) /\ Len(s) + 2 \in Len(s) + 1 .. Len(t)
        /\ Len(q) + Len(s) + 1 - (Len(s) + 1) = 2
        /\ Len(q) + Len(s) + 1 - (Len(s) + 2) = 1
    BY <1>1, <1>3
  <2>2. QED BY <1>1, <2>1
<1>4. QED BY <1>1, <1>2, <1>3 DEF t

(* One call on top of another. *)
LEMMA PushTwice ==
  ASSUME NEW S, NEW s \in Seq(S), NEW f \in S, NEW g \in S
  PROVE  <<f>> \o (<<g>> \o s) = <<f, g>> \o s
<1> DEFINE one == <<f>>
           other == <<g>>
           two == <<f, g>>
<1>1. /\ one \in Seq(S) /\ Len(one) = 1 /\ one[1] = f
      /\ other \in Seq(S) /\ Len(other) = 1 /\ other[1] = g
  OBVIOUS
<1>2. two \in Seq(S) /\ Len(two) = 2 /\ two[1] = f /\ two[2] = g
  OBVIOUS
<1> HIDE DEF one, other, two
<1>3. /\ one \o other \in Seq(S) /\ Len(one \o other) = 2
      /\ \A k \in 1 .. 2 : (one \o other)[k] = two[k]
  <2>1. /\ one \o other \in Seq(S) /\ Len(one \o other) = 1 + 1
        /\ \A k \in 1 .. 1 + 1 : (one \o other)[k] = IF k <= 1 THEN one[k] ELSE other[k - 1]
    BY <1>1, ConcatProperties
  <2>2. QED BY <1>1, <1>2, <2>1
<1>4. one \o other = two
  BY <1>2, <1>3, SeqEqual
<1>5. (one \o other) \o s = one \o (other \o s)
  BY <1>1, ConcatAssociative
<1>6. QED BY <1>4, <1>5 DEF one, other, two

(* A return. *)
LEMMA LevelPop ==
  ASSUME TypeInv, stack # <<>>
  PROVE  /\ Len(stack) \in Nat \ {0} /\ Len(Rest) = Len(stack) - 1
         /\ Level(stack, Len(stack)) = Top
         /\ \A b \in 1 .. Len(Rest) : Level(Rest, b) = Level(stack, b)
<1>1. /\ Len(stack) \in Nat /\ 1 \in 1 .. Len(stack) /\ Top = stack[1]
      /\ Len(Rest) = Len(stack) - 1
      /\ \A k \in 1 .. Len(Rest) : Rest[k] = stack[k + 1]
  BY RestFrames
<1>2. Level(stack, Len(stack)) = Top
  <2>1. Len(stack) + 1 - Len(stack) = 1
    BY <1>1
  <2>2. QED BY <1>1, <2>1 DEF Level
<1>3. ASSUME NEW b \in 1 .. Len(Rest)
      PROVE  Level(Rest, b) = Level(stack, b)
  <2>1. /\ Len(Rest) + 1 - b \in 1 .. Len(Rest)
        /\ (Len(Rest) + 1 - b) + 1 = Len(stack) + 1 - b
    BY <1>1
  <2>2. QED BY <1>1, <2>1 DEF Level
<1>4. QED BY <1>1, <1>2, <1>3

(* A call on top of the loop it comes from. *)
LEMMA CallOnTop ==
  ASSUME TypeInv, stack # <<>>, NEW f, NEW g
  PROVE  /\ <<f>> \o (<<g>> \o Rest) = <<f, g>> \o Rest
         /\ Len(<<f, g>> \o Rest) = Len(Rest) + 2
         /\ Level(<<f, g>> \o Rest, Len(Rest) + 1) = g
         /\ Level(<<f, g>> \o Rest, Len(Rest) + 2) = f
         /\ \A b \in 1 .. Len(Rest) : Level(<<f, g>> \o Rest, b) = Level(Rest, b)
<1> DEFINE S == Frame \cup {f, g}
           q == <<f, g>>
<1>1. f \in S /\ g \in S
  OBVIOUS
<1>2. Rest \in Seq(S)
  BY RestFrames, SequencesGrow
<1> HIDE DEF S
<1>3. q \in Seq(S) /\ Len(q) = 2 /\ q[1] = f /\ q[2] = g
  BY <1>1
<1>4. <<f>> \o (<<g>> \o Rest) = q \o Rest
  BY <1>1, <1>2, PushTwice
<1> HIDE DEF q
<1>5. /\ Len(q \o Rest) = Len(Rest) + 2
      /\ Level(q \o Rest, Len(Rest) + 1) = g
      /\ Level(q \o Rest, Len(Rest) + 2) = f
      /\ \A b \in 1 .. Len(Rest) : Level(q \o Rest, b) = Level(Rest, b)
  BY <1>2, <1>3, LevelCall
<1>6. QED BY <1>4, <1>5 DEF q

LEMMA CalledOnTop ==
  ASSUME TypeInv, stack # <<>>, NEW f, NEW g
  PROVE  stack' = <<f, g>> \o Rest =>
           /\ Len(stack') = Len(Rest) + 2
           /\ Level(stack', Len(Rest) + 1) = g /\ Level(stack', Len(Rest) + 2) = f
           /\ \A b \in 1 .. Len(Rest) : Level(stack', b) = Level(Rest, b)
<1> DEFINE S == Frame \cup {f, g}
           q == <<f, g>>
           s == q \o Rest
<1>1. f \in S /\ g \in S
  OBVIOUS
<1>2. Rest \in Seq(S)
  BY RestFrames, SequencesGrow
<1> HIDE DEF S
<1>3. q \in Seq(S) /\ Len(q) = 2 /\ q[1] = f /\ q[2] = g
  BY <1>1
<1> HIDE DEF q
<1>4. /\ Len(s) = Len(Rest) + 2
      /\ Level(s, Len(Rest) + 1) = g /\ Level(s, Len(Rest) + 2) = f
      /\ \A b \in 1 .. Len(Rest) : Level(s, b) = Level(Rest, b)
  BY <1>2, <1>3, LevelCall
<1> HIDE DEF s
<1>5. stack' = s =>
        /\ Len(stack') = Len(Rest) + 2
        /\ Level(stack', Len(Rest) + 1) = g /\ Level(stack', Len(Rest) + 2) = f
        /\ \A b \in 1 .. Len(Rest) : Level(stack', b) = Level(Rest, b)
  BY <1>4
<1>6. QED BY <1>5 DEF q, s

(* An exception: the levels from the last user code down. *)
LEMMA LevelThrow ==
  ASSUME TypeInv, stack # <<>>, Throw
  PROVE  /\ Len(stack') \in Nat /\ Len(stack') < Len(stack)
         /\ \A b \in 1 .. Len(stack') : Level(stack', b) = Level(stack, b)
         /\ Len(stack') # 0 => Level(stack', Len(stack')).t = "user"
         /\ \A b \in 1 .. Len(stack) :
              (b > Len(stack') /\ b < Len(stack)) => Level(stack, b).t # "user"
<1>1. /\ Rest \in Seq(Frame) /\ Len(Rest) \in Nat /\ Len(stack) \in Nat
      /\ Len(Rest) = Len(stack) - 1
      /\ \A b \in 1 .. Len(Rest) : Level(Rest, b) = Level(stack, b)
  BY LevelPop, RestFrames
<1>2. ASSUME NEW b \in 1 .. Len(stack), b < Len(stack)
      PROVE  /\ b \in 1 .. Len(Rest) /\ Len(Rest) + 1 - b \in 1 .. Len(Rest)
             /\ Level(stack, b) = Rest[Len(Rest) + 1 - b]
  <2>1. b \in 1 .. Len(Rest) /\ Len(Rest) + 1 - b \in 1 .. Len(Rest)
    BY <1>1, <1>2
  <2>2. QED BY <1>1, <2>1 DEF Level
<1>3. CASE UserFrames(Rest) = {} /\ stack' = <<>>
  <2>1. Len(stack') = 0
    BY <1>3
  <2>2. ASSUME NEW b \in 1 .. Len(stack), b < Len(stack)
        PROVE  Level(stack, b).t # "user"
    BY <1>2, <1>3, <2>2 DEF UserFrames
  <2>3. 0 < Len(stack)
    BY <1>1
  <2>4. \A b \in 1 .. Len(stack') : FALSE
    BY <2>1
  <2>5. QED
    <3>1. \A b \in 1 .. Len(stack) :
            (b > Len(stack') /\ b < Len(stack)) => Level(stack, b).t # "user"
      BY <2>2
    <3>2. QED BY <2>1, <2>3, <2>4, <3>1
<1>4. ASSUME NEW k \in UserFrames(Rest), \A l \in UserFrames(Rest) : k <= l,
             stack' = SubSeq(Rest, k, Len(Rest))
      PROVE  /\ Len(stack') \in Nat /\ Len(stack') < Len(stack)
             /\ \A b \in 1 .. Len(stack') : Level(stack', b) = Level(stack, b)
             /\ Len(stack') # 0 => Level(stack', Len(stack')).t = "user"
             /\ \A b \in 1 .. Len(stack) :
                  (b > Len(stack') /\ b < Len(stack)) => Level(stack, b).t # "user"
  <2>1. k \in 1 .. Len(Rest) /\ Rest[k].t = "user"
    BY <1>4 DEF UserFrames
  <2>2. /\ Len(stack') = Len(Rest) - k + 1
        /\ \A j \in 1 .. Len(stack') : stack'[j] = Rest[k + j - 1]
    BY <1>1, <1>4, <2>1, SubSeqProperties
  <2>3. Len(stack') \in Nat \ {0} /\ Len(stack') <= Len(Rest)
    BY <1>1, <2>1, <2>2
  <2>4. ASSUME NEW b \in 1 .. Len(stack')
        PROVE  Level(stack', b) = Level(stack, b)
    <3>1. /\ Len(stack') + 1 - b \in 1 .. Len(stack')
          /\ k + (Len(stack') + 1 - b) - 1 = Len(Rest) + 1 - b
          /\ b \in 1 .. Len(stack) /\ b < Len(stack)
      BY <1>1, <2>1, <2>2, <2>3
    <3>2. stack'[Len(stack') + 1 - b] = Rest[Len(Rest) + 1 - b]
      BY <2>2, <3>1
    <3>3. QED BY <1>2, <3>1, <3>2 DEF Level
  <2>5. Level(stack', Len(stack')).t = "user"
    <3>1. Len(stack') + 1 - Len(stack') = 1 /\ 1 \in 1 .. Len(stack') /\ k + 1 - 1 = k
      BY <2>1, <2>3
    <3>2. QED BY <2>1, <2>2, <3>1 DEF Level
  <2>6. ASSUME NEW b \in 1 .. Len(stack), b > Len(stack'), b < Len(stack)
        PROVE  Level(stack, b).t # "user"
    <3>1. Len(Rest) + 1 - b \in 1 .. Len(Rest) /\ Len(Rest) + 1 - b < k
      BY <1>1, <2>1, <2>2, <2>6
    <3>2. Rest[Len(Rest) + 1 - b].t # "user"
      BY <1>4, <2>1, <3>1 DEF UserFrames
    <3>3. QED BY <1>2, <2>6, <3>2
  <2>7. Len(stack') < Len(stack)
    BY <1>1, <2>3
  <2>8. QED BY <2>3, <2>4, <2>5, <2>6, <2>7
<1>5. QED BY <1>3, <1>4 DEF Throw

-----------------------------------------------------------------------------
(* What a step puts on the stack.                                          *)

Counted == {"initialize", "start"}
CountedUser(f) == f.t = "user" /\ f.hook \in Counted

(* The frame is, or leads to, a call of hook h. *)
MayCall(f, h) ==
  \/ f.t \in {"walk", "hook", "hookModules", "user", "forEach"} /\ f.hook = h
  \/ f.t = "startIfStarted" /\ h = "start"

(* A new frame that may call h is about the instance being created, comes  *)
(* from the loop that was running and is about nothing older, or is the    *)
(* loop of start().                                                        *)
Descends(f, h) ==
  \/ f.t # "forEach" /\ f.inst = Len(record) + 1
  \/ h = "start" /\ ~started
  \/ /\ stack # <<>> /\ MayCall(Top, h) /\ Top.t # "user"
     /\ Top.t = "forEach" \/ (f.t # "forEach" /\ f.inst >= Top.inst)

(* The frame starts services, whatever the manager's flag says by now. *)
Starting(f) == MayCall(f, "start") /\ f.t # "startIfStarted"

Fresh(f) ==
  /\ \A h \in Counted : MayCall(f, h) => Descends(f, h)
  /\ Starting(f) => started' \/ (stack # <<>> /\ Starting(Top))
  /\ f.t = "modules" =>
       \/ f.inst = Len(record) + 1
       \/ stack # <<>> /\ Top.t = "modules" /\ f.inst = Top.inst
  /\ f.t = "startIfStarted" => f.inst = Len(record) + 1
  /\ f.t = "profile" => InitializeProfile \/ ProfileNext
  /\ f.t = "disposeAll" => Dispose \/ DisposeAllNext
  /\ f.t = "destroy" => DisposeNext
  /\ (f.t = "user" /\ f.hook = "destroy") => DestroyNext
  /\ (f.t = "user" /\ f.hook = "construct") => Constructs /\ f.inst = Len(record) + 1
  /\ CountedUser(f) => HookNext \/ HookModulesNext

(* The step keeps the m outermost levels and puts fresh frames on top of   *)
(* them, of which only the last can be user code.                          *)
Arises(m) ==
  /\ m \in Nat /\ m <= Len(stack) /\ m <= Len(stack') /\ Len(stack') \in Nat
  /\ \A b \in 1 .. m : Level(stack', b) = Level(stack, b)
  /\ \A c \in m + 1 .. Len(stack') :
       /\ Fresh(Level(stack', c))
       /\ c < Len(stack') => Level(stack', c).t # "user"

UserReturns ==
  \/ ConstructReturns \/ InitializeReturns \/ StartReturns \/ CallbackReturns \/ DestroyReturns

(* The steps that throw nothing: the head stays, or is replaced. *)
Runs ==
  \E m : /\ Arises(m)
         /\ \/ m = Len(stack) /\ (stack' = stack \/ stack = <<>> \/ Top.t = "user")
            \/ stack # <<>> /\ m = Len(stack) - 1 /\ (Top.t = "user" => UserReturns)

(* The steps that throw: those of user code, and of loops that activate. *)
Breaks == stack # <<>> /\ Throw /\ (Top.t = "user" => UserThrows)

LEMMA ArisesConcat ==
  ASSUME TypeInv, NEW base, base = stack \/ (stack # <<>> /\ base = Rest),
         NEW T, NEW q \in Seq(T), stack' = q \o base,
         \A k \in 1 .. Len(q) : Fresh(q[k]) /\ (k > 1 => q[k].t # "user")
  PROVE  Arises(Len(base))
<1> DEFINE S == Frame \cup T
<1>1. /\ base \in Seq(Frame) /\ Len(base) \in Nat /\ Len(base) <= Len(stack)
      /\ \A b \in 1 .. Len(base) : Level(base, b) = Level(stack, b)
  <2>1. stack \in Seq(Frame) /\ Len(stack) \in Nat
    BY LenProperties DEF TypeInv, TypeOK
  <2>2. CASE base = stack
    BY <2>1, <2>2
  <2>3. CASE stack # <<>> /\ base = Rest
    BY <2>1, <2>3, LevelPop, RestFrames
  <2>4. QED BY <2>2, <2>3
<1>2. base \in Seq(S) /\ q \in Seq(S)
  BY <1>1, SequencesGrow
<1> HIDE DEF S
<1>3. /\ Len(stack') = Len(q) + Len(base) /\ Len(q) \in Nat
      /\ \A b \in 1 .. Len(base) : Level(stack', b) = Level(base, b)
      /\ \A b \in Len(base) + 1 .. Len(stack') : Level(stack', b) = q[Len(q) + Len(base) + 1 - b]
  BY <1>2, LevelConcat
<1>4. ASSUME NEW c \in Len(base) + 1 .. Len(stack')
      PROVE  /\ Fresh(Level(stack', c))
             /\ c < Len(stack') => Level(stack', c).t # "user"
  <2> DEFINE k == Len(q) + Len(base) + 1 - c
  <2>1. k \in 1 .. Len(q) /\ (c < Len(stack') => k > 1) /\ Level(stack', c) = q[k]
    BY <1>1, <1>3
  <2> HIDE DEF k
  <2>2. QED BY <2>1
<1>5. Len(base) <= Len(stack') /\ Len(stack') \in Nat
  BY <1>1, <1>3
<1>6. QED BY <1>1, <1>3, <1>4, <1>5 DEF Arises

LEMMA ArisesPush ==
  ASSUME TypeInv, NEW base, base = stack \/ (stack # <<>> /\ base = Rest),
         NEW f, NEW g, Fresh(f), Fresh(g), g.t # "user"
  PROVE  /\ stack' = base => Arises(Len(base))
         /\ stack' = <<f>> \o base => Arises(Len(base))
         /\ stack' = <<f, g>> \o base => Arises(Len(base))
         /\ stack' = <<f>> \o (<<g>> \o base) => Arises(Len(base))
<1> DEFINE T == {f, g}
           none == <<>>
           one == <<f>>
           two == <<f, g>>
<1>1. none \in Seq(T) /\ Len(none) = 0
  BY EmptySeq
<1>2. one \in Seq(T) /\ Len(one) = 1 /\ one[1] = f
  OBVIOUS
<1>3. two \in Seq(T) /\ Len(two) = 2 /\ two[1] = f /\ two[2] = g
  OBVIOUS
<1>4. base \in Seq(Frame)
  BY RestFrames DEF TypeInv, TypeOK
<1>5. none \o base = base
  BY <1>4, EmptySeq, ConcatEmptySeq
<1>6. <<f>> \o (<<g>> \o base) = two \o base
  <2> DEFINE S == Frame \cup {f, g}
  <2>1. f \in S /\ g \in S
    OBVIOUS
  <2>2. base \in Seq(S)
    BY <1>4, SequencesGrow
  <2> HIDE DEF S
  <2>3. QED BY <2>1, <2>2, PushTwice
<1> HIDE DEF T, none, one, two
<1>7. ASSUME stack' = none \o base PROVE Arises(Len(base))
  <2>1. \A k \in 1 .. Len(none) : FALSE
    BY <1>1
  <2>2. QED BY <1>1, <1>7, <2>1, ArisesConcat
<1>8. ASSUME stack' = one \o base PROVE Arises(Len(base))
  <2>1. \A k \in 1 .. Len(one) : Fresh(one[k]) /\ (k > 1 => one[k].t # "user")
    <3>1. \A k \in 1 .. Len(one) : k = 1 /\ ~(k > 1)
      BY <1>2
    <3>2. QED BY <1>2, <3>1
  <2>2. QED BY <1>2, <1>8, <2>1, ArisesConcat
<1>9. ASSUME stack' = two \o base PROVE Arises(Len(base))
  <2>1. \A k \in 1 .. Len(two) : Fresh(two[k]) /\ (k > 1 => two[k].t # "user")
    <3>1. \A k \in 1 .. Len(two) : (k = 1 /\ ~(k > 1)) \/ k = 2
      BY <1>3
    <3>2. QED BY <1>3, <3>1
  <2>2. QED BY <1>3, <1>9, <2>1, ArisesConcat
<1>10. QED BY <1>5, <1>6, <1>7, <1>8, <1>9 DEF one, two

(* Parents come before their modules, and know only modules of their own. *)
OwnOf(p) == {j \in Created : record[j].parent = p}

OwnModules ==
  /\ \A i \in Created : record[i].parent < i
  /\ \A p \in Inst : serviceModules[p] \in Seq(OwnOf(p)) /\ modules[p] \subseteq OwnOf(p)

(* An activation step creates at most one instance, under an older parent. *)
LEMMA ConstructsOne ==
  ASSUME TypeInv, Constructs
  PROVE  \/ \E s \in Service, p \in 0 .. Len(record) : \E c : Construct(s, p, c)
         \/ UNCHANGED <<registryVars, flagVars, managerVars, waiterVars>>
<1>1. Len(record) \in Nat
  BY DEF TypeInv, TypeOK
<1>2. CASE ProfileNext
  <2>1. Top.svcs \subseteq Service /\ 0 \in 0 .. Len(record)
    BY <1>1, <1>2, TopFields DEF ProfileNext, At
  <2>2. QED BY <1>2, <2>1 DEF ProfileNext
<1>3. CASE ModulesNext
  <2>1. Top.svcs \subseteq Service /\ Top.inst \in 0 .. Len(record)
    BY <1>1, <1>3, TopFields DEF ModulesNext, At, Created
  <2>2. QED BY <1>3, <2>1 DEF ModulesNext
<1>4. CASE \E s \in Service : Register(s)
  <2>1. 0 \in 0 .. Len(record)
    BY <1>1
  <2>2. QED BY <1>4, <2>1 DEF Register
<1>5. QED BY <1>2, <1>3, <1>4 DEF Constructs

LEMMA OwnModulesStep ==
  ASSUME TypeInv, TypeInv', OwnModules, [Next]_vars
  PROVE  OwnModules'
<1> DEFINE L == Len(record)
<1>1. L \in Nat
  BY DEF TypeInv, TypeOK
<1>2. ASSUME UNCHANGED <<record, modules, serviceModules>> PROVE OwnModules'
  BY <1>2 DEF OwnModules, OwnOf, Created
<1>3. CASE Constructs
  <2>1. CASE UNCHANGED <<registryVars, flagVars, managerVars, waiterVars>>
    BY <1>2, <2>1 DEF registryVars
  <2>2. ASSUME NEW s \in Service, NEW p \in 0 .. L, NEW c, Construct(s, p, c)
        PROVE  OwnModules'
    <3> DEFINE r == [svc |-> s, parent |-> p, deps |-> Resolved(s)]
    <3>1. record' = Append(record, r) /\ r.parent = p /\ record \in Seq(Record)
      BY <2>2 DEF Construct, TypeInv, TypeOK
    <3> HIDE DEF r
    <3>2. /\ Len(record') = L + 1 /\ record'[L + 1] = r
          /\ \A j \in 1 .. L : record'[j] = record[j]
      BY <3>1
    <3>3. Created' = 1 .. (L + 1) /\ \A j \in Created' : j \in 1 .. L \/ j = L + 1
      BY <1>1, <3>2 DEF Created
    <3>4. \A j \in Created' : record'[j].parent < j
      <4>1. p < L + 1
        BY <1>1
      <4>2. \A j \in 1 .. L : record[j].parent < j
        BY DEF OwnModules, Created
      <4>3. QED BY <3>1, <3>2, <3>3, <4>1, <4>2
    <3>5. \A q : OwnOf(q) \subseteq OwnOf(q)' /\ L + 1 \in OwnOf(p)'
      <4>1. Created \subseteq Created' /\ L + 1 \in Created'
        BY <1>1, <3>3 DEF Created
      <4>2. QED BY <3>1, <3>2, <4>1 DEF OwnOf, Created
    <3>6. \A q \in Inst : serviceModules[q] \in Seq(OwnOf(q)')
      <4> SUFFICES ASSUME NEW q \in Inst PROVE serviceModules[q] \in Seq(OwnOf(q)')
        OBVIOUS
      <4> DEFINE T == OwnOf(q)'
      <4>1. serviceModules[q] \in Seq(OwnOf(q)) /\ OwnOf(q) \subseteq T
        BY <3>5 DEF OwnModules
      <4> HIDE DEF T
      <4>2. serviceModules[q] \in Seq(T)
        BY <4>1, SequencesGrow
      <4>3. QED BY <4>2 DEF T
    <3>7. \A q \in Inst : serviceModules'[q] \in Seq(OwnOf(q)')
      <4> SUFFICES ASSUME NEW q \in Inst PROVE serviceModules'[q] \in Seq(OwnOf(q)')
        OBVIOUS
      <4> DEFINE T == OwnOf(q)'
      <4>1. serviceModules[q] \in Seq(T) /\ (q = p => L + 1 \in T)
        BY <3>5, <3>6
      <4> HIDE DEF T
      <4>2. serviceModules'[q] = IF p # 0 /\ q = p THEN Append(serviceModules[q], L + 1)
                                 ELSE serviceModules[q]
        BY <2>2 DEF Construct, TypeInv, TypeOK
      <4>3. serviceModules'[q] \in Seq(T)
        BY <4>1, <4>2
      <4>4. QED BY <4>3 DEF T
    <3>8. \A q \in Inst : modules'[q] \subseteq OwnOf(q)'
      BY <2>2, <3>5 DEF Construct, OwnModules
    <3>9. QED BY <3>4, <3>7, <3>8 DEF OwnModules
  <2>3. QED BY <1>3, <2>1, <2>2, ConstructsOne
<1>4. CASE ModulesDone
  <2>1. UNCHANGED <<record, serviceModules>>
    BY <1>4 DEF ModulesDone
  <2>2. \A q : OwnOf(q)' = OwnOf(q)
    BY <2>1 DEF OwnOf, Created
  <2>3. \A q \in Inst : modules'[q] \in {modules[q], OwnOf(q)}
    BY <1>4 DEF ModulesDone, TypeInv, TypeOK, OwnOf, Created
  <2>4. QED BY <2>1, <2>2, <2>3 DEF OwnModules, Created
<1>5. CASE DestroyReturns
  <2>1. UNCHANGED record /\ modules' = [modules EXCEPT ![Top.inst] = {}]
    BY <1>5 DEF DestroyReturns
  <2>2. \A q : OwnOf(q)' = OwnOf(q)
    BY <2>1 DEF OwnOf, Created
  <2>3. \A q \in Inst :
          serviceModules'[q] \in {serviceModules[q], Without(serviceModules[q], Top.inst)}
    BY <1>5 DEF DestroyReturns, TypeInv, TypeOK
  <2>4. \A q \in Inst : serviceModules'[q] \in Seq(OwnOf(q))
    BY <2>3, WithoutType DEF OwnModules
  <2>5. \A q \in Inst : modules'[q] \subseteq OwnOf(q)
    BY <2>1 DEF OwnModules, TypeInv, TypeOK
  <2>6. \A q \in Inst : serviceModules'[q] \in Seq(OwnOf(q)') /\ modules'[q] \subseteq OwnOf(q)'
    BY <2>2, <2>4, <2>5
  <2>7. QED BY <2>1, <2>6 DEF OwnModules, Created
<1>6. CASE ~(Constructs \/ ModulesDone \/ DestroyReturns)
  <2>1. CASE Call
    BY <1>2, <1>6, <2>1
    DEF Call, Constructs, InitializeProfile, Start, Tick, Reset, Dispose, Unregister,
        registryVars
  <2>2. CASE Advance
    BY <1>2, <1>6, <2>2
    DEF Advance, Constructs, ProfileDone, WalkNext, StartIfStartedNext, HookNext,
        HookModulesNext, ForEachNext, DisposeAllNext, DisposeNext, DisposeModulesNext,
        DestroyNext, ConstructReturns, InitializeReturns, StartReturns, CallbackReturns,
        UserThrows, registryVars
  <2>3. CASE Wait \/ UNCHANGED vars
    BY <1>2, <2>3
    DEF Wait, ResolveAsync, ResolveTimeout, WaitUntilInitialized, InitializationTimeout,
        vars, registryVars
  <2>4. QED BY <2>1, <2>2, <2>3 DEF Next
<1>7. QED BY <1>3, <1>4, <1>5, <1>6

LEMMA OwnModulesInit ==
  Init => OwnModules
<1> SUFFICES ASSUME Init PROVE OwnModules
  OBVIOUS
<1>1. \A S : <<>> \in Seq(S)
  OBVIOUS
<1>2. Created = {}
  BY DEF Init, Created
<1>3. QED BY <1>1, <1>2 DEF Init, OwnModules

LEMMA FreshFrames ==
  /\ \A S : /\ InitializeProfile \/ ProfileNext => Fresh(ProfileLoop(S))
            /\ Dispose \/ DisposeAllNext => Fresh(DisposeAll(S))
            /\ Fresh(DisposeModules(S))
  /\ \A i : Fresh(DisposeOne(i)) /\ (DisposeNext => Fresh(DestroyOne(i)))
  /\ \A S : /\ Fresh(ModuleLoop(Len(record) + 1, S))
            /\ stack # <<>> /\ Top.t = "modules" => Fresh(ModuleLoop(Top.inst, S))
  /\ \A h, i : h \notin Counted /\ (h # "destroy" \/ DestroyNext)
                 /\ (h # "construct" \/ (Constructs /\ i = Len(record) + 1))
                 => Fresh(User(h, i))
  /\ \A h, S : h \notin Counted => Fresh(ForEach(h, S))
  /\ ~started /\ started' => \A S : Fresh(ForEach("start", S))
  /\ Fresh(Walk("initialize", Len(record) + 1, 0))
  /\ Fresh(StartIfStarted(Len(record) + 1))
BY DEF Fresh, Starting, MayCall, Descends, Counted, CountedUser, About, User, Walk, StartIfStarted,
       ProfileLoop, ModuleLoop, ForEach, DisposeAll, DisposeOne, DisposeModules, DestroyOne

LEMMA LoopFrames ==
  /\ \A S : /\ ProfileLoop(S).t # "user" /\ DisposeAll(S).t # "user"
            /\ DisposeModules(S).t # "user"
  /\ \A i : DestroyOne(i).t # "user" /\ StartIfStarted(i).t # "user"
  /\ \A i, S : ModuleLoop(i, S).t # "user"
  /\ \A h, i, n : Walk(h, i, n).t # "user" /\ RunHookModules(h, i, n).t # "user"
  /\ \A h, S : ForEach(h, S).t # "user"
BY DEF About, RunHookModules, Walk, StartIfStarted, ProfileLoop, ModuleLoop, ForEach,
       DisposeAll, DisposeModules, DestroyOne

(* A frame that moves on to the same hook of the same or a younger instance. *)
LEMMA FreshDescendants ==
  ASSUME stack # <<>>, NEW h \in Counted, MayCall(Top, h), Top.t # "user",
         Top.t = "startIfStarted" => started',
         NEW i, Top.t = "forEach" \/ i >= Top.inst
  PROVE  /\ Fresh(RunHook(h, i))
         /\ \A n : Fresh(Walk(h, i, n)) /\ Fresh(RunHookModules(h, i, n))
         /\ HookNext \/ HookModulesNext => Fresh(User(h, i))
         /\ \A S : Top.t = "forEach" => Fresh(ForEach(h, S))
BY DEF Fresh, Starting, MayCall, Descends, Counted, CountedUser, About, User, Walk, RunHook,
       RunHookModules, ForEach

(* The calls that application code makes. *)
LEMMA CallsRun ==
  ASSUME TypeInv, InitializeProfile \/ Start \/ Tick \/ Reset \/ Dispose
                  \/ (\E i \in records : Unregister(i)) \/ Wait \/ UNCHANGED vars
  PROVE  Runs
<1>1. \/ stack' = stack
      \/ \E f : Fresh(f) /\ f.t # "user" /\ stack' = <<f>> \o stack
  <2>1. CASE InitializeProfile
    BY <2>1, FreshFrames, LoopFrames DEF InitializeProfile
  <2>2. CASE Start \/ Tick \/ Reset
    <3>1. "update" \notin Counted /\ "reset" \notin Counted
      BY DEF Counted
    <3>2. CASE Start
      BY <2>2, <3>2, FreshFrames, LoopFrames DEF Start
    <3>3. CASE Tick \/ Reset
      BY <3>1, <3>3, FreshFrames, LoopFrames DEF Tick, Reset
    <3>4. QED BY <2>2, <3>2, <3>3
  <2>3. CASE Dispose
    BY <2>3, FreshFrames, LoopFrames DEF Dispose
  <2>4. CASE \E i \in records : Unregister(i)
    <3>1. \A i : DisposeOne(i).t # "user"
      BY DEF DisposeOne, About
    <3>2. QED BY <2>4, <3>1, FreshFrames DEF Unregister
  <2>5. CASE Wait \/ UNCHANGED vars
    BY <2>5 DEF Wait, ResolveAsync, ResolveTimeout, WaitUntilInitialized,
                InitializationTimeout, vars
  <2>6. QED BY <2>1, <2>2, <2>3, <2>4, <2>5
<1>2. \E f : Fresh(f) /\ f.t # "user"
  BY FreshFrames, LoopFrames
<1>3. Arises(Len(stack))
  BY <1>1, <1>2, ArisesPush
<1>4. stack' = stack \/ stack = <<>> \/ Top.t = "user"
  BY DEF InitializeProfile, Start, Tick, Reset, Dispose, Unregister, Calls, At, Wait,
         ResolveAsync, ResolveTimeout, WaitUntilInitialized, InitializationTimeout, vars
<1>5. QED BY <1>3, <1>4 DEF Runs

(* The loops of the manager. *)
LEMMA LoopsRun ==
  ASSUME TypeInv, OwnModules,
         \/ ProfileDone \/ ModulesDone \/ WalkNext \/ StartIfStartedNext \/ HookNext
         \/ HookModulesNext \/ ForEachNext \/ DisposeAllNext \/ DisposeNext
         \/ DisposeModulesNext \/ DestroyNext
  PROVE  Runs
<1> DEFINE i == Top.inst
           h == Top.hook
<1>1. /\ stack # <<>> /\ Top.t # "user" /\ Len(Rest) = Len(stack) - 1
      /\ Top.t \in {"walk", "startIfStarted", "hook", "hookModules"} => i \in Created /\ i \in Inst
      /\ Top.t \in {"walk", "hook", "hookModules"} => h \in Counted
      /\ Top.t = "forEach" => h \in Looped
      /\ Top.n \in Nat /\ (Top.t = "hookModules" => Top.n # 0)
      /\ Top.t \in {"walk", "hook", "hookModules", "forEach"} => MayCall(Top, h)
      /\ Top.t = "startIfStarted" => MayCall(Top, "start")
      /\ Top.t = "startIfStarted" => StartIfStartedNext
  BY TopFields, LevelPop
  DEF ProfileDone, ModulesDone, WalkNext, StartIfStartedNext, HookNext, HookModulesNext,
      ForEachNext, DisposeAllNext, DisposeNext, DisposeModulesNext, DestroyNext, At, Counted,
      MayCall
<1>2. \A j \in OwnOf(i) : i \in Inst => j >= i
  <2> SUFFICES ASSUME NEW j \in OwnOf(i) PROVE i \in Inst => j >= i
    OBVIOUS
  <2>1. j \in Created /\ record[j].parent = i /\ record[j].parent < j
    BY DEF OwnOf, OwnModules
  <2>2. QED BY <2>1 DEF Created, Inst
<1>3. \/ stack' = Rest
      \/ \E f : Fresh(f) /\ stack' = <<f>> \o Rest
      \/ \E f, g : /\ Fresh(f) /\ Fresh(g) /\ g.t # "user"
                   /\ stack' \in {<<f, g>> \o Rest, <<f>> \o (<<g>> \o Rest)}
  <2>1. CASE ProfileDone \/ ModulesDone
    BY <2>1 DEF ProfileDone, ModulesDone
  <2>2. CASE WalkNext
    <3>1. h \in Counted /\ MayCall(Top, h) /\ i \in Inst /\ Top.t # "startIfStarted"
      BY <1>1, <2>2 DEF WalkNext, At
    <3>2. \A j : j = i \/ j \in modules[i] => j >= i
      <4>1. modules[i] \subseteq OwnOf(i)
        BY <3>1 DEF OwnModules
      <4>2. i >= i
        BY <3>1 DEF Inst
      <4>3. QED BY <1>2, <3>1, <4>1, <4>2
    <3>3. \A j : j = i \/ j \in modules[i] => Fresh(RunHook(h, j))
      BY <1>1, <3>1, <3>2, FreshDescendants
    <3>4. \A n : Fresh(Walk(h, i, n)) /\ Walk(h, i, n).t # "user"
      BY <1>1, <3>1, <3>2, FreshDescendants, LoopFrames
    <3>5. \/ stack' = Rest
          \/ \E j, n : /\ j = i \/ j \in modules[i]
                       /\ stack' = <<RunHook(h, j), Walk(h, i, n)>> \o Rest
      BY <2>2 DEF WalkNext
    <3>6. QED BY <3>3, <3>4, <3>5
  <2>3. CASE StartIfStartedNext
    <3>1. MayCall(Top, "start") /\ "start" \in Counted /\ i >= i
      BY <1>1, <2>3 DEF StartIfStartedNext, At, Counted, Inst
    <3>2. CASE started
      <4>1. started'
        BY <2>3, <3>2 DEF StartIfStartedNext, managerVars
      <4>2. Fresh(Walk("start", i, 0))
        BY <1>1, <3>1, <4>1, FreshDescendants
      <4>3. QED BY <2>3, <3>2, <4>2 DEF StartIfStartedNext
    <3>3. CASE ~started
      BY <2>3, <3>3 DEF StartIfStartedNext
    <3>4. QED BY <3>2, <3>3
  <2>4. CASE HookNext
    <3>1. h \in Counted /\ MayCall(Top, h) /\ i >= i /\ Top.t # "startIfStarted"
      BY <1>1, <2>4 DEF HookNext, At, Inst
    <3>2. Fresh(User(h, i)) /\ Fresh(RunHookModules(h, i, 1))
      BY <1>1, <2>4, <3>1, FreshDescendants
    <3>3. QED BY <2>4, <3>2, LoopFrames DEF HookNext
  <2>5. CASE HookModulesNext
    <3>1. h \in Counted /\ MayCall(Top, h) /\ i >= i /\ i \in Inst /\ Top.t # "startIfStarted"
      BY <1>1, <2>5 DEF HookModulesNext, At, Inst
    <3>2. Fresh(RunHookModules(h, i, Top.n + 1)) /\ RunHookModules(h, i, Top.n + 1).t # "user"
      BY <1>1, <3>1, FreshDescendants, LoopFrames
    <3>3. Top.n <= Len(serviceModules[i]) => Fresh(User(h, serviceModules[i][Top.n]))
      <4> SUFFICES ASSUME Top.n <= Len(serviceModules[i])
                   PROVE  Fresh(User(h, serviceModules[i][Top.n]))
        OBVIOUS
      <4>1. serviceModules[i] \in Seq(OwnOf(i))
        BY <3>1 DEF OwnModules
      <4>2. Top.n \in 1 .. Len(serviceModules[i])
        BY <1>1, <2>5, <4>1 DEF HookModulesNext, At
      <4>3. serviceModules[i][Top.n] \in OwnOf(i)
        BY <4>1, <4>2, ElementOfSeq
      <4>4. serviceModules[i][Top.n] >= i
        BY <1>2, <3>1, <4>3
      <4>5. QED BY <1>1, <2>5, <3>1, <4>4, FreshDescendants
    <3>4. \/ stack' = Rest
          \/ stack' = <<RunHookModules(h, i, Top.n + 1)>> \o Rest
          \/ /\ Top.n <= Len(serviceModules[i])
             /\ stack' = <<User(h, serviceModules[i][Top.n])>>
                           \o (<<RunHookModules(h, i, Top.n + 1)>> \o Rest)
      BY <2>5 DEF HookModulesNext
    <3>5. QED BY <3>2, <3>3, <3>4
  <2>6. CASE ForEachNext
    <3>1. h \in Looped /\ MayCall(Top, h) /\ Top.t = "forEach" /\ Top.t # "startIfStarted"
      BY <1>1, <2>6 DEF ForEachNext, At
    <3>2. \A j : h = "start" => Fresh(RunHook("start", j))
      BY <1>1, <3>1, FreshDescendants DEF Counted
    <3>3. \A j : h # "start" => Fresh(User(h, j))
      BY <3>1, FreshFrames DEF Counted, Looped
    <3>4. \A S : Fresh(ForEach(h, S))
      <4>1. CASE h = "start"
        BY <1>1, <3>1, <4>1, FreshDescendants DEF Counted
      <4>2. CASE h # "start"
        <5>1. h \notin Counted
          BY <3>1, <4>2 DEF Counted, Looped
        <5>2. QED BY <5>1, FreshFrames
      <4>3. QED BY <4>1, <4>2
    <3>5. \/ stack' = Rest
          \/ \E j, S : stack' = <<IF h = "start" THEN RunHook("start", j) ELSE User(h, j),
                                  ForEach(h, S)>> \o Rest
      BY <2>6 DEF ForEachNext
    <3>6. QED BY <3>2, <3>3, <3>4, <3>5, LoopFrames
  <2>7. CASE DisposeAllNext \/ DisposeModulesNext
    BY <2>7, FreshFrames, LoopFrames DEF DisposeAllNext, DisposeModulesNext
  <2>8. CASE DisposeNext
    BY <2>8, FreshFrames, LoopFrames DEF DisposeNext
  <2>9. CASE DestroyNext
    <3>1. "destroy" \notin Counted
      BY DEF Counted
    <3>2. QED BY <2>9, <3>1, FreshFrames DEF DestroyNext
  <2>10. QED BY <2>1, <2>2, <2>3, <2>4, <2>5, <2>6, <2>7, <2>8, <2>9
<1>4. \E g : Fresh(g) /\ g.t # "user"
  BY FreshFrames, LoopFrames
<1>5. Arises(Len(Rest))
  BY <1>1, <1>3, <1>4, ArisesPush
<1>6. QED BY <1>1, <1>5 DEF Runs

(* Loops that wait under a constructor. *)
WaitingLoops(q) == \A k \in 1 .. Len(q) : Fresh(q[k]) /\ q[k].t # "user"

LEMMA WaitingOne ==
  ASSUME NEW S, NEW f \in S, Fresh(f), f.t # "user"
  PROVE  <<f>> \in Seq(S) /\ WaitingLoops(<<f>>)
<1> DEFINE one == <<f>>
<1>1. one \in Seq(S) /\ Len(one) = 1 /\ one[1] = f
  OBVIOUS
<1> HIDE DEF one
<1>2. \A k \in 1 .. Len(one) : k = 1
  BY <1>1
<1>3. WaitingLoops(one)
  BY <1>1, <1>2 DEF WaitingLoops
<1>4. QED BY <1>1, <1>3 DEF one

LEMMA WaitingConcat ==
  ASSUME NEW S, NEW q \in Seq(S), NEW r \in Seq(S), WaitingLoops(q), WaitingLoops(r)
  PROVE  q \o r \in Seq(S) /\ WaitingLoops(q \o r)
<1>1. /\ q \o r \in Seq(S) /\ Len(q \o r) = Len(q) + Len(r)
      /\ Len(q) \in Nat /\ Len(r) \in Nat
      /\ \A k \in 1 .. Len(q) + Len(r) :
           (q \o r)[k] = IF k <= Len(q) THEN q[k] ELSE r[k - Len(q)]
  BY ConcatProperties, LenProperties
<1>2. ASSUME NEW k \in 1 .. Len(q \o r)
      PROVE  Fresh((q \o r)[k]) /\ (q \o r)[k].t # "user"
  <2>1. CASE k <= Len(q)
    <3>1. k \in 1 .. Len(q) /\ (q \o r)[k] = q[k]
      BY <1>1, <2>1
    <3>2. QED BY <3>1 DEF WaitingLoops
  <2>2. CASE ~(k <= Len(q))
    <3>1. k - Len(q) \in 1 .. Len(r) /\ (q \o r)[k] = r[k - Len(q)]
      BY <1>1, <2>2
    <3>2. QED BY <3>1 DEF WaitingLoops
  <2>3. QED BY <2>1, <2>2
<1>3. QED BY <1>1, <1>2 DEF WaitingLoops

(* The constructor runs on top of the loops that wait for it. *)
LEMMA ConstructArises ==
  ASSUME TypeInv, Constructs, NEW base, base = stack \/ (stack # <<>> /\ base = Rest),
         NEW T, NEW q \in Seq(T), WaitingLoops(q), NEW s, NEW p, Construct(s, p, q \o base)
  PROVE  Arises(Len(base))
<1> DEFINE f == User("construct", Len(record) + 1)
           S == T \cup Frame \cup {f}
           one == <<f>>
<1>1. Fresh(f)
  <2>1. "construct" \notin Counted
    BY DEF Counted
  <2>2. QED BY <2>1, FreshFrames
<1>2. stack' = one \o (q \o base)
  BY DEF Construct
<1>3. base \in Seq(Frame)
  BY RestFrames DEF TypeInv, TypeOK
<1>4. base \in Seq(S) /\ q \in Seq(S) /\ f \in S
  BY <1>3, SequencesGrow
<1> HIDE DEF S
<1>5. one \in Seq(S) /\ Len(one) = 1 /\ one[1] = f
  BY <1>4
<1> HIDE DEF f, one
<1>6. stack' = (one \o q) \o base
  <2>1. one \o (q \o base) = (one \o q) \o base
    BY <1>4, <1>5, ConcatAssociative
  <2>2. QED BY <1>2, <2>1
<1> DEFINE all == one \o q
<1>7. /\ all \in Seq(S) /\ Len(q) \in Nat /\ Len(all) = 1 + Len(q)
      /\ \A k \in 1 .. 1 + Len(q) : all[k] = IF k <= 1 THEN one[k] ELSE q[k - 1]
  <2>1. /\ all \in Seq(S) /\ Len(q) \in Nat /\ Len(all) = Len(one) + Len(q)
        /\ \A k \in 1 .. Len(one) + Len(q) :
             all[k] = IF k <= Len(one) THEN one[k] ELSE q[k - Len(one)]
    BY <1>4, <1>5, ConcatProperties, LenProperties
  <2>2. QED BY <1>5, <2>1
<1> HIDE DEF all
<1>8. \A k \in 1 .. Len(all) : Fresh(all[k]) /\ (k > 1 => all[k].t # "user")
  <2> SUFFICES ASSUME NEW k \in 1 .. Len(all)
               PROVE  Fresh(all[k]) /\ (k > 1 => all[k].t # "user")
    OBVIOUS
  <2>1. CASE k = 1
    BY <1>1, <1>5, <1>7, <2>1
  <2>2. CASE k # 1
    <3>1. k - 1 \in 1 .. Len(q) /\ all[k] = q[k - 1]
      BY <1>7, <2>2
    <3>2. QED BY <3>1 DEF WaitingLoops
  <2>3. QED BY <2>1, <2>2
<1>9. QED BY <1>6, <1>7, <1>8, ArisesConcat DEF all

(* Activation: a constructor is entered, a registration is skipped, or the *)
(* check of createRecord throws.                                           *)
LEMMA ConstructsRun ==
  ASSUME TypeInv, Constructs
  PROVE  Runs \/ Breaks
<1> DEFINE L == Len(record)
<1>1. L \in Nat
  BY DEF TypeInv, TypeOK
<1>2. ASSUME NEW s
      PROVE  \E T : ThenInitialize(s) \in Seq(T) /\ WaitingLoops(ThenInitialize(s))
  <2> DEFINE f == ModuleLoop(L + 1, ModulesOf[s])
             g == Walk("initialize", L + 1, 0)
             two == <<f, g>>
  <2>1. Fresh(f) /\ f.t # "user" /\ Fresh(g) /\ g.t # "user"
    BY FreshFrames, LoopFrames
  <2> HIDE DEF f, g
  <2>2. two \in Seq({f, g}) /\ Len(two) = 2 /\ two[1] = f /\ two[2] = g
    OBVIOUS
  <2> HIDE DEF two
  <2>3. \A k \in 1 .. Len(two) : k = 1 \/ k = 2
    BY <2>2
  <2>4. WaitingLoops(two)
    BY <2>1, <2>2, <2>3 DEF WaitingLoops
  <2>5. ThenInitialize(s) = two
    BY DEF ThenInitialize, two, f, g
  <2>6. QED BY <2>2, <2>4, <2>5
<1>3. ASSUME NEW s, NEW f, Fresh(f), f.t # "user"
      PROVE  \E T : /\ ThenInitialize(s) \in Seq(T) /\ <<f>> \in Seq(T)
                    /\ ThenInitialize(s) \o <<f>> \in Seq(T)
                    /\ WaitingLoops(ThenInitialize(s) \o <<f>>)
  <2>1. PICK T : ThenInitialize(s) \in Seq(T) /\ WaitingLoops(ThenInitialize(s))
    BY <1>2
  <2> DEFINE S == T \cup {f}
  <2>2. f \in S /\ ThenInitialize(s) \in Seq(S)
    BY <2>1, SequencesGrow
  <2> HIDE DEF S
  <2>3. <<f>> \in Seq(S) /\ WaitingLoops(<<f>>)
    BY <1>3, <2>2, WaitingOne
  <2>4. QED BY <2>1, <2>2, <2>3, WaitingConcat
<1>4. ASSUME NEW s, NEW f, Fresh(f), f.t # "user",
             NEW base, base = stack \/ (stack # <<>> /\ base = Rest),
             Construct(s, 0, ThenInitialize(s) \o (<<f>> \o base))
      PROVE  Arises(Len(base))
  <2>1. PICK T : /\ ThenInitialize(s) \in Seq(T) /\ <<f>> \in Seq(T)
                 /\ ThenInitialize(s) \o <<f>> \in Seq(T)
                 /\ WaitingLoops(ThenInitialize(s) \o <<f>>)
    BY <1>3, <1>4
  <2> DEFINE q == ThenInitialize(s) \o <<f>>
             S == T \cup Frame
  <2>2. base \in Seq(Frame)
    BY <1>4, RestFrames DEF TypeInv, TypeOK
  <2>3. ThenInitialize(s) \in Seq(S) /\ <<f>> \in Seq(S) /\ base \in Seq(S)
    BY <2>1, <2>2, SequencesGrow
  <2> HIDE DEF S
  <2>4. ThenInitialize(s) \o (<<f>> \o base) = q \o base
    BY <2>3, ConcatAssociative
  <2>5. Construct(s, 0, q \o base)
    BY <1>4, <2>4
  <2>6. q \in Seq(T) /\ WaitingLoops(q)
    BY <2>1
  <2> HIDE DEF q
  <2>7. QED BY <1>4, <2>5, <2>6, ConstructArises
<1>5. CASE ProfileNext
  <2>1. stack # <<>> /\ Len(Rest) = Len(stack) - 1 /\ Top.t # "user"
    BY <1>5, LevelPop DEF ProfileNext, At
  <2>2. PICK s, S :
          \/ Construct(s, 0, ThenInitialize(s) \o (<<ProfileLoop(S)>> \o Rest))
          \/ stack' = <<ProfileLoop(S)>> \o Rest
          \/ Throw
    BY <1>5 DEF ProfileNext
  <2>3. Fresh(ProfileLoop(S)) /\ ProfileLoop(S).t # "user"
    BY <1>5, FreshFrames, LoopFrames
  <2>4. Throw \/ Arises(Len(Rest))
    BY <1>4, <2>1, <2>2, <2>3, ArisesPush
  <2>5. QED BY <2>1, <2>4 DEF Runs, Breaks
<1>6. CASE ModulesNext
  <2>1. stack # <<>> /\ Len(Rest) = Len(stack) - 1 /\ Top.t # "user" /\ Top.t = "modules"
    BY <1>6, LevelPop DEF ModulesNext, At
  <2>2. PICK s, S :
          \/ Construct(s, Top.inst, <<ModuleLoop(Top.inst, S)>> \o Rest)
          \/ stack' = <<ModuleLoop(Top.inst, S)>> \o Rest
          \/ Throw
    BY <1>6 DEF ModulesNext
  <2> DEFINE f == ModuleLoop(Top.inst, S)
             one == <<f>>
  <2>3. Fresh(f) /\ f.t # "user"
    BY <2>1, FreshFrames, LoopFrames
  <2> HIDE DEF f
  <2>4. one \in Seq({f}) /\ WaitingLoops(one)
    BY <2>3, WaitingOne
  <2> HIDE DEF one
  <2>5. CASE Construct(s, Top.inst, one \o Rest)
    <3>1. Arises(Len(Rest))
      BY <2>1, <2>4, <2>5, ConstructArises
    <3>2. QED BY <2>1, <3>1 DEF Runs
  <2>6. CASE stack' = <<f>> \o Rest
    <3>1. Arises(Len(Rest))
      BY <2>1, <2>3, <2>6, ArisesPush
    <3>2. QED BY <2>1, <3>1 DEF Runs
  <2>7. QED BY <2>1, <2>2, <2>5, <2>6 DEF f, one, Breaks
<1>7. CASE \E s \in Service : Register(s)
  <2>1. PICK s :
          Construct(s, 0, ThenInitialize(s) \o <<StartIfStarted(L + 1)>> \o stack)
    BY <1>7 DEF Register
  <2> DEFINE f == StartIfStarted(L + 1)
  <2>2. Fresh(f) /\ f.t # "user"
    BY FreshFrames, LoopFrames
  <2>3. PICK T : /\ ThenInitialize(s) \o <<f>> \in Seq(T)
                 /\ WaitingLoops(ThenInitialize(s) \o <<f>>)
    BY <1>3, <2>2
  <2>4. Arises(Len(stack))
    BY <2>1, <2>3, ConstructArises
  <2>5. stack = <<>> \/ Top.t = "user"
    BY <1>7 DEF Register, Calls, At
  <2>6. QED BY <2>4, <2>5 DEF Runs
<1>8. QED BY <1>5, <1>6, <1>7 DEF Constructs

(* Every step throws, or calls, goes on and returns with fresh frames. *)
LEMMA StepRuns ==
  ASSUME TypeInv, OwnModules, [Next]_vars
  PROVE  Runs \/ Breaks
<1>1. CASE Call \/ Wait \/ UNCHANGED vars
  BY <1>1, CallsRun, ConstructsRun DEF Call, Constructs
<1>2. CASE UserReturns
  <2>1. stack # <<>> /\ stack' = Rest
    BY <1>2 DEF UserReturns, ConstructReturns, InitializeReturns, StartReturns,
                CallbackReturns, DestroyReturns, Returns, At
  <2>2. \E f : Fresh(f) /\ f.t # "user"
    BY FreshFrames, LoopFrames
  <2>3. Arises(Len(Rest)) /\ Len(Rest) = Len(stack) - 1
    BY <2>1, <2>2, ArisesPush, LevelPop
  <2>4. QED BY <1>2, <2>1, <2>3 DEF Runs
<1>3. CASE UserThrows
  BY <1>3 DEF UserThrows, At, Breaks
<1>4. CASE Advance /\ ~UserReturns /\ ~UserThrows
  BY <1>4, LoopsRun, ConstructsRun DEF Advance, UserReturns, Constructs
<1>5. QED BY <1>1, <1>2, <1>3, <1>4 DEF Next

=============================================================================
