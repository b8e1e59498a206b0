--------------------------- MODULE SchedulerProofs ---------------------------
(***************************************************************************)
(* Theorems about Scheduler, for any number of handlers, any nesting of    *)
(* emissions and any choice of handlers that throw.                        *)
(***************************************************************************)
EXTENDS Scheduler, SequenceTheorems, TLAPS

USE SchedulerAssumption

(* Where the rest of start(), and of a frame, wait on the stack. *)
Arms == {k \in 1 .. Len(stack) : stack[k].t = "arm"}
Requeues == {k \in 1 .. Len(stack) : stack[k].t = "requeue"}

-----------------------------------------------------------------------------
(* Sequences *)

LEMMA ChannelsExist == {"startup", "renderTick", "dispose"} \cup Timed \subseteq Channel
BY DEF Timed

(* Taking out one entry. *)
LEMMA DroppingType ==
  ASSUME NEW S, NEW s \in Seq(S), NEW x
  PROVE  Dropping(s, x) \in Seq(S)
<1>1. CASE ~Holds(s, x)
  BY <1>1 DEF Dropping
<1>2. CASE Holds(s, x)
  <2> DEFINE k == CHOOSE j \in 1 .. Len(s) : s[j] = x
  <2>1. k \in 1 .. Len(s)
    BY <1>2 DEF Holds
  <2> HIDE DEF k
  <2>2. SubSeq(s, 1, k - 1) \in Seq(S) /\ SubSeq(s, k + 1, Len(s)) \in Seq(S)
    <3>1. \A i \in 1 .. (k - 1) : s[i] \in S
      BY <2>1
    <3>2. \A i \in (k + 1) .. Len(s) : s[i] \in S
      BY <2>1
    <3>3. QED BY <2>1, <3>1, <3>2, SubSeqProperties, LenProperties
  <2>3. SubSeq(s, 1, k - 1) \o SubSeq(s, k + 1, Len(s)) \in Seq(S)
    BY <2>2, ConcatProperties
  <2>4. Dropping(s, x) = SubSeq(s, 1, k - 1) \o SubSeq(s, k + 1, Len(s))
    BY <1>2 DEF Dropping, RemoveAt, k
  <2>5. QED BY <2>3, <2>4
<1>3. QED BY <1>1, <1>2

(* Of at most one entry, nothing is left. *)
LEMMA DroppingLast ==
  ASSUME NEW S, NEW s \in Seq(S), NEW x, Len(s) <= 1, s # <<>> => s[1] = x
  PROVE  Dropping(s, x) = <<>>
<1>1. CASE s = <<>>
  BY <1>1 DEF Dropping, Holds
<1>2. CASE s # <<>>
  <2>1. Len(s) = 1 /\ s[1] = x
    <3>1. Len(s) \in Nat \ {0}
      BY <1>2, EmptySeq
    <3>2. Len(s) = 1
      <4> DEFINE n == Len(s)
      <4>1. n \in Nat \ {0} /\ n <= 1
        BY <3>1
      <4> HIDE DEF n
      <4>2. n = 1
        BY <4>1
      <4>3. QED BY <4>2 DEF n
    <3>3. s[1] = x
      BY <1>2
    <3>4. QED BY <3>2, <3>3
  <2>2. Holds(s, x) /\ (CHOOSE k \in 1 .. Len(s) : s[k] = x) = 1
    BY <2>1 DEF Holds
  <2>3. Dropping(s, x) = SubSeq(s, 1, 0) \o SubSeq(s, 2, 1)
    BY <2>1, <2>2 DEF Dropping, RemoveAt
  <2>4. SubSeq(s, 1, 0) = <<>> /\ SubSeq(s, 2, 1) = <<>>
    BY SubSeqProperties, EmptySeq
  <2>5. QED BY <2>3, <2>4
<1>3. QED BY <1>1, <1>2

LEMMA AppendTwice ==
  ASSUME NEW S, NEW s \in Seq(S), NEW a \in S, NEW b \in S
  PROVE  LET t == Append(Append(s, a), b)
         IN /\ t \in Seq(S) /\ Len(t) = Len(s) + 2
            /\ \A k \in 1 .. Len(s) : t[k] = s[k]
            /\ t[Len(s) + 1] = a /\ t[Len(s) + 2] = b
<1> DEFINE u == Append(s, a)
<1>1. /\ u \in Seq(S) /\ Len(u) = Len(s) + 1 /\ Len(s) \in Nat
      /\ \A k \in 1 .. Len(s) : u[k] = s[k]
      /\ u[Len(s) + 1] = a
  OBVIOUS
<1> HIDE DEF u
<1> DEFINE t == Append(u, b)
<1>2. /\ t \in Seq(S) /\ Len(t) = Len(u) + 1
      /\ \A k \in 1 .. Len(u) : t[k] = u[k]
      /\ t[Len(u) + 1] = b
  BY <1>1
<1> HIDE DEF t
<1>3. /\ t \in Seq(S) /\ Len(t) = Len(s) + 2
      /\ \A k \in 1 .. Len(s) : t[k] = s[k]
      /\ t[Len(s) + 1] = a /\ t[Len(s) + 2] = b
  BY <1>1, <1>2
<1>4. QED BY <1>3 DEF t, u

-----------------------------------------------------------------------------
(* What actions do to the stack *)

LEMMA ListType ==
  ASSUME TypeOK, NEW ch \in Channel
  PROVE  ListOf(ch) \in Seq(Handler)
BY DEF TypeOK, ListOf

LEMMA BeginOnly ==
  ASSUME TypeOK, NEW ch \in Channel, BeginEmit(ch, <<>>)
  PROVE  /\ handlerLists' \in [Channel -> Seq(Handler) \cup {None}]
         /\ stack' \in Seq(Entry)
         /\ Arms' = Arms /\ Requeues' = Requeues
<1> DEFINE e == Emission(ch, ListOf(ch))
<1>1. e \in Entry /\ e.t = "emit"
  BY ListType DEF Emission, Entry
<1>2. stack' = Append(stack, e)
  BY <1>1 DEF TypeOK, BeginEmit
<1> HIDE DEF e
<1>3. /\ stack' \in Seq(Entry) /\ Len(stack') = Len(stack) + 1
      /\ \A k \in 1 .. Len(stack) : stack'[k] = stack[k]
      /\ stack'[Len(stack) + 1] = e
  BY <1>1, <1>2 DEF TypeOK
<1>4. handlerLists' \in [Channel -> Seq(Handler) \cup {None}]
  BY ListType DEF TypeOK, BeginEmit
<1>5. QED BY <1>1, <1>3, <1>4 DEF TypeOK, Arms, Requeues

LEMMA BeginWithRest ==
  ASSUME TypeOK, NEW ch \in Channel, NEW kind \in {"arm", "requeue", "clear"},
         NEW c \in Channel, BeginEmit(ch, <<Remainder(kind, c)>>)
  PROVE  /\ handlerLists' \in [Channel -> Seq(Handler) \cup {None}]
         /\ stack' \in Seq(Entry)
         /\ Arms' = Arms \cup (IF kind = "arm" THEN {Len(stack) + 1} ELSE {})
         /\ Requeues' = Requeues \cup (IF kind = "requeue" THEN {Len(stack) + 1} ELSE {})
<1> DEFINE e == Emission(ch, ListOf(ch))
           r == Remainder(kind, c)
<1>1. e \in Entry /\ e.t = "emit" /\ r \in Entry /\ r.t = kind
  BY ListType DEF Emission, Remainder, Entry
<1>2. stack' = Append(Append(stack, r), e)
  BY <1>1 DEF TypeOK, BeginEmit
<1> HIDE DEF e, r
<1>3. /\ stack' \in Seq(Entry) /\ Len(stack') = Len(stack) + 2
      /\ \A k \in 1 .. Len(stack) : stack'[k] = stack[k]
      /\ stack'[Len(stack) + 1] = r
      /\ stack'[Len(stack) + 2] = e
  BY <1>1, <1>2, AppendTwice DEF TypeOK
<1>4. handlerLists' \in [Channel -> Seq(Handler) \cup {None}]
  BY ListType DEF TypeOK, BeginEmit
<1>5. Len(stack) \in Nat
  BY DEF TypeOK
<1>6. Arms' = Arms \cup (IF kind = "arm" THEN {Len(stack) + 1} ELSE {})
  BY <1>1, <1>3, <1>5 DEF Arms
<1>7. Requeues' = Requeues \cup (IF kind = "requeue" THEN {Len(stack) + 1} ELSE {})
  BY <1>1, <1>3, <1>5 DEF Requeues
<1>8. QED BY <1>3, <1>4, <1>6, <1>7

LEMMA FrontOf ==
  ASSUME NEW S, NEW s \in Seq(S), s # <<>>
  PROVE  LET front == SubSeq(s, 1, Len(s) - 1)
         IN /\ front \in Seq(S) /\ Len(front) = Len(s) - 1
            /\ \A k \in 1 .. Len(s) - 1 : front[k] = s[k]
<1> DEFINE n == Len(s) - 1
           front == SubSeq(s, 1, n)
<1>1. n \in Nat
  BY EmptySeq
<1>2. \A i \in 1 .. n : s[i] \in S
  BY <1>1
<1> HIDE DEF n
<1>3. /\ front \in Seq(S)
      /\ Len(front) = IF 1 <= n THEN n - 1 + 1 ELSE 0
      /\ \A i \in 1 .. n - 1 + 1 : front[i] = s[1 + i - 1]
  BY <1>1, <1>2, SubSeqProperties
<1> HIDE DEF front
<1>4. Len(front) = n /\ \A i \in 1 .. n : front[i] = s[i]
  BY <1>1, <1>3
<1>5. QED BY <1>3, <1>4 DEF front, n

(* Returning to what is below. *)
LEMMA BelowStack ==
  ASSUME TypeOK, stack # <<>>, stack' = Below
  PROVE  /\ stack' \in Seq(Entry)
         /\ Arms' = Arms \ {Len(stack)} /\ Requeues' = Requeues \ {Len(stack)}
<1>1. stack' \in Seq(Entry) /\ Len(stack') = Len(stack) - 1
  BY FrontOf DEF TypeOK, Below, Depth
<1>2. \A k \in 1 .. Len(stack) - 1 : stack'[k] = stack[k]
  BY FrontOf DEF TypeOK, Below, Depth
<1>3. Len(stack) \in Nat \ {0}
  BY EmptySeq DEF TypeOK
<1>4. 1 .. Len(stack') = (1 .. Len(stack)) \ {Len(stack)}
  BY <1>1, <1>3
<1>5. Arms' = Arms \ {Len(stack)}
  BY <1>1, <1>2, <1>3, <1>4 DEF Arms
<1>6. Requeues' = Requeues \ {Len(stack)}
  BY <1>1, <1>2, <1>3, <1>4 DEF Requeues
<1>7. QED BY <1>1, <1>5, <1>6

LEMMA EmitNextStack ==
  ASSUME TypeOK, EmitNext
  PROVE  stack' \in Seq(Entry) /\ Arms' = Arms /\ Requeues' = Requeues
<1>1. /\ stack # <<>> /\ Top \in Entry /\ Top.t = "emit"
      /\ Len(stack) \notin Arms /\ Len(stack) \notin Requeues
  BY DEF TypeOK, EmitNext, At, Top, Depth, Arms, Requeues
<1>2. CASE Top.list = <<>>
  <2>1. stack' = Below
    BY <1>2 DEF EmitNext
  <2>2. QED BY <2>1, <1>1, BelowStack
<1>3. CASE Top.list # <<>>
  <2> DEFINE e == Emission(Top.ch, Tail(Top.list))
             u == Call(Head(Top.list), Top.ch)
  <2>1. Top.list \in Seq(Handler) /\ Top.ch \in Channel
    BY <1>1 DEF Entry
  <2>2. Tail(Top.list) \in Seq(Handler) /\ Head(Top.list) \in Handler
    BY <2>1, <1>3
  <2>3. e \in Entry /\ e.t = "emit" /\ u \in Entry /\ u.t = "user"
    BY <2>1, <2>2 DEF Emission, Call, Entry
  <2>4. Below \in Seq(Entry) /\ Len(Below) = Len(stack) - 1
        /\ \A k \in 1 .. Len(stack) - 1 : Below[k] = stack[k]
    BY <1>1, FrontOf DEF TypeOK, Below, Depth
  <2>5. stack' = Append(Append(Below, e), u)
    BY <1>3, <2>3, <2>4 DEF EmitNext
  <2> HIDE DEF e, u
  <2>6. /\ stack' \in Seq(Entry) /\ Len(stack') = Len(stack) + 1
        /\ \A k \in 1 .. Len(stack) - 1 : stack'[k] = stack[k]
        /\ stack'[Len(stack)] = e /\ stack'[Len(stack) + 1] = u
    BY <2>3, <2>4, <2>5, <1>1, AppendTwice DEF TypeOK
  <2>7. Len(stack) \in Nat \ {0}
    BY <1>1 DEF TypeOK
  <2>8. Arms' = Arms
    BY <2>3, <2>6, <2>7, <1>1 DEF Arms
  <2>9. Requeues' = Requeues
    BY <2>3, <2>6, <2>7, <1>1 DEF Requeues
  <2>10. QED BY <2>6, <2>8, <2>9
<1>4. QED BY <1>2, <1>3

LEMMA ThrowStack ==
  ASSUME TypeOK, HandlerThrows
  PROVE  /\ stack' \in Seq(Entry)
         /\ Arms' \subseteq Arms /\ Requeues' \subseteq Requeues
<1>1. CASE stack' = <<>>
  BY <1>1 DEF Arms, Requeues
<1>2. ASSUME NEW k \in UserEntries, stack' = SubSeq(stack, 1, k)
      PROVE  stack' \in Seq(Entry) /\ Arms' \subseteq Arms /\ Requeues' \subseteq Requeues
  <2>1. k \in 1 .. Len(stack)
    BY DEF UserEntries, Depth
  <2>2. /\ stack' \in Seq(Entry) /\ Len(stack') = k
        /\ \A i \in 1 .. k : stack'[i] = stack[i]
    BY <2>1, <1>2 DEF TypeOK
  <2>3. QED BY <2>1, <2>2 DEF TypeOK, Arms, Requeues
<1>3. QED BY <1>1, <1>2 DEF HandlerThrows

-----------------------------------------------------------------------------
(* Types *)

LEMMA FramesType ==
  ASSUME TypeOK, RequestFrame
  PROVE  queued' \in Seq(Nat \ {0}) /\ renderHandle' \in Nat
<1>1. PICK f \in Handle : queued' = Append(queued, f) /\ renderHandle' = f
  BY DEF RequestFrame
<1>2. f \in Nat \ {0}
  BY DEF Handle
<1>3. QED BY <1>1, <1>2 DEF TypeOK

LEMMA HaltType ==
  ASSUME TypeOK, Halt
  PROVE  /\ running' = FALSE
         /\ intervals' \subseteq Nat \ {0} /\ handle' \in Nat
         /\ queued' \in Seq(Nat \ {0}) /\ due' \in Seq(Nat \ {0}) /\ renderHandle' \in Nat
<1>1. Dropping(queued, renderHandle) \in Seq(Nat \ {0}) /\ Dropping(due, renderHandle) \in Seq(Nat \ {0})
  BY DroppingType DEF TypeOK
<1>2. queued' \in Seq(Nat \ {0}) /\ due' \in Seq(Nat \ {0}) /\ renderHandle' \in Nat
  BY <1>1 DEF TypeOK, Halt
<1>3. QED BY <1>2 DEF TypeOK, Halt

(* Every operation keeps the types. *)
LEMMA TypeStep ==
  ASSUME TypeOK, [Next]_vars
  PROVE  TypeOK'
<1>1. ASSUME NEW h \in Handler, Subscribe(h)
      PROVE  TypeOK'
  <2>1. ChannelOf[h] \in Channel
    OBVIOUS
  <2>2. subscriptions' \in [Channel -> Seq(Handler)]
    BY <1>1, <2>1 DEF TypeOK, Subscribe
  <2>3. handlerLists' \in [Channel -> Seq(Handler) \cup {None}]
    BY <1>1 DEF TypeOK, Subscribe
  <2>4. QED BY <1>1, <2>2, <2>3 DEF TypeOK, Subscribe, timerVars, frameVars
<1>2. ASSUME NEW h \in Handler, Unsubscribe(h)
      PROVE  TypeOK'
  <2>1. Dropping(subscriptions[ChannelOf[h]], h) \in Seq(Handler)
    BY DroppingType DEF TypeOK
  <2>2. subscriptions' \in [Channel -> Seq(Handler)]
    BY <1>2, <2>1 DEF TypeOK, Unsubscribe
  <2>3. handlerLists' \in [Channel -> Seq(Handler) \cup {None}]
    BY <1>2 DEF TypeOK, Unsubscribe
  <2>4. QED BY <1>2, <2>2, <2>3 DEF TypeOK, Unsubscribe, timerVars, frameVars
<1>3. ASSUME NEW ch \in Channel, Emit(ch)
      PROVE  TypeOK'
  BY <1>3, BeginOnly DEF TypeOK, Emit, timerVars, frameVars
<1>4. CASE Start
  <2>1. BeginEmit("startup", <<Remainder("arm", "startup")>>) /\ "startup" \in Channel
    BY <1>4, ChannelsExist DEF Start
  <2>2. handlerLists' \in [Channel -> Seq(Handler) \cup {None}] /\ stack' \in Seq(Entry)
    BY <2>1, BeginWithRest
  <2>3. QED BY <1>4, <2>2 DEF TypeOK, Start, frameVars
<1>5. CASE Stop
  <2>1. Halt
    BY <1>5 DEF Stop
  <2>2. QED BY <1>5, <2>1, HaltType DEF TypeOK, Stop, channelVars
<1>6. CASE Dispose
  <2>1. BeginEmit("dispose", <<Remainder("clear", "dispose")>>) /\ "dispose" \in Channel /\ Halt
    BY <1>6, ChannelsExist DEF Dispose
  <2>2. handlerLists' \in [Channel -> Seq(Handler) \cup {None}] /\ stack' \in Seq(Entry)
    BY <2>1, BeginWithRest
  <2>3. QED BY <1>6, <2>1, <2>2, HaltType DEF TypeOK, Dispose
<1>7. CASE EmitNext
  <2>1. stack' \in Seq(Entry)
    BY <1>7, EmitNextStack
  <2>2. QED BY <1>7, <2>1 DEF TypeOK, EmitNext, channelVars, timerVars, frameVars
<1>8. CASE HandlerReturns
  <2>1. stack' \in Seq(Entry)
    BY <1>8, BelowStack DEF HandlerReturns, At
  <2>2. QED BY <1>8, <2>1 DEF TypeOK, HandlerReturns, channelVars, timerVars, frameVars
<1>9. CASE HandlerThrows
  <2>1. stack' \in Seq(Entry)
    BY <1>9, ThrowStack
  <2>2. QED BY <1>9, <2>1 DEF TypeOK, HandlerThrows, channelVars, timerVars, frameVars
<1>10. CASE Arm
  <2>1. stack' \in Seq(Entry)
    BY <1>10, BelowStack DEF Arm, At
  <2>2. intervals' \subseteq Nat \ {0} /\ handle' \in Nat
    BY <1>10 DEF TypeOK, Arm, Handle
  <2>3. queued' \in Seq(Nat \ {0}) /\ renderHandle' \in Nat
    BY <1>10, FramesType DEF TypeOK, Arm
  <2>4. QED BY <1>10, <2>1, <2>2, <2>3 DEF TypeOK, Arm, channelVars
<1>11. CASE Clear
  <2>1. stack' \in Seq(Entry)
    BY <1>11, BelowStack DEF Clear, At
  <2>2. subscriptions' \in [Channel -> Seq(Handler)]
        /\ handlerLists' \in [Channel -> Seq(Handler) \cup {None}]
    BY <1>11 DEF Clear
  <2>3. QED BY <1>11, <2>1, <2>2 DEF TypeOK, Clear, timerVars, frameVars
<1>12. CASE Requeue
  <2>1. stack' \in Seq(Entry)
    BY <1>12, BelowStack DEF Requeue, At
  <2>2. queued' \in Seq(Nat \ {0}) /\ renderHandle' \in Nat
    BY <1>12, FramesType DEF Requeue
  <2>3. QED BY <1>12, <2>1, <2>2 DEF TypeOK, Requeue, channelVars, timerVars
<1>13. CASE IntervalFires
  <2>1. PICK ch \in Timed : BeginEmit(ch, <<>>)
    BY <1>13 DEF IntervalFires
  <2>2. handlerLists' \in [Channel -> Seq(Handler) \cup {None}] /\ stack' \in Seq(Entry)
    BY <2>1, BeginOnly, ChannelsExist
  <2>3. QED BY <1>13, <2>2 DEF TypeOK, IntervalFires, timerVars, frameVars
<1>14. CASE FrameBegins
  BY <1>14 DEF TypeOK, FrameBegins, channelVars, timerVars
<1>15. CASE Step
  <2>1. due' \in Seq(Nat \ {0})
    BY <1>15 DEF TypeOK, Step
  <2>2. CASE running
    <3>1. BeginEmit("renderTick", <<Remainder("requeue", "renderTick")>>) /\ "renderTick" \in Channel
      BY <1>15, <2>2, ChannelsExist DEF Step
    <3>2. handlerLists' \in [Channel -> Seq(Handler) \cup {None}] /\ stack' \in Seq(Entry)
      BY <3>1, BeginWithRest
    <3>3. QED BY <1>15, <2>1, <2>2, <3>2 DEF TypeOK, Step, timerVars
  <2>3. CASE ~running
    BY <1>15, <2>1, <2>3 DEF TypeOK, Step, timerVars
  <2>4. QED BY <2>2, <2>3
<1>16. CASE UNCHANGED vars
  BY <1>16 DEF TypeOK, vars, channelVars, timerVars, frameVars
<1>17. QED
  BY <1>1, <1>2, <1>3, <1>4, <1>5, <1>6, <1>7, <1>8, <1>9, <1>10, <1>11, <1>12, <1>13, <1>14,
     <1>15, <1>16 DEF Next, Application, Advance, Engine

LEMMA TypeInit == Init => TypeOK
<1> SUFFICES ASSUME Init
             PROVE  TypeOK
  OBVIOUS
<1>1. subscriptions \in [Channel -> Seq(Handler)]
      /\ handlerLists \in [Channel -> Seq(Handler) \cup {None}]
  BY DEF Init
<1>2. queued \in Seq(Nat \ {0}) /\ due \in Seq(Nat \ {0}) /\ stack \in Seq(Entry)
  BY DEF Init
<1>3. QED BY <1>1, <1>2 DEF Init, TypeOK

(* Every variable keeps its type, whatever handlers do or throw. *)
THEOREM TypeCorrect == Spec => []TypeOK
<1>1. TypeOK /\ [Next]_vars => TypeOK'
  BY TypeStep
<1>2. QED BY TypeInit, <1>1, PTL DEF Spec

-----------------------------------------------------------------------------
(* The cached lists *)

LEMMA CacheBegins ==
  ASSUME TypeOK, CacheIsCurrent, NEW ch \in Channel, NEW rest, BeginEmit(ch, rest),
         UNCHANGED subscriptions
  PROVE  CacheIsCurrent'
<1>1. ListOf(ch) = subscriptions[ch]
  BY DEF CacheIsCurrent, ListOf
<1>2. handlerLists' = [handlerLists EXCEPT ![ch] = subscriptions[ch]]
  BY <1>1 DEF BeginEmit
<1>3. QED BY <1>2 DEF TypeOK, CacheIsCurrent

LEMMA CacheStep ==
  ASSUME TypeOK, CacheIsCurrent, [Next]_vars
  PROVE  CacheIsCurrent'
<1>1. ASSUME NEW h \in Handler, Subscribe(h)
      PROVE  CacheIsCurrent'
  BY <1>1 DEF TypeOK, CacheIsCurrent, Subscribe
<1>2. ASSUME NEW h \in Handler, Unsubscribe(h)
      PROVE  CacheIsCurrent'
  BY <1>2 DEF TypeOK, CacheIsCurrent, Unsubscribe
<1>3. ASSUME NEW ch \in Channel, Emit(ch)
      PROVE  CacheIsCurrent'
  BY <1>3, CacheBegins DEF Emit
<1>4. CASE Start \/ Dispose
  <2>1. PICK ch \in Channel, rest \in {<<Remainder("arm", "startup")>>, <<Remainder("clear", "dispose")>>} :
          BeginEmit(ch, rest) /\ UNCHANGED subscriptions
    BY <1>4, ChannelsExist DEF Start, Dispose
  <2>2. QED BY <2>1, CacheBegins
<1>5. CASE Step
  <2>1. CASE running
    <3>1. BeginEmit("renderTick", <<Remainder("requeue", "renderTick")>>) /\ UNCHANGED subscriptions
      BY <1>5, <2>1 DEF Step
    <3>2. QED BY <3>1, CacheBegins, ChannelsExist
  <2>2. CASE ~running
    BY <1>5, <2>2 DEF CacheIsCurrent, Step
  <2>3. QED BY <2>1, <2>2
<1>6. CASE IntervalFires
  <2>1. PICK ch \in Timed : BeginEmit(ch, <<>>)
    BY <1>6 DEF IntervalFires
  <2>2. UNCHANGED subscriptions
    BY <1>6 DEF IntervalFires
  <2>3. QED BY <2>1, <2>2, CacheBegins, ChannelsExist
<1>7. CASE Clear
  BY <1>7 DEF CacheIsCurrent, Clear
<1>8. CASE \/ Stop \/ EmitNext \/ HandlerReturns \/ HandlerThrows \/ Arm \/ Requeue
           \/ FrameBegins \/ UNCHANGED vars
  BY <1>8 DEF CacheIsCurrent, Stop, EmitNext, HandlerReturns, HandlerThrows, Arm, Requeue,
              FrameBegins, vars, channelVars
<1>9. QED
  BY <1>1, <1>2, <1>3, <1>4, <1>5, <1>6, <1>7, <1>8 DEF Next, Application, Advance, Engine

(* No cached handler list is ever stale. *)
THEOREM CacheIsNeverStale == Spec => []CacheIsCurrent
<1>1. Init => CacheIsCurrent
  BY DEF Init, CacheIsCurrent
<1>2. TypeOK /\ CacheIsCurrent /\ [Next]_vars => CacheIsCurrent'
  BY CacheStep
<1>3. QED BY TypeCorrect, <1>1, <1>2, PTL DEF Spec

-----------------------------------------------------------------------------
(* The intervals *)

(* While start() waits for its startup handlers there is no interval yet;  *)
(* otherwise there is at most the one stop() knows of.                     *)
SilentInv ==
  /\ \A j, k \in Arms : j = k
  /\ Arms # {} => running /\ intervals = {}
  /\ ~running => intervals = {}
  /\ intervals \subseteq {handle}

LEMMA SilentStep ==
  ASSUME ~StopsInStartup, TypeOK, SilentInv, [Next]_vars
  PROVE  SilentInv'
<1>1. ASSUME \/ \E h \in Handler : Subscribe(h) \/ Unsubscribe(h)
             \/ EmitNext \/ FrameBegins \/ UNCHANGED vars
      PROVE  SilentInv'
  <2>1. UNCHANGED <<running, intervals, handle>>
    BY <1>1 DEF Subscribe, Unsubscribe, EmitNext, FrameBegins, vars, timerVars
  <2>2. Arms' = Arms
    BY <1>1, EmitNextStack DEF Subscribe, Unsubscribe, FrameBegins, vars, Arms
  <2>3. QED BY <2>1, <2>2 DEF SilentInv
<1>2. ASSUME \E ch \in Channel : Emit(ch) \/ IntervalFires
      PROVE  SilentInv'
  <2>1. PICK ch \in Channel : BeginEmit(ch, <<>>)
    BY <1>2, ChannelsExist DEF Emit, IntervalFires
  <2>2. UNCHANGED <<running, intervals, handle>>
    BY <1>2 DEF Emit, IntervalFires, timerVars
  <2>3. Arms' = Arms
    BY <2>1, BeginOnly
  <2>4. QED BY <2>2, <2>3 DEF SilentInv
<1>3. CASE Start
  <2>1. BeginEmit("startup", <<Remainder("arm", "startup")>>) /\ "startup" \in Channel
    BY <1>3, ChannelsExist DEF Start
  <2>2. Arms' = Arms \cup {Len(stack) + 1}
    BY <2>1, BeginWithRest
  <2>3. Arms = {}
    BY <1>3 DEF SilentInv, Start
  <2>4. QED BY <1>3, <2>2, <2>3 DEF SilentInv, Start
<1>4. CASE Stop
  <2>1. Arms' = Arms /\ Arms = {} /\ Halt
    BY <1>4 DEF Stop, Stops, InProgress, Arms, Depth
  <2>2. QED BY <2>1 DEF SilentInv, Halt
<1>5. CASE Dispose
  <2>1. BeginEmit("dispose", <<Remainder("clear", "dispose")>>) /\ "dispose" \in Channel
    BY <1>5, ChannelsExist DEF Dispose
  <2>2. Arms' = Arms
    BY <2>1, BeginWithRest
  <2>3. Arms = {} /\ Halt
    BY <1>5 DEF Dispose, Stops, InProgress, Arms, Depth
  <2>4. QED BY <2>2, <2>3 DEF SilentInv, Halt
<1>6. CASE HandlerReturns \/ Clear \/ Requeue
  <2>1. Arms' \subseteq Arms
    BY <1>6, BelowStack DEF HandlerReturns, Clear, Requeue, At
  <2>2. UNCHANGED <<running, intervals, handle>>
    BY <1>6 DEF HandlerReturns, Clear, Requeue, timerVars
  <2>3. QED BY <2>1, <2>2 DEF SilentInv
<1>7. CASE HandlerThrows
  <2>1. Arms' \subseteq Arms
    BY <1>7, ThrowStack
  <2>2. UNCHANGED <<running, intervals, handle>>
    BY <1>7 DEF HandlerThrows, timerVars
  <2>3. QED BY <2>1, <2>2 DEF SilentInv
<1>8. CASE Arm
  <2>1. Len(stack) \in Arms
    BY <1>8 DEF TypeOK, Arm, At, Top, Depth, Arms
  <2>2. Arms' = Arms \ {Len(stack)}
    BY <1>8, BelowStack DEF Arm, At
  <2>3. Arms' = {} /\ running /\ intervals = {}
    BY <2>1, <2>2 DEF SilentInv
  <2>4. PICK g : intervals' = intervals \cup {g} /\ handle' = g
    BY <1>8 DEF Arm
  <2>5. QED BY <1>8, <2>3, <2>4 DEF SilentInv, Arm
<1>9. CASE Step
  <2>1. UNCHANGED <<running, intervals, handle>>
    BY <1>9 DEF Step, timerVars
  <2>2. CASE running
    <3>1. BeginEmit("renderTick", <<Remainder("requeue", "renderTick")>>) /\ "renderTick" \in Channel
      BY <1>9, <2>2, ChannelsExist DEF Step
    <3>2. Arms' = Arms
      BY <3>1, BeginWithRest
    <3>3. QED BY <2>1, <3>2 DEF SilentInv
  <2>3. CASE ~running
    BY <1>9, <2>1, <2>3 DEF SilentInv, Step, Arms
  <2>4. QED BY <2>2, <2>3
<1>10. QED
  BY <1>1, <1>2, <1>3, <1>4, <1>5, <1>6, <1>7, <1>8, <1>9 DEF Next, Application, Advance, Engine

LEMMA SilentInit == Init => SilentInv
BY DEF Init, SilentInv, Arms

(* If nobody stops the scheduler from a startup handler, a scheduler that  *)
(* is not running has no interval, however often it is started, stopped    *)
(* and disposed of and whatever handlers throw.                            *)
THEOREM StoppedMeansSilent ==
  ASSUME ~StopsInStartup
  PROVE  Spec => []StoppedIsSilent
<1>1. TypeOK /\ SilentInv /\ [Next]_vars => SilentInv'
  BY SilentStep
<1>2. SilentInv => StoppedIsSilent
  BY DEF SilentInv, StoppedIsSilent
<1>3. QED BY TypeCorrect, SilentInit, <1>1, <1>2, PTL DEF Spec

-----------------------------------------------------------------------------
(* The frame loop *)

(* There is at most one frame request: in the queue, due, or to be made    *)
(* when start() or the frame that runs goes on.  It is the one stop()      *)
(* cancels, and no scheduler that has stopped has one.                     *)
LoopInv ==
  /\ Requeues \subseteq {1}
  /\ Arms # {} => Requeues = {}
  /\ (Arms # {} \/ Requeues # {} \/ ~running) => queued = <<>> /\ due = <<>>
  /\ Requeues # {} => running
  /\ queued = <<>> \/ due = <<>>
  /\ Len(queued) <= 1 /\ Len(due) <= 1
  /\ queued # <<>> => queued[1] = renderHandle
  /\ due # <<>> => due[1] = renderHandle /\ rendered = 0
  /\ rendered <= 1

LEMMA HaltEmpties ==
  ASSUME CanCancel, TypeOK, LoopInv, Halt
  PROVE  queued' = <<>> /\ due' = <<>>
<1>1. CASE ~running
  BY <1>1 DEF LoopInv, Halt
<1>2. CASE running /\ renderHandle # 0
  <2>1. Dropping(queued, renderHandle) = <<>>
    BY DroppingLast DEF TypeOK, LoopInv
  <2>2. Dropping(due, renderHandle) = <<>>
    BY DroppingLast DEF TypeOK, LoopInv
  <2>3. QED BY <1>2, <2>1, <2>2 DEF Halt
<1>3. CASE renderHandle = 0
  <2>1. \A s \in Seq(Nat \ {0}) : s # <<>> => s[1] # 0
    BY EmptySeq
  <2>2. queued = <<>> /\ due = <<>>
    BY <1>3, <2>1 DEF TypeOK, LoopInv
  <2>3. QED BY <1>3, <2>2 DEF Halt
<1>4. QED BY <1>1, <1>2, <1>3

(* A request made when there is none. *)
LEMMA OneRequest ==
  ASSUME TypeOK, queued = <<>>, RequestFrame
  PROVE  Len(queued') = 1 /\ queued' # <<>> /\ queued'[1] = renderHandle'
<1>1. PICK f \in Handle : queued' = Append(queued, f) /\ renderHandle' = f
  BY DEF RequestFrame
<1>2. queued' = <<f>>
  BY <1>1
<1>3. QED BY <1>1, <1>2

LEMMA LoopStep ==
  ASSUME CanCancel, ~ControlsInFrame, ~StopsInStartup,
         TypeOK, SilentInv, LoopInv, [Next]_vars
  PROVE  LoopInv'
<1>1. ASSUME \/ \E h \in Handler : Subscribe(h) \/ Unsubscribe(h)
             \/ EmitNext \/ UNCHANGED vars
      PROVE  LoopInv'
  <2>1. UNCHANGED <<running, queued, due, renderHandle, rendered>>
    BY <1>1 DEF Subscribe, Unsubscribe, EmitNext, vars, timerVars, frameVars
  <2>2. Arms' = Arms /\ Requeues' = Requeues
    BY <1>1, EmitNextStack DEF Subscribe, Unsubscribe, vars, Arms, Requeues
  <2>3. QED BY <2>1, <2>2 DEF LoopInv
<1>2. ASSUME \E ch \in Channel : Emit(ch) \/ IntervalFires
      PROVE  LoopInv'
  <2>1. PICK ch \in Channel : BeginEmit(ch, <<>>)
    BY <1>2, ChannelsExist DEF Emit, IntervalFires
  <2>2. UNCHANGED <<running, queued, due, renderHandle, rendered>>
    BY <1>2 DEF Emit, IntervalFires, timerVars, frameVars
  <2>3. Arms' = Arms /\ Requeues' = Requeues
    BY <2>1, BeginOnly
  <2>4. QED BY <2>2, <2>3 DEF LoopInv
<1>3. CASE Start
  <2>1. BeginEmit("startup", <<Remainder("arm", "startup")>>) /\ "startup" \in Channel
    BY <1>3, ChannelsExist DEF Start
  <2>2. Requeues' = Requeues
    BY <2>1, BeginWithRest
  <2>3. Requeues = {}
    BY <1>3 DEF Start, Controls, InProgress, Requeues, Depth
  <2>4. UNCHANGED <<queued, due, renderHandle, rendered>> /\ queued = <<>> /\ due = <<>>
    BY <1>3 DEF LoopInv, Start, frameVars
  <2>5. QED BY <2>2, <2>3, <2>4 DEF LoopInv
<1>4. CASE Stop
  <2>1. Arms' = Arms /\ Arms = {} /\ Requeues' = Requeues /\ Requeues = {} /\ UNCHANGED rendered
    BY <1>4 DEF Stop, Stops, Controls, InProgress, Arms, Requeues, Depth
  <2>2. queued' = <<>> /\ due' = <<>>
    BY <1>4, HaltEmpties DEF Stop
  <2>3. QED BY <2>1, <2>2 DEF LoopInv
<1>5. CASE Dispose
  <2>1. BeginEmit("dispose", <<Remainder("clear", "dispose")>>) /\ "dispose" \in Channel
    BY <1>5, ChannelsExist DEF Dispose
  <2>2. Arms' = Arms /\ Requeues' = Requeues
    BY <2>1, BeginWithRest
  <2>3. Arms = {} /\ Requeues = {} /\ UNCHANGED rendered
    BY <1>5 DEF Dispose, Stops, Controls, InProgress, Arms, Requeues, Depth
  <2>4. queued' = <<>> /\ due' = <<>>
    BY <1>5, HaltEmpties DEF Dispose
  <2>5. QED BY <2>2, <2>3, <2>4 DEF LoopInv
<1>6. CASE HandlerReturns \/ Clear \/ HandlerThrows
  <2>1. Arms' \subseteq Arms /\ Requeues' \subseteq Requeues
    BY <1>6, BelowStack, ThrowStack DEF HandlerReturns, Clear, At
  <2>2. UNCHANGED <<running, queued, due, renderHandle, rendered>>
    BY <1>6 DEF HandlerReturns, Clear, HandlerThrows, timerVars, frameVars
  <2>3. QED BY <2>1, <2>2 DEF LoopInv
<1>7. CASE Arm
  <2>1. Len(stack) \in Arms
    BY <1>7 DEF TypeOK, Arm, At, Top, Depth, Arms
  <2>2. Arms' = Arms \ {Len(stack)} /\ Requeues' \subseteq Requeues
    BY <1>7, BelowStack DEF Arm, At
  <2>3. Arms' = {} /\ Requeues' = {} /\ running /\ queued = <<>> /\ due = <<>>
    BY <2>1, <2>2 DEF SilentInv, LoopInv
  <2>4. UNCHANGED <<running, due, rendered>>
    BY <1>7 DEF Arm
  <2>5. \/ queued' = <<>>
        \/ Len(queued') = 1 /\ queued'[1] = renderHandle'
    BY <1>7, <2>3, OneRequest DEF Arm
  <2>6. CASE queued' = <<>>
    BY <2>3, <2>4, <2>6 DEF LoopInv
  <2>7. CASE Len(queued') = 1 /\ queued'[1] = renderHandle'
    BY <2>3, <2>4, <2>7 DEF LoopInv
  <2>8. QED BY <2>5, <2>6, <2>7
<1>8. CASE Requeue
  <2>1. Len(stack) \in Requeues
    BY <1>8 DEF TypeOK, Requeue, At, Top, Depth, Requeues
  <2>2. Arms' \subseteq Arms /\ Requeues' = Requeues \ {Len(stack)}
    BY <1>8, BelowStack DEF Requeue, At
  <2>3. Arms' = {} /\ Requeues' = {} /\ running /\ queued = <<>> /\ due = <<>>
    BY <2>1, <2>2 DEF LoopInv
  <2>4. UNCHANGED <<running, due, rendered>>
    BY <1>8 DEF Requeue, timerVars
  <2>5. Len(queued') = 1 /\ queued'[1] = renderHandle'
    BY <1>8, <2>3, OneRequest DEF Requeue
  <2>6. QED BY <2>3, <2>4, <2>5 DEF LoopInv
<1>9. CASE FrameBegins
  <2>1. Arms' = Arms /\ Requeues' = Requeues /\ UNCHANGED <<running, renderHandle>>
    BY <1>9 DEF FrameBegins, timerVars, Arms, Requeues
  <2>2. due' = queued /\ queued' = <<>> /\ rendered' = 0 /\ queued # <<>>
    BY <1>9 DEF FrameBegins
  <2>3. QED BY <2>1, <2>2 DEF LoopInv
<1>10. CASE Step
  <2>1. due # <<>> /\ due' = Tail(due) /\ stack = <<>>
    BY <1>10 DEF Step
  <2>2. running /\ queued = <<>> /\ rendered = 0 /\ Arms = {} /\ Requeues = {}
    BY <2>1 DEF LoopInv, Arms, Requeues
  <2>3. due' = <<>>
    <3>1. Len(due) \in Nat \ {0} /\ Len(due) <= 1
      BY <2>1, EmptySeq DEF TypeOK, LoopInv
    <3>2. Len(Tail(due)) = Len(due) - 1 /\ Tail(due) \in Seq(Nat \ {0})
      BY <2>1, HeadTailProperties DEF TypeOK
    <3>3. Len(due) = 1
      <4> DEFINE n == Len(due)
      <4> HIDE DEF n
      <4>1. n \in Nat \ {0} /\ n <= 1
        BY <3>1 DEF n
      <4>2. n = 1
        BY <4>1
      <4>3. QED BY <4>2 DEF n
    <3>4. QED BY <3>2, <3>3, <2>1, EmptySeq
  <2>4. BeginEmit("renderTick", <<Remainder("requeue", "renderTick")>>) /\ "renderTick" \in Channel
        /\ rendered' = 1 /\ UNCHANGED <<running, queued>>
    BY <1>10, <2>2, ChannelsExist DEF Step, timerVars
  <2>5. Arms' = {} /\ Requeues' = {1}
    BY <2>1, <2>2, <2>4, BeginWithRest
  <2>6. QED BY <2>2, <2>3, <2>4, <2>5 DEF LoopInv
<1>11. QED
  BY <1>1, <1>2, <1>3, <1>4, <1>5, <1>6, <1>7, <1>8, <1>9, <1>10 DEF Next, Application, Advance, Engine

LEMMA LoopInit == Init => LoopInv
BY DEF Init, LoopInv, Arms, Requeues

(* If frames can be cancelled, nobody starts, stops or disposes of the     *)
(* scheduler from inside a frame, or stops it from a startup handler, no   *)
(* frame emits renderTick twice.                                           *)
THEOREM OneLoopAtATime ==
  ASSUME CanCancel, ~ControlsInFrame, ~StopsInStartup
  PROVE  Spec => []OneRenderTickPerFrame
<1>1. TypeOK /\ SilentInv /\ [Next]_vars => SilentInv'
  BY SilentStep
<1>2. TypeOK /\ SilentInv /\ LoopInv /\ [Next]_vars => LoopInv'
  BY LoopStep
<1>3. LoopInv => OneRenderTickPerFrame
  BY DEF LoopInv, OneRenderTickPerFrame
<1>4. QED BY TypeCorrect, SilentInit, LoopInit, <1>1, <1>2, <1>3, PTL DEF Spec

-----------------------------------------------------------------------------
(* A scheduler that runs is driven                                         *)

(* Unless a handler threw, once start() is over a running scheduler has    *)
(* its intervals, and a frame outside the frames themselves.               *)
DrivenInv ==
  (running /\ ~failed /\ Arms = {}) =>
    /\ intervals # {}
    /\ (HasFrames /\ Requeues = {}) => queued # <<>> \/ due # <<>>

(* A return, or the rest of dispose(), leaves start() and the frame alone. *)
LEMMA OthersReturn ==
  ASSUME TypeOK, stack # <<>>, stack' = Below, Top.t \notin {"arm", "requeue"}
  PROVE  Arms' = Arms /\ Requeues' = Requeues
<1>1. Len(stack) \notin Arms /\ Len(stack) \notin Requeues
  BY DEF Arms, Requeues, Top, Depth
<1>2. QED BY <1>1, BelowStack

LEMMA DrivenStep ==
  ASSUME ~ControlsInFrame, ~StopsInStartup,
         TypeOK, SilentInv, LoopInv, DrivenInv, [Next]_vars
  PROVE  DrivenInv'
<1>1. ASSUME Arms' = Arms, Requeues' = Requeues, failed' = failed,
             UNCHANGED <<running, intervals, queued, due>>
      PROVE  DrivenInv'
  BY <1>1 DEF DrivenInv
<1>2. ASSUME \/ \E h \in Handler : Subscribe(h) \/ Unsubscribe(h)
             \/ EmitNext \/ UNCHANGED vars
      PROVE  DrivenInv'
  <2>1. UNCHANGED <<running, intervals, queued, due>> /\ failed' = failed
    BY <1>2 DEF Subscribe, Unsubscribe, EmitNext, vars, timerVars, frameVars
  <2>2. Arms' = Arms /\ Requeues' = Requeues
    BY <1>2, EmitNextStack DEF Subscribe, Unsubscribe, vars, Arms, Requeues
  <2>3. QED BY <1>1, <2>1, <2>2
<1>3. ASSUME \E ch \in Channel : Emit(ch) \/ IntervalFires
      PROVE  DrivenInv'
  <2>1. PICK ch \in Channel : BeginEmit(ch, <<>>)
    BY <1>3, ChannelsExist DEF Emit, IntervalFires
  <2>2. UNCHANGED <<running, intervals, queued, due>> /\ failed' = failed
    BY <1>3 DEF Emit, IntervalFires, timerVars, frameVars
  <2>3. QED BY <1>1, <2>1, <2>2, BeginOnly
<1>4. CASE Start
  <2>1. BeginEmit("startup", <<Remainder("arm", "startup")>>) /\ "startup" \in Channel
    BY <1>4, ChannelsExist DEF Start
  <2>2. Arms' # {}
    BY <2>1, BeginWithRest
  <2>3. QED BY <2>2 DEF DrivenInv
<1>5. CASE Stop \/ Dispose
  <2>1. ~running'
    BY <1>5 DEF Stop, Dispose, Halt
  <2>2. QED BY <2>1 DEF DrivenInv
<1>6. CASE HandlerReturns \/ Clear
  <2>1. Arms' = Arms /\ Requeues' = Requeues
    BY <1>6, OthersReturn DEF HandlerReturns, Clear, At
  <2>2. UNCHANGED <<running, intervals, queued, due>> /\ failed' = failed
    BY <1>6 DEF HandlerReturns, Clear, timerVars, frameVars
  <2>3. QED BY <1>1, <2>1, <2>2
<1>7. CASE HandlerThrows
  BY <1>7 DEF HandlerThrows, DrivenInv
<1>8. CASE Arm
  <2>1. Len(stack) \in Arms
    BY <1>8 DEF TypeOK, Arm, At, Top, Depth, Arms
  <2>2. queued = <<>>
    BY <2>1 DEF LoopInv
  <2>3. intervals' # {}
    BY <1>8 DEF Arm
  <2>4. HasFrames => queued' # <<>>
    BY <1>8, <2>2, OneRequest DEF Arm
  <2>5. QED BY <2>3, <2>4 DEF DrivenInv
<1>9. CASE Requeue
  <2>1. Len(stack) \in Requeues
    BY <1>9 DEF TypeOK, Requeue, At, Top, Depth, Requeues
  <2>2. Arms = {} /\ queued = <<>> /\ running
    BY <2>1 DEF LoopInv
  <2>3. queued' # <<>>
    BY <1>9, <2>2, OneRequest DEF Requeue
  <2>4. UNCHANGED <<running, intervals>> /\ failed' = failed
    BY <1>9 DEF Requeue, timerVars
  <2>5. QED BY <2>2, <2>3, <2>4 DEF DrivenInv
<1>10. CASE FrameBegins
  <2>1. Arms' = Arms /\ due' # <<>> /\ UNCHANGED <<running, intervals, failed>>
    BY <1>10 DEF FrameBegins, timerVars, Arms
  <2>2. QED BY <2>1 DEF DrivenInv
<1>11. CASE Step
  <2>1. stack = <<>> /\ due # <<>> /\ running
    BY <1>11 DEF Step, LoopInv
  <2>2. Arms = {} /\ UNCHANGED <<running, intervals, failed>>
    BY <1>11, <2>1 DEF Step, timerVars, Arms
  <2>3. BeginEmit("renderTick", <<Remainder("requeue", "renderTick")>>) /\ "renderTick" \in Channel
    BY <1>11, <2>1, ChannelsExist DEF Step
  <2>4. Requeues' # {}
    BY <2>3, BeginWithRest
  <2>5. QED BY <2>2, <2>4 DEF DrivenInv
<1>12. QED
  BY <1>2, <1>3, <1>4, <1>5, <1>6, <1>7, <1>8, <1>9, <1>10, <1>11
  DEF Next, Application, Advance, Engine

LEMMA DrivenHolds ==
  ASSUME TypeOK, SilentInv, LoopInv, DrivenInv
  PROVE  RunningIsDriven
<1> SUFFICES ASSUME stack = <<>>, running, ~failed
             PROVE  /\ intervals = {handle}
                    /\ HasFrames => (queued \o due = <<renderHandle>>)
  BY DEF RunningIsDriven
<1>1. Arms = {} /\ Requeues = {}
  BY DEF Arms, Requeues
<1>2. intervals = {handle}
  BY <1>1 DEF SilentInv, DrivenInv
<1>3. ASSUME NEW s \in Seq(Nat \ {0}), s # <<>>, Len(s) <= 1, s[1] = renderHandle
      PROVE  s = <<renderHandle>>
  <2>1. Len(s) \in Nat /\ Len(s) # 0
    BY <1>3, EmptySeq
  <2> DEFINE n == Len(s)
  <2>2. n \in Nat /\ n # 0 /\ n <= 1
    BY <1>3, <2>1
  <2> HIDE DEF n
  <2>3. n = 1
    BY <2>2
  <2>4. Len(s) = 1
    BY <2>3 DEF n
  <2>5. QED BY <1>3, <2>4
<1>4. ASSUME HasFrames PROVE queued \o due = <<renderHandle>>
  <2>1. queued \in Seq(Nat \ {0}) /\ due \in Seq(Nat \ {0})
    BY DEF TypeOK
  <2>2. CASE queued # <<>>
    <3>1. queued = <<renderHandle>> /\ due = <<>>
      BY <1>3, <2>1, <2>2 DEF LoopInv
    <3>2. QED BY <2>1, <3>1
  <2>3. CASE queued = <<>>
    <3>1. due # <<>>
      BY <1>1, <1>4, <2>3 DEF DrivenInv
    <3>2. due = <<renderHandle>>
      BY <1>3, <2>1, <3>1 DEF LoopInv
    <3>3. QED BY <2>1, <2>3, <3>2
  <2>4. QED BY <2>2, <2>3
<1>5. QED BY <1>2, <1>4

(* Under the same conditions, and unless a handler threw, a scheduler that *)
(* runs between tasks has the intervals and the one animation frame that   *)
(* stop() would clear and cancel (scheduler.ts 138-198).                   *)
THEOREM RunningMeansDriven ==
  ASSUME CanCancel, ~ControlsInFrame, ~StopsInStartup
  PROVE  Spec => []RunningIsDriven
<1>1. TypeOK /\ SilentInv /\ [Next]_vars => SilentInv'
  BY SilentStep
<1>2. TypeOK /\ SilentInv /\ LoopInv /\ [Next]_vars => LoopInv'
  BY LoopStep
<1>3. TypeOK /\ SilentInv /\ LoopInv /\ DrivenInv /\ [Next]_vars => DrivenInv'
  BY DrivenStep
<1>4. Init => DrivenInv
  BY DEF Init, DrivenInv
<1>5. TypeOK /\ SilentInv /\ LoopInv /\ DrivenInv => RunningIsDriven
  BY DrivenHolds
<1>6. QED BY TypeCorrect, SilentInit, LoopInit, <1>1, <1>2, <1>3, <1>4, <1>5, PTL DEF Spec
=============================================================================
