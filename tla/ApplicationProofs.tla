-------------------------- MODULE ApplicationProofs --------------------------
(***************************************************************************)
(* What tells listeners, and the applications, for any listeners, sends,   *)
(* requests, frames, devices and queue lengths.                            *)
(*                                                                         *)
(* Publication: while a publication goes on, a listener that was told      *)
(* something else is still ahead of one of the loops that run, and loops   *)
(* end only behind everybody.  A once() handler that runs has left the     *)
(* Set, and no loop above it has it in its array.                          *)
(*                                                                         *)
(* RenderLoopBridge: the bridge has a timestamp from its first frame on.   *)
(* WeatherClient: an aborted signal leaves no fetch in flight.             *)
(* ClientRuntime: at most one settled promise waits to be resumed from,    *)
(* and the backend's snapshot is of that one.                              *)
(* TelemetryGateway: the ring goes from head to tail and holds the newest  *)
(* records, the sink has older ones only; unless a record was dropped, the *)
(* two tell of every device at which polls it was away, and whether it is. *)
(***************************************************************************)
EXTENDS Publication, ClientRuntimeState, WeatherClientState, RenderLoopBridgeState,
        TelemetryGatewayState, FiniteSetTheorems, TLAPS

CONSTANTS Locate, MaxFrame, MaxRequest, Gap, MaxClock,
          Batch, FlushInterval, PollEvery, ReconnectDelay, WindowSize, SummaryEvery, MaxSeq,
          MaxPoll

Client == INSTANCE ClientRuntime
Weather == INSTANCE WeatherClient
Bridge == INSTANCE RenderLoopBridge
Gateway == INSTANCE TelemetryGateway

-----------------------------------------------------------------------------
(* Publication *)

SnapshotFrame ==
  [kind : {"loop", "call"}, value : Nat, after : Nat, left : {<<>>}, who : SUBSET Listener]

(* A loop will still come to the listener. *)
Awaited(l) == \E i \in 1..Len(stack) : stack[i].kind = "loop" /\ stack[i].after < place[l]

SnapshotTypes ==
  /\ place \in [Listener -> Nat] /\ told \in [Listener -> Nat] /\ current \in Nat
  /\ stack \in Seq(SnapshotFrame)
PlacesDiffer == \A k, l \in Registered : place[k] = place[l] => k = l
NobodyForgotten == ~threw => \A l \in Registered : told[l] = current \/ Awaited(l)

IInv ==
  /\ service \in {"snapshot", "events", "abort"}
  /\ service = "snapshot" => SnapshotTypes /\ PlacesDiffer /\ NobodyForgotten

(* Nothing is registered or published in the initial state. *)
LEMMA InitHolds == Init => IInv
  BY DEF Init, IInv, SnapshotTypes, PlacesDiffer, NobodyForgotten, Registered

(* What a push leaves of the loops that run. *)
LEMMA PushKeepsAwaited ==
  ASSUME stack \in Seq(SnapshotFrame), NEW f \in SnapshotFrame, Push(f)
  PROVE  /\ stack' \in Seq(SnapshotFrame)
         /\ Len(stack') = Len(stack) + 1 /\ stack'[1] = f
         /\ \A i \in 1..Len(stack) : stack'[i + 1] = stack[i]
  BY DEF Push

(* A listener that subscribes is told what is current, and takes a place    *)
(* nobody has.                                                              *)
LEMMA RegisterKeeps ==
  ASSUME MaxPlace \in Nat, IInv, service = "snapshot", Register
  PROVE  IInv'
PROOF
  <1>1. PICK l \in Listener : \E n \in 1..MaxPlace :
          /\ IF place[l] # 0 THEN n = place[l] ELSE NextPlace(n)
          /\ place' = [place EXCEPT ![l] = n]
          /\ Tell(l, current) /\ Push(Call(l))
    BY DEF Register
  <1>2. PICK n \in 1..MaxPlace :
          /\ IF place[l] # 0 THEN n = place[l] ELSE NextPlace(n)
          /\ place' = [place EXCEPT ![l] = n]
          /\ Tell(l, current) /\ Push(Call(l))
    BY <1>1
  <1>3. SnapshotTypes /\ PlacesDiffer /\ NobodyForgotten
    BY DEF IInv
  <1>4. UNCHANGED <<service, current, threw>>
    BY DEF Register
  <1>5. Call(l) \in SnapshotFrame
    BY DEF Call, SnapshotFrame
  <1>6. /\ stack' \in Seq(SnapshotFrame)
        /\ Len(stack') = Len(stack) + 1
        /\ \A i \in 1..Len(stack) : stack'[i + 1] = stack[i]
    BY <1>2, <1>3, <1>5, PushKeepsAwaited DEF SnapshotTypes
  <1>7. SnapshotTypes'
    BY <1>2, <1>3, <1>4, <1>6 DEF SnapshotTypes, Tell
  <1>8. PlacesDiffer'
    BY <1>2, <1>3 DEF SnapshotTypes, PlacesDiffer, Registered, NextPlace
  <1>9. NobodyForgotten'
    <2> SUFFICES ASSUME ~threw', NEW k \in Registered', told'[k] # current'
                 PROVE  Awaited(k)'
      BY DEF NobodyForgotten
    <2>1. k # l
      BY <1>2, <1>3, <1>4 DEF SnapshotTypes, Tell, Registered
    <2>2. k \in Registered /\ place'[k] = place[k] /\ told[k] # current
      BY <1>2, <1>3, <1>4, <2>1 DEF SnapshotTypes, Tell, Registered
    <2>3. PICK i \in 1..Len(stack) : stack[i].kind = "loop" /\ stack[i].after < place[k]
      BY <1>3, <1>4, <2>2 DEF NobodyForgotten, Awaited
    <2>4. i + 1 \in 1..Len(stack') /\ stack'[i + 1] = stack[i]
      BY <1>3, <1>6 DEF SnapshotTypes
    <2> QED
      BY <2>2, <2>3, <2>4 DEF Awaited
  <1> QED
    BY <1>4, <1>7, <1>8, <1>9 DEF IInv

(* Whoever leaves is not registered any more. *)
LEMMA UnregisterKeeps ==
  ASSUME IInv, service = "snapshot", Unregister
  PROVE  IInv'
PROOF
  <1>1. SnapshotTypes /\ PlacesDiffer /\ NobodyForgotten
    BY DEF IInv
  <1>2. PICK l \in Registered : place' = [place EXCEPT ![l] = 0]
    BY DEF Unregister
  <1>3. UNCHANGED <<service, current, stack, told, threw>>
    BY DEF Unregister
  <1>4. SnapshotTypes'
    BY <1>1, <1>2, <1>3 DEF SnapshotTypes
  <1>5. \A k \in Registered' : k \in Registered /\ place'[k] = place[k]
    BY <1>1, <1>2 DEF SnapshotTypes, Registered
  <1>6. PlacesDiffer'
    BY <1>1, <1>5 DEF PlacesDiffer
  <1>7. NobodyForgotten'
    BY <1>1, <1>3, <1>5 DEF NobodyForgotten, Awaited
  <1> QED
    BY <1>3, <1>4, <1>6, <1>7 DEF IInv

(* The new loop is behind everybody. *)
LEMMA PublishKeeps ==
  ASSUME IInv, Publish
  PROVE  IInv'
PROOF
  <1>1. service = "snapshot" /\ SnapshotTypes /\ PlacesDiffer
    BY DEF IInv, Publish
  <1>2. UNCHANGED <<service, place, told>> /\ current' = current + 1 /\ Push(Loop(<<>>))
    BY DEF Publish
  <1>3. Loop(<<>>) \in SnapshotFrame /\ Loop(<<>>).kind = "loop" /\ Loop(<<>>).after = 0
    BY <1>1 DEF Loop, SnapshotFrame, SnapshotTypes
  <1>4. stack' \in Seq(SnapshotFrame) /\ Len(stack') = Len(stack) + 1 /\ stack'[1] = Loop(<<>>)
    BY <1>1, <1>2, <1>3, PushKeepsAwaited DEF SnapshotTypes
  <1>5. SnapshotTypes'
    BY <1>1, <1>2, <1>4 DEF SnapshotTypes
  <1>6. PlacesDiffer'
    BY <1>1, <1>2 DEF PlacesDiffer, Registered
  <1>7. \A l \in Registered' : Awaited(l)'
    <2> SUFFICES ASSUME NEW l \in Registered' PROVE Awaited(l)'
      OBVIOUS
    <2>1. 1 \in 1..Len(stack')
      BY <1>1, <1>4 DEF SnapshotTypes
    <2>2. place'[l] \in Nat /\ place'[l] # 0
      BY <1>5 DEF SnapshotTypes, Registered
    <2> QED
      BY <1>3, <1>4, <2>1, <2>2 DEF Awaited
  <1> QED
    BY <1>1, <1>2, <1>5, <1>6, <1>7 DEF IInv, NobodyForgotten

(* The listener that is told is the next: whoever the loop has yet to come  *)
(* to is behind it.                                                         *)
LEMMA TellNextKeeps ==
  ASSUME IInv, TellNext
  PROVE  IInv'
PROOF
  <1>1. service = "snapshot" /\ SnapshotTypes /\ PlacesDiffer /\ NobodyForgotten
    BY DEF IInv, TellNext
  <1>2. UNCHANGED <<service, place, current, threw>> /\ stack # <<>>
    BY DEF TellNext
  <1>3. PICK l \in Registered :
          /\ place[l] > Head(stack).after
          /\ \A k \in Registered : place[k] < place[l] => place[k] <= Head(stack).after
          /\ Tell(l, current)
          /\ stack' = <<Call(l), [Head(stack) EXCEPT !.after = place[l]]>> \o Tail(stack)
    BY DEF TellNext
  <1> DEFINE frame == [Head(stack) EXCEPT !.after = place[l]]
  <1>4. Head(stack) \in SnapshotFrame /\ Head(stack) = stack[1] /\ Tail(stack) \in Seq(SnapshotFrame)
    BY <1>1, <1>2 DEF SnapshotTypes
  <1>5. l \in Listener /\ place[l] \in Nat
    BY <1>1 DEF Registered, SnapshotTypes
  <1>6. frame \in SnapshotFrame /\ frame.kind = Head(stack).kind /\ frame.after = place[l]
    BY <1>4, <1>5 DEF SnapshotFrame
  <1>7. Call(l) \in SnapshotFrame
    BY <1>5 DEF Call, SnapshotFrame
  <1>8. stack' = <<Call(l), frame>> \o Tail(stack)
    BY <1>3
  <1> HIDE DEF frame
  <1>9. stack' \in Seq(SnapshotFrame) /\ Len(stack') = Len(stack) + 1
    BY <1>1, <1>2, <1>4, <1>6, <1>7, <1>8 DEF SnapshotTypes
  <1>10. stack'[2] = frame /\ \A i \in 2..Len(stack) : stack'[i + 1] = stack[i]
    BY <1>1, <1>2, <1>4, <1>6, <1>7, <1>8 DEF SnapshotTypes
  <1>11. SnapshotTypes'
    BY <1>1, <1>2, <1>3, <1>5, <1>9 DEF SnapshotTypes, Tell
  <1>12. PlacesDiffer'
    BY <1>1, <1>2 DEF PlacesDiffer, Registered
  <1>13. NobodyForgotten'
    <2> SUFFICES ASSUME ~threw', NEW k \in Registered', told'[k] # current'
                 PROVE  Awaited(k)'
      BY DEF NobodyForgotten
    <2>1. k \in Registered /\ k \in Listener /\ place[k] \in Nat /\ k # l /\ told[k] # current
      BY <1>1, <1>2, <1>3, <1>5 DEF SnapshotTypes, Tell, Registered
    <2>2. PICK i \in 1..Len(stack) : stack[i].kind = "loop" /\ stack[i].after < place[k]
      BY <1>1, <1>2, <2>1 DEF NobodyForgotten, Awaited
    <2>3. CASE i = 1
      <3>1. place[k] # place[l]
        BY <1>1, <2>1 DEF PlacesDiffer
      <3>2. Head(stack).after \in Nat /\ Head(stack).after < place[k]
        BY <1>4, <2>2, <2>3 DEF SnapshotFrame
      <3>3. ~(place[k] < place[l])
        BY <1>3, <2>1, <3>2
      <3>4. place[l] < place[k]
        BY <1>5, <2>1, <3>1, <3>3
      <3>5. 2 \in 1..Len(stack') /\ stack'[2].kind = "loop" /\ stack'[2].after < place'[k]
        BY <1>1, <1>2, <1>4, <1>6, <1>9, <1>10, <2>2, <2>3, <3>4 DEF SnapshotTypes
      <3> QED
        BY <3>5 DEF Awaited
    <2>4. CASE i # 1
      <3>1. i + 1 \in 1..Len(stack') /\ stack'[i + 1] = stack[i]
        BY <1>1, <1>9, <1>10, <2>4 DEF SnapshotTypes
      <3> QED
        BY <1>2, <2>2, <3>1 DEF Awaited
    <2> QED
      BY <2>3, <2>4
  <1> QED
    BY <1>1, <1>2, <1>11, <1>12, <1>13 DEF IInv

(* A loop that ends, or a call that returns, was awaited by nobody. *)
LEMMA PopKeeps ==
  ASSUME IInv, service = "snapshot", LoopEnds \/ Returns
  PROVE  IInv'
PROOF
  <1>1. SnapshotTypes /\ PlacesDiffer /\ NobodyForgotten
    BY DEF IInv
  <1>2. UNCHANGED <<service, place, current, told, threw>> /\ stack # <<>> /\ stack' = Tail(stack)
    BY DEF LoopEnds, Returns
  <1>3. stack' \in Seq(SnapshotFrame) /\ Len(stack') = Len(stack) - 1
        /\ \A i \in 2..Len(stack) : stack'[i - 1] = stack[i]
    BY <1>1, <1>2 DEF SnapshotTypes
  <1>4. Head(stack) = stack[1] /\ stack[1] \in SnapshotFrame
    BY <1>1, <1>2 DEF SnapshotTypes
  <1>5. \A l \in Registered : ~(stack[1].kind = "loop" /\ stack[1].after < place[l])
    <2> SUFFICES ASSUME NEW l \in Registered, stack[1].kind = "loop", stack[1].after < place[l]
                 PROVE  FALSE
      OBVIOUS
    <2>1. place[l] \in Nat /\ stack[1].after \in Nat
      BY <1>1, <1>4 DEF SnapshotTypes, Registered, SnapshotFrame
    <2>2. CASE LoopEnds
      BY <1>4, <2>1, <2>2 DEF LoopEnds
    <2>3. CASE Returns
      BY <1>4, <2>3 DEF Returns
    <2> QED
      BY <2>2, <2>3
  <1>6. SnapshotTypes'
    BY <1>1, <1>2, <1>3 DEF SnapshotTypes
  <1>7. PlacesDiffer'
    BY <1>1, <1>2 DEF PlacesDiffer, Registered
  <1>8. NobodyForgotten'
    <2> SUFFICES ASSUME ~threw', NEW k \in Registered', told'[k] # current'
                 PROVE  Awaited(k)'
      BY DEF NobodyForgotten
    <2>1. k \in Registered /\ told[k] # current
      BY <1>2 DEF Registered
    <2>2. PICK i \in 1..Len(stack) : stack[i].kind = "loop" /\ stack[i].after < place[k]
      BY <1>1, <1>2, <2>1 DEF NobodyForgotten, Awaited
    <2>3. i \in 2..Len(stack)
      BY <1>1, <1>5, <2>1, <2>2 DEF SnapshotTypes
    <2>4. i - 1 \in 1..Len(stack') /\ stack'[i - 1] = stack[i]
      BY <1>1, <1>3, <2>3 DEF SnapshotTypes
    <2> QED
      BY <1>2, <2>2, <2>4 DEF Awaited
  <1> QED
    BY <1>2, <1>6, <1>7, <1>8 DEF IInv

(* After a throw nothing is promised until the next publication. *)
LEMMA ThrowsKeeps ==
  ASSUME IInv, service = "snapshot", Throws
  PROVE  IInv'
PROOF
  <1>1. SnapshotTypes /\ PlacesDiffer
    BY DEF IInv
  <1>2. UNCHANGED <<service, place, current, told>> /\ threw' = TRUE /\ stack # <<>>
        /\ stack' = IF Len(stack) > 1 /\ stack[2].kind = "loop" THEN Tail(Tail(stack)) ELSE Tail(stack)
    BY DEF Throws
  <1>3. Tail(stack) \in Seq(SnapshotFrame) /\ Len(Tail(stack)) = Len(stack) - 1
    BY <1>1, <1>2 DEF SnapshotTypes
  <1>4. ASSUME Len(stack) > 1
        PROVE  Tail(Tail(stack)) \in Seq(SnapshotFrame)
    <2> DEFINE rest == Tail(stack)
    <2>1. rest \in Seq(SnapshotFrame) /\ Len(rest) = Len(stack) - 1 /\ Len(stack) \in Nat
      BY <1>1, <1>3 DEF SnapshotTypes
    <2> HIDE DEF rest
    <2>2. rest # <<>>
      BY <1>4, <2>1
    <2>3. Tail(rest) \in Seq(SnapshotFrame)
      BY <2>1, <2>2
    <2> QED
      BY <2>3 DEF rest
  <1>5. stack' \in Seq(SnapshotFrame)
    BY <1>2, <1>3, <1>4
  <1>6. SnapshotTypes'
    BY <1>1, <1>2, <1>5 DEF SnapshotTypes
  <1>7. PlacesDiffer'
    BY <1>1, <1>2 DEF PlacesDiffer, Registered
  <1> QED
    BY <1>2, <1>6, <1>7 DEF IInv, NobodyForgotten

(* Every step keeps the invariant.  No array is walked by a snapshot        *)
(* service, and the other services promise nothing here.                    *)
LEMMA NextKeeps ==
  ASSUME MaxPlace \in Nat, IInv, [Next]_vars
  PROVE  IInv'
PROOF
  <1>1. CASE UNCHANGED vars
    BY <1>1 DEF vars, IInv, SnapshotTypes, PlacesDiffer, NobodyForgotten, Registered, Awaited
  <1>2. CASE service # "snapshot" /\ Next
    <2>1. service' = service
      BY <1>2 DEF Next, Register, Unregister, Publish, Emit, DispatchAbort, TellNext, TellNextOfArray,
                  LoopEnds, Returns, Throws
    <2> QED
      BY <1>2, <2>1 DEF IInv
  <1>3. CASE service = "snapshot" /\ Next
    <2>1. ~Emit /\ ~DispatchAbort
      BY <1>3 DEF Emit, DispatchAbort
    <2>2. ~TellNextOfArray
      <3> SUFFICES ASSUME TellNextOfArray PROVE FALSE
        OBVIOUS
      <3>1. stack \in Seq(SnapshotFrame) /\ stack # <<>> /\ Head(stack).left # <<>>
        BY <1>3 DEF IInv, SnapshotTypes, TellNextOfArray
      <3>2. Head(stack) \in SnapshotFrame
        BY <3>1
      <3> QED
        BY <3>1, <3>2 DEF SnapshotFrame
    <2>3. \/ Register \/ Unregister \/ Publish \/ TellNext \/ LoopEnds \/ Returns \/ Throws
      BY <1>3, <2>1, <2>2 DEF Next
    <2> QED
      BY <1>3, <2>3, RegisterKeeps, UnregisterKeeps, PublishKeeps, TellNextKeeps, PopKeeps, ThrowsKeeps
  <1> QED
    BY <1>1, <1>2, <1>3

(* However publications nest, listeners come and go, once they are over     *)
(* every subscriber was told the current snapshot last, unless a listener   *)
(* threw (SnapshotService).                                                 *)
THEOREM EverybodyIsTold ==
  ASSUME MaxPlace \in Nat
  PROVE  Spec => []LatestIsTold
PROOF
  <1>1. Init => IInv
    BY InitHolds
  <1>2. IInv /\ [Next]_vars => IInv'
    BY NextKeeps
  <1>3. IInv => LatestIsTold
    BY DEF IInv, LatestIsTold, SnapshotTypes, NobodyForgotten, Awaited
  <1> QED
    BY <1>1, <1>2, <1>3, PTL DEF Spec

(* A loop has no handler, and a call no array. *)
ArrayFrame ==
  {f \in [kind : {"loop", "call"}, value : Nat, after : Nat, left : Seq(Listener), who : SUBSET Listener] :
     f.who = {} \/ f.left = <<>>}

EventTypes ==
  /\ place \in [Listener -> Nat] /\ told \in [Listener -> Nat] /\ current \in Nat
  /\ stack \in Seq(ArrayFrame)
  /\ stack # <<>> => current # 0

Names(frame, l) == frame.who = {l} \/ \E k \in 1..Len(frame.left) : frame.left[k] = l

(* While a once() handler runs, its wrapper is gone for good and nothing    *)
(* above it knows it.                                                       *)
OnceInv ==
  service = "events" =>
    /\ EventTypes
    /\ \A l \in Once : \A i \in 1..Len(stack) : stack[i].who = {l} =>
         /\ told[l] # 0 /\ place[l] = 0
         /\ \A j \in 1..i - 1 : ~Names(stack[j], l)

(* What is above a running handler does not grow by a frame that names it. *)
LEMMA OnceStep ==
  ASSUME IsFiniteSet(Listener), OnceInv, [Next]_vars, service = "events"
  PROVE  OnceInv'
<1>1. /\ EventTypes
      /\ \A l \in Once : \A i \in 1..Len(stack) : stack[i].who = {l} =>
           /\ told[l] # 0 /\ place[l] = 0
           /\ \A j \in 1..i - 1 : ~Names(stack[j], l)
  BY DEF OnceInv
<1>2. Len(stack) \in Nat /\ \A i \in 1..Len(stack) : stack[i] \in ArrayFrame
  BY <1>1 DEF EventTypes
<1>3. CASE UNCHANGED vars
  BY <1>3 DEF vars, OnceInv, EventTypes
<1>4. CASE Register
  <2>1. PICK l \in Listener, n \in 1..MaxPlace :
          (l \in Once => told[l] = 0) /\ place' = [place EXCEPT ![l] = n]
    BY <1>4 DEF Register
  <2>2. UNCHANGED <<service, current, stack, told>>
    BY <1>4 DEF Register
  <2>3. EventTypes'
    BY <1>1, <2>1, <2>2 DEF EventTypes
  <2>4. ASSUME NEW k \in Once, NEW i \in 1..Len(stack), stack[i].who = {k}
        PROVE  place'[k] = place[k]
    <3>1. k \in Listener
      BY <1>2, <2>4 DEF ArrayFrame
    <3>2. k # l
      BY <1>1, <2>1, <2>4
    <3>3. QED BY <1>1, <2>1, <3>1, <3>2 DEF EventTypes
  <2>5. QED BY <1>1, <2>2, <2>3, <2>4 DEF OnceInv
<1>5. CASE Unregister
  <2>1. PICK l \in Registered : place' = [place EXCEPT ![l] = 0]
    BY <1>5 DEF Unregister
  <2>2. UNCHANGED <<service, current, stack, told>>
    BY <1>5 DEF Unregister
  <2>3. EventTypes'
    BY <1>1, <2>1, <2>2 DEF EventTypes
  <2>4. \A k \in Listener : place[k] = 0 => place'[k] = 0
    BY <1>1, <2>1 DEF EventTypes, Registered
  <2>5. \A k \in Once : \A i \in 1..Len(stack) : stack[i].who = {k} => k \in Listener
    BY <1>2 DEF ArrayFrame
  <2>6. QED BY <1>1, <2>2, <2>3, <2>4, <2>5 DEF OnceInv
<1>6. CASE Publish \/ DispatchAbort \/ TellNext
  BY <1>6 DEF Publish, DispatchAbort, TellNext
<1>7. CASE Emit
  <2>1. PICK array \in Listeners : Push(Loop(array))
    BY <1>7 DEF Emit
  <2>2. UNCHANGED <<service, place, told>> /\ current' = current + 1
    BY <1>7 DEF Emit
  <2>3. /\ array \in Seq(Listener)
        /\ \A k \in 1..Len(array) : array[k] \in Registered
    <3>1. IsFiniteSet(Registered)
      <4>1. Registered \subseteq Listener
        BY DEF Registered
      <4>2. QED BY <4>1, FS_Subset
    <3>2. Cardinality(Registered) \in Nat
      BY <3>1, FS_CardinalityType
    <3>3. array \in Seq(Registered)
      BY <3>2 DEF Listeners
    <3>4. QED BY <3>3 DEF Registered
  <2>4. PICK frame : frame = Loop(array)
    OBVIOUS
  <2>5. /\ frame \in ArrayFrame /\ frame.who = {} /\ frame.left = array
    BY <1>1, <2>3, <2>4 DEF Loop, ArrayFrame, EventTypes
  <2>6. /\ stack' \in Seq(ArrayFrame) /\ Len(stack') = Len(stack) + 1 /\ stack'[1] = frame
        /\ \A i \in 1..Len(stack) : stack'[i + 1] = stack[i]
    BY <1>1, <2>1, <2>4, <2>5 DEF Push, EventTypes
  <2>7. EventTypes'
    BY <1>1, <2>2, <2>6 DEF EventTypes
  <2>8. ASSUME NEW l \in Once, NEW i \in 1..Len(stack'), stack'[i].who = {l}
        PROVE  /\ told'[l] # 0 /\ place'[l] = 0
               /\ \A j \in 1..i - 1 : ~Names(stack'[j], l)
    <3>0. i # 1
      BY <2>5, <2>6, <2>8
    <3>1. i - 1 \in 1..Len(stack) /\ stack'[i] = stack[i - 1]
      <4>1. i - 1 \in 1..Len(stack) /\ (i - 1) + 1 = i
        BY <1>2, <2>6, <2>8, <3>0
      <4>2. stack'[(i - 1) + 1] = stack[i - 1]
        BY <2>6, <4>1
      <4>3. QED BY <4>1, <4>2
    <3>2. told[l] # 0 /\ place[l] = 0 /\ \A j \in 1..i - 2 : ~Names(stack[j], l)
      BY <1>1, <2>8, <3>1
    <3>3. ~Names(frame, l)
      BY <2>3, <2>5, <3>2 DEF Names, Registered
    <3>4. ASSUME NEW j \in 1..i - 1
          PROVE  ~Names(stack'[j], l)
      <4>1. CASE j = 1
        BY <2>6, <3>3, <4>1
      <4>2. CASE j # 1
        <5>1. j - 1 \in 1..i - 2 /\ j - 1 \in 1..Len(stack) /\ stack'[j] = stack[j - 1]
          BY <1>2, <2>6, <3>1, <4>2
        <5>2. QED BY <3>2, <5>1
      <4>3. QED BY <4>1, <4>2
    <3>5. QED BY <2>2, <3>2, <3>4
  <2>9. QED BY <2>2, <2>7, <2>8 DEF OnceInv
<1>8. CASE TellNextOfArray
  <2>1. stack # <<>> /\ Head(stack) = stack[1] /\ stack[1] \in ArrayFrame /\ Tail(stack) \in Seq(ArrayFrame)
    BY <1>1, <1>8 DEF TellNextOfArray, EventTypes
  <2>2. PICK l : l = Head(Head(stack).left)
    OBVIOUS
  <2>3. PICK frame : frame = [Head(stack) EXCEPT !.left = Tail(@)]
    OBVIOUS
  <2>4. /\ told' = [told EXCEPT ![l] = current]
        /\ place' = IF l \in Once THEN [place EXCEPT ![l] = 0] ELSE place
        /\ stack' = <<Call(l), frame>> \o Tail(stack)
        /\ UNCHANGED <<service, current>>
    BY <1>8, <2>2, <2>3 DEF TellNextOfArray, Tell
  <2>5. /\ l \in Listener /\ stack[1].left \in Seq(Listener) /\ stack[1].left # <<>>
        /\ l = stack[1].left[1]
    BY <1>8, <2>1, <2>2 DEF TellNextOfArray, ArrayFrame
  <2>6. /\ frame \in ArrayFrame /\ frame.who = stack[1].who /\ frame.who = {}
        /\ \A k \in 1..Len(frame.left) :
             k + 1 \in 1..Len(stack[1].left) /\ frame.left[k] = stack[1].left[k + 1]
    <3>1. PICK rest : rest = Tail(stack[1].left)
      OBVIOUS
    <3>2. rest \in Seq(Listener) /\ \A k \in 1..Len(rest) :
             k + 1 \in 1..Len(stack[1].left) /\ rest[k] = stack[1].left[k + 1]
      BY <2>5, <3>1
    <3>3. frame = [stack[1] EXCEPT !.left = rest]
      BY <2>1, <2>3, <3>1
    <3>4. stack[1].who = {}
      BY <2>1, <2>5 DEF ArrayFrame
    <3>5. frame.left = rest /\ frame.who = stack[1].who
      BY <2>1, <3>3 DEF ArrayFrame
    <3>6. frame \in ArrayFrame
      <4>1. /\ stack[1] \in [kind : {"loop", "call"}, value : Nat, after : Nat, left : Seq(Listener),
                             who : SUBSET Listener]
        BY <2>1 DEF ArrayFrame
      <4>2. /\ frame \in [kind : {"loop", "call"}, value : Nat, after : Nat, left : Seq(Listener),
                          who : SUBSET Listener]
        BY <3>2, <3>3, <4>1
      <4>3. QED BY <3>4, <3>5, <4>2 DEF ArrayFrame
    <3>7. QED BY <3>2, <3>4, <3>5, <3>6
  <2>7. Call(l) \in ArrayFrame /\ Call(l).who = {l} /\ Call(l).left = <<>>
    BY <2>5 DEF Call, ArrayFrame
  <2>8. PICK call : call = Call(l)
    OBVIOUS
  <2>9. /\ stack' \in Seq(ArrayFrame) /\ Len(stack') = Len(stack) + 1 /\ Len(stack) >= 1
        /\ stack'[1] = call /\ stack'[2] = frame
        /\ \A i \in 2..Len(stack) : stack'[i + 1] = stack[i]
    BY <1>1, <2>1, <2>4, <2>6, <2>7, <2>8 DEF EventTypes
  <2>10. current # 0
    BY <1>1, <2>1 DEF EventTypes
  <2>11. /\ place' \in [Listener -> Nat] /\ told' \in [Listener -> Nat]
         /\ \A k \in Listener : place[k] = 0 => place'[k] = 0
         /\ \A k \in Listener : told[k] # 0 => told'[k] # 0
         /\ told'[l] # 0 /\ (l \in Once => place'[l] = 0)
    <3>1. place \in [Listener -> Nat] /\ told \in [Listener -> Nat] /\ current \in Nat
      BY <1>1 DEF EventTypes
    <3>2. told' \in [Listener -> Nat] /\ told'[l] = current
          /\ \A k \in Listener : told[k] # 0 => told'[k] # 0
      BY <2>4, <2>5, <2>10, <3>1
    <3>3. CASE l \in Once
      <4>1. place' = [place EXCEPT ![l] = 0]
        BY <2>4, <3>3
      <4>2. QED BY <2>5, <2>10, <3>1, <3>2, <4>1
    <3>4. CASE l \notin Once
      BY <2>4, <2>10, <3>1, <3>2, <3>4
    <3>5. QED BY <3>3, <3>4
  <2>12. EventTypes'
    BY <1>1, <2>4, <2>9, <2>10, <2>11 DEF EventTypes
  <2>13. ASSUME NEW k, Names(frame, k)
         PROVE  Names(stack[1], k)
    <3>1. CASE frame.who = {k}
      BY <2>6, <3>1 DEF Names
    <3>2. CASE \E n \in 1..Len(frame.left) : frame.left[n] = k
      <4>1. PICK n \in 1..Len(frame.left) : frame.left[n] = k
        BY <3>2
      <4>2. n + 1 \in 1..Len(stack[1].left) /\ stack[1].left[n + 1] = k
        BY <2>6, <4>1
      <4>3. QED BY <4>2 DEF Names
    <3>3. QED BY <2>13, <3>1, <3>2 DEF Names
  <2>14. Names(stack[1], l) /\ 1 \in 1..Len(stack)
    BY <1>1, <2>1, <2>5 DEF Names, EventTypes
  <2>15. ASSUME NEW k \in Once, NEW i \in 1..Len(stack'), stack'[i].who = {k}
         PROVE  /\ told'[k] # 0 /\ place'[k] = 0
                /\ \A j \in 1..i - 1 : ~Names(stack'[j], k)
    <3>1. CASE i = 1
      <4>1. k = l
        BY <2>7, <2>8, <2>9, <2>15, <3>1
      <4>2. QED BY <2>11, <3>1, <4>1
    <3>2. CASE i # 1
      <4>0. i # 2
        BY <2>6, <2>9, <2>15
      <4>1. i - 1 \in 2..Len(stack) /\ stack'[i] = stack[i - 1] /\ stack[i - 1].who = {k}
        <5>1. i - 1 \in 2..Len(stack)
          BY <1>2, <2>9, <2>15, <3>2, <4>0
        <5>2. stack'[(i - 1) + 1] = stack[i - 1]
          BY <2>9, <5>1
        <5>3. QED BY <2>15, <5>1, <5>2
      <4>2. /\ told[k] # 0 /\ place[k] = 0 /\ k \in Listener
            /\ \A j \in 1..i - 2 : ~Names(stack[j], k)
        BY <1>1, <1>2, <4>1 DEF ArrayFrame
      <4>3. ASSUME NEW j \in 1..i - 1
            PROVE  ~Names(stack'[j], k)
        <5>1. 1 \in 1..i - 2
          BY <4>1
        <5>2. ~Names(stack[1], k)
          BY <4>2, <5>1
        <5>3. k # l
          BY <2>14, <5>2
        <5>4. CASE j = 1
          <6>1. call.who # {k}
            BY <2>7, <2>8, <5>3
          <6>2. 1..Len(call.left) = {}
            BY <2>7, <2>8
          <6>3. QED BY <2>9, <5>4, <6>1, <6>2 DEF Names
        <5>5. CASE j = 2
          BY <2>9, <2>13, <5>2, <5>5
        <5>6. CASE j \notin {1, 2}
          <6>1. j - 1 \in 1..i - 2 /\ j - 1 \in 2..Len(stack) /\ stack'[j] = stack[j - 1]
            BY <1>2, <2>9, <4>1, <5>6
          <6>2. QED BY <4>2, <6>1
        <5>7. QED BY <5>4, <5>5, <5>6
      <4>4. QED BY <2>11, <4>2, <4>3
    <3>3. QED BY <3>1, <3>2
  <2>16. QED BY <2>4, <2>12, <2>15 DEF OnceInv
<1>9. CASE LoopEnds \/ Returns \/ Throws
  <2>1. PICK d \in {1, 2} :
          /\ d <= Len(stack) /\ stack' \in Seq(ArrayFrame) /\ Len(stack') = Len(stack) - d
          /\ \A i \in 1..Len(stack') : stack'[i] = stack[i + d]
    <3>1. stack # <<>> /\ (stack' = Tail(stack) \/ (Len(stack) > 1 /\ stack' = Tail(Tail(stack))))
      BY <1>9 DEF LoopEnds, Returns, Throws
    <3>2. PICK rest : rest = Tail(stack)
      OBVIOUS
    <3>3. /\ rest \in Seq(ArrayFrame) /\ Len(rest) = Len(stack) - 1 /\ Len(stack) \in Nat \ {0}
          /\ \A i \in 1..Len(rest) : rest[i] = stack[i + 1]
      BY <1>1, <3>1, <3>2 DEF EventTypes
    <3>4. CASE stack' = rest
      <4>1. /\ 1 <= Len(stack) /\ stack' \in Seq(ArrayFrame) /\ Len(stack') = Len(stack) - 1
            /\ \A i \in 1..Len(stack') : stack'[i] = stack[i + 1]
        BY <3>3, <3>4
      <4>2. QED BY <4>1
    <3>5. CASE Len(stack) > 1 /\ stack' = Tail(rest)
      <4>1. rest # <<>> /\ Len(rest) >= 1
        BY <3>3, <3>5
      <4>2. PICK last : last = Tail(rest)
        OBVIOUS
      <4>3. /\ last \in Seq(ArrayFrame) /\ Len(last) = Len(rest) - 1
            /\ \A i \in 1..Len(last) : last[i] = rest[i + 1]
        BY <3>3, <4>1, <4>2
      <4>4. \A i \in 1..Len(last) : last[i] = stack[i + 2]
        <5>1. ASSUME NEW i \in 1..Len(last)
              PROVE  last[i] = stack[i + 2]
          <6>1. i + 1 \in 1..Len(rest) /\ (i + 1) + 1 = i + 2
            BY <3>3, <4>3
          <6>2. QED BY <3>3, <4>3, <6>1
        <5>2. QED BY <5>1
      <4>5. /\ 2 <= Len(stack) /\ stack' \in Seq(ArrayFrame) /\ Len(stack') = Len(stack) - 2
            /\ \A i \in 1..Len(stack') : stack'[i] = stack[i + 2]
        BY <3>3, <3>5, <4>2, <4>3, <4>4
      <4>6. QED BY <4>5
    <3>6. QED BY <3>1, <3>2, <3>4, <3>5
  <2>2. UNCHANGED <<service, place, current, told>> /\ stack # <<>>
    BY <1>9 DEF LoopEnds, Returns, Throws
  <2>3. EventTypes'
    BY <1>1, <2>1, <2>2 DEF EventTypes
  <2>4. ASSUME NEW l \in Once, NEW i \in 1..Len(stack'), stack'[i].who = {l}
        PROVE  /\ told'[l] # 0 /\ place'[l] = 0
               /\ \A j \in 1..i - 1 : ~Names(stack'[j], l)
    <3>1. i + d \in 1..Len(stack) /\ stack[i + d].who = {l}
      BY <1>2, <2>1, <2>4
    <3>2. told[l] # 0 /\ place[l] = 0 /\ \A j \in 1..i + d - 1 : ~Names(stack[j], l)
      BY <1>1, <3>1
    <3>3. ASSUME NEW j \in 1..i - 1
          PROVE  ~Names(stack'[j], l)
      <4>1. j + d \in 1..i + d - 1 /\ j \in 1..Len(stack')
        BY <1>2, <2>1
      <4>2. QED BY <2>1, <3>2, <4>1
    <3>4. QED BY <2>2, <3>2, <3>3
  <2>5. QED BY <2>2, <2>3, <2>4 DEF OnceInv
<1>10. QED BY <1>3, <1>4, <1>5, <1>6, <1>7, <1>8, <1>9 DEF Next

LEMMA InitOnce == Init => OnceInv
  BY DEF Init, OnceInv, EventTypes

(* A once() handler is not called from inside its own call, however          *)
(* emissions nest and listeners come and go (BaseEventService.once).         *)
THEOREM OnceMeansOnce ==
  ASSUME IsFiniteSet(Listener)
  PROVE  Spec => []OnceIsNotReentered
PROOF
  <1>1. OnceInv /\ [Next]_vars => OnceInv'
    <2>1. CASE service = "events"
      BY <2>1, OnceStep
    <2>2. CASE service # "events"
      <3>1. [Next]_vars => service' = service
        BY DEF Next, Register, Unregister, Publish, Emit, DispatchAbort, TellNext, TellNextOfArray,
               LoopEnds, Returns, Throws, vars
      <3>2. QED BY <2>2, <3>1 DEF OnceInv
    <2>3. QED BY <2>1, <2>2
  <1>2. OnceInv => OnceIsNotReentered
    <2> SUFFICES ASSUME OnceInv, service = "events", NEW l \in Once,
                        NEW i \in DOMAIN stack, NEW j \in DOMAIN stack,
                        stack[i].who = {l}, stack[j].who = {l}, i # j
                 PROVE  FALSE
      BY DEF OnceIsNotReentered
    <2>1. i \in 1..Len(stack) /\ j \in 1..Len(stack) /\ Len(stack) \in Nat
      BY DEF OnceInv, EventTypes
    <2>2. i \in 1..j - 1 \/ j \in 1..i - 1
      BY <2>1
    <2>3. QED BY <2>1, <2>2 DEF OnceInv, Names
  <1>3. QED BY InitOnce, <1>1, <1>2, PTL DEF Spec

-----------------------------------------------------------------------------
(* The render loop bridge *)

(* A frame of the bridge is the first exactly when it has no timestamp yet. *)
Drawn ==
  /\ clock \in Nat \ {0} /\ drawn \in Nat /\ lastTimestamp \in Nat
  /\ ticks \in [sum : Int, first : Int]
  /\ drawn = 0 => lastTimestamp = 0 /\ ticks.sum = 0
  /\ drawn # 0 => lastTimestamp # 0
  /\ DeltasAddUp

(* Whatever the engine, however long the frames and however often the bridge *)
(* or the adapter takes the loop, the deltas add up (the bridges' callback). *)
THEOREM TimeAddsUp ==
  ASSUME Gap \subseteq Nat
  PROVE  Bridge!Spec => []DeltasAddUp
PROOF
  <1>1. Bridge!Init => Drawn
    BY DEF Bridge!Init, Drawn, DeltasAddUp
  <1>2. Drawn /\ [Bridge!Next]_(Bridge!vars) => Drawn'
    <2> SUFFICES ASSUME Drawn, [Bridge!Next]_(Bridge!vars) PROVE Drawn'
      OBVIOUS
    <2>1. CASE UNCHANGED Bridge!vars
      BY <2>1 DEF Bridge!vars, Drawn, DeltasAddUp
    <2>2. ASSUME NEW o \in Bridge!Owner, Bridge!Start(o) \/ Bridge!Stop(o)
          PROVE  Drawn'
      BY <2>2 DEF Bridge!Start, Bridge!Stop, Drawn, DeltasAddUp
    <2>3. CASE Bridge!HostFrame
      <3>1. PICK gap \in Gap :
              /\ clock' = clock + gap
              /\ IF "bridge" \in callbacks
                 THEN /\ ticks' = [sum |-> ticks.sum + Bridge!Delta(clock'),
                                   first |-> IF drawn = 0 THEN clock' ELSE ticks.first]
                      /\ drawn' = drawn + 1 /\ lastTimestamp' = clock'
                 ELSE UNCHANGED <<drawn, lastTimestamp, ticks>>
        BY <2>3 DEF Bridge!HostFrame
      <3>2. gap \in Nat /\ clock' \in Nat \ {0}
        BY <3>1 DEF Drawn
      <3>3. CASE "bridge" \notin callbacks
        BY <3>1, <3>2, <3>3 DEF Drawn, DeltasAddUp
      <3>4. CASE "bridge" \in callbacks
        <4>1. Bridge!Delta(clock') = IF drawn = 0 THEN 16 ELSE clock' - lastTimestamp
          BY DEF Bridge!Delta, Bridge!FirstFrameDelta, Drawn
        <4>2. /\ ticks'.sum = ticks.sum + (IF drawn = 0 THEN 16 ELSE clock' - lastTimestamp)
              /\ ticks'.first = (IF drawn = 0 THEN clock' ELSE ticks.first)
              /\ ticks' \in [sum : Int, first : Int]
              /\ drawn' = drawn + 1 /\ lastTimestamp' = clock'
          BY <3>1, <3>2, <3>4, <4>1 DEF Drawn
        <4>3. QED BY <3>2, <4>2 DEF Drawn, DeltasAddUp, FirstFrameDelta
      <3>5. QED BY <3>3, <3>4
    <2>4. QED BY <2>1, <2>2, <2>3 DEF Bridge!Next
  <1>3. Drawn => DeltasAddUp
    BY DEF Drawn
  <1>4. QED BY <1>1, <1>2, <1>3, PTL DEF Bridge!Spec

-----------------------------------------------------------------------------
(* The weather client *)

(* An aborted signal leaves no fetch and no body in flight. *)
Heard == aborted => step \notin {"fetch", "body"}

(* Whenever the framework is disposed of, nothing a request brings is shown *)
(* afterwards (the abort signal of getCurrentWeather).                      *)
THEOREM DisposedShowsNothing == Weather!Spec => NothingAfterDispose
PROOF
  <1>1. Weather!Init => Heard
    BY DEF Weather!Init, Heard
  <1>2. Heard /\ [Weather!Next]_(Weather!vars) => Heard'
    BY DEF Heard, Weather!Next, Weather!vars, Weather!weatherVars, Weather!LoadWeather, Weather!PositionKnown,
           Weather!PositionDenied, Weather!Responds, Weather!ResponseFails, Weather!Succeeds,
           Weather!Dispose, Weather!Fails
  <1>3. Heard /\ [Weather!Next]_(Weather!vars) => [aborted => weather' \in {0, weather}]_weatherVars
    BY DEF Heard, Weather!Next, Weather!vars, Weather!weatherVars, weatherVars, Weather!LoadWeather, Weather!PositionKnown,
           Weather!PositionDenied, Weather!Responds, Weather!ResponseFails, Weather!Succeeds,
           Weather!Dispose, Weather!Fails
  <1>4. QED BY <1>1, <1>2, <1>3, PTL DEF Weather!Spec, NothingAfterDispose

-----------------------------------------------------------------------------
(* The chat client *)

Phase == {"idle", "sending", "ok", "failed", "answered", "refused"}
Asked(s) == [role |-> "user", of |-> s]
Answered(s) == [role |-> "assistant", of |-> s]

ClientTypes ==
  /\ messages \in Seq([role : {"user", "assistant"}, of : Send])
  /\ phase \in [Send -> Phase] /\ text \subseteq Send
  /\ backend \in [preferred : Client!Kind, active : SUBSET Client!Kind, state : Client!Connection, lastError : BOOLEAN]
  /\ experience \in [widget : {"closed", "open", "minimized"}, connection : Client!Connection, lastError : BOOLEAN]
  /\ modules \in Seq(Client!Kind) /\ via \in [Send -> Client!Kind]

(* What a settled promise resumes runs before the next, and until it has run *)
(* the backend's snapshot is of that promise.                               *)
OneJob ==
  /\ \A s, t \in Send : phase[s] \in Jobs /\ phase[t] \in Jobs => s = t
  /\ \A s \in Send :
       /\ phase[s] = "answered" => backend.state = "ready"
       /\ phase[s] = "refused" /\ modules # <<>> /\ ~disposed => backend.state = "error"

NewIsEmpty == page = "new" => messages = <<>>

ClientInv == ClientTypes /\ OneJob /\ NewIsEmpty /\ ConversationIsWhole /\ StatusesAgree

(* The conversation only grows, and a question comes before its answer. *)
LEMMA ConversationGrows ==
  ASSUME ClientTypes, ConversationIsWhole,
         NEW m \in [role : {"user", "assistant"}, of : Send], messages' = Append(messages, m),
         NEW s \in Send, \A t \in Send : t # s => phase'[t] = phase[t],
         \/ m = Asked(s) /\ phase[s] = "idle" /\ phase'[s] \notin {"idle", "ok"}
         \/ m = Answered(s) /\ phase[s] # "idle" /\ phase'[s] = "ok"
  PROVE  ConversationIsWhole'
<1>1. messages \in Seq([role : {"user", "assistant"}, of : Send]) /\ Len(messages) \in Nat
  BY DEF ClientTypes
<1>2. /\ Len(messages') = Len(messages) + 1 /\ messages'[Len(messages) + 1] = m
      /\ \A i \in 1..Len(messages) : messages'[i] = messages[i]
      /\ DOMAIN messages = 1..Len(messages) /\ DOMAIN messages' = 1..Len(messages) + 1
  BY <1>1
<1>3. SUFFICES ASSUME NEW t \in Send, phase'[t] # "idle"
      PROVE  \E i \in DOMAIN messages' :
               /\ messages'[i] = [role |-> "user", of |-> t]
               /\ phase'[t] = "ok" =>
                    \E j \in DOMAIN messages' : j > i /\ messages'[j] = [role |-> "assistant", of |-> t]
  BY Zenon DEF ConversationIsWhole
<1>4. CASE phase[t] # "idle" /\ (phase'[t] = "ok" => phase[t] = "ok")
  <2>1. PICK i \in DOMAIN messages :
          /\ messages[i] = [role |-> "user", of |-> t]
          /\ phase[t] = "ok" =>
               \E j \in DOMAIN messages : j > i /\ messages[j] = [role |-> "assistant", of |-> t]
    BY <1>4 DEF ConversationIsWhole
  <2>2. i \in DOMAIN messages' /\ messages'[i] = messages[i]
    BY <1>1, <1>2
  <2>3. \A j \in DOMAIN messages : j \in DOMAIN messages' /\ messages'[j] = messages[j]
    BY <1>1, <1>2
  <2>4. ASSUME phase'[t] = "ok"
        PROVE  \E j \in DOMAIN messages' : j > i /\ messages'[j] = [role |-> "assistant", of |-> t]
    <3>1. PICK j \in DOMAIN messages : j > i /\ messages[j] = [role |-> "assistant", of |-> t]
      BY <1>4, <2>1, <2>4
    <3>2. QED BY <2>3, <3>1
  <2>5. QED BY <2>1, <2>2, <2>4, Zenon
<1>5. CASE t = s /\ m = Asked(s) /\ phase'[s] # "ok"
  <2>1. Len(messages) + 1 \in DOMAIN messages'
    BY <1>1, <1>2
  <2>2. QED BY <1>2, <1>5, <2>1 DEF Asked
<1>6. CASE t = s /\ m = Answered(s) /\ phase[s] # "idle"
  <2>1. PICK i \in DOMAIN messages : messages[i] = [role |-> "user", of |-> s]
    BY <1>6 DEF ConversationIsWhole
  <2>2. i \in DOMAIN messages' /\ messages'[i] = messages[i] /\ Len(messages) + 1 > i
        /\ Len(messages) + 1 \in DOMAIN messages'
    BY <1>1, <1>2
  <2>3. QED BY <1>2, <1>6, <2>1, <2>2 DEF Answered
<1>7. CASE t # s
  BY <1>3, <1>4, <1>7
<1>8. CASE t = s
  BY <1>3, <1>5, <1>6, <1>8
<1>9. QED BY <1>7, <1>8

LEMMA InitClient == Client!Init => ClientInv
<1> SUFFICES ASSUME Client!Init PROVE ClientInv
  OBVIOUS
<1>1. messages = <<>> /\ phase = [s \in Send |-> "idle"]
  BY DEF Client!Init
<1>2. /\ messages \in Seq([role : {"user", "assistant"}, of : Send]) /\ phase \in [Send -> Phase] /\ text \subseteq Send
      /\ via \in [Send -> Client!Kind]
  BY DEF Client!Init, Phase, Client!Kind
<1>3. modules \in Seq(Client!Kind)
  <2>1. "mock" \in Client!Kind /\ "rest" \in Client!Kind
    BY DEF Client!Kind
  <2>2. modules \in {<<>>, <<"mock">>, <<"mock", "rest">>}
    BY DEF Client!Init
  <2>3. CASE modules = <<>>
    BY <2>3
  <2>4. CASE modules = <<"mock">>
    BY <2>1, <2>4
  <2>5. CASE modules = <<"mock", "rest">>
    <3>1. <<"mock">> \in Seq(Client!Kind) /\ modules = Append(<<"mock">>, "rest")
      BY <2>1, <2>5
    <3>2. QED BY <2>1, <3>1
  <2>6. QED BY <2>2, <2>3, <2>4, <2>5
<1>4. /\ backend \in [preferred : Client!Kind, active : SUBSET Client!Kind, state : Client!Connection, lastError : BOOLEAN]
      /\ experience \in [widget : {"closed", "open", "minimized"}, connection : Client!Connection, lastError : BOOLEAN]
  BY DEF Client!Init, Client!Connection
<1>5. OneJob /\ NewIsEmpty /\ ConversationIsWhole /\ StatusesAgree
  BY <1>1 DEF OneJob, NewIsEmpty, ConversationIsWhole, StatusesAgree, Jobs
<1>6. QED BY <1>2, <1>3, <1>4, <1>5 DEF ClientInv, ClientTypes

(* A step that leaves the conversation and the sends alone. *)
LEMMA PageKeeps ==
  ASSUME ClientInv, UNCHANGED <<conversation, messages, phase, modules>>,
         backend' \in [preferred : Client!Kind, active : SUBSET Client!Kind, state : Client!Connection, lastError : BOOLEAN],
         experience' \in [widget : {"closed", "open", "minimized"}, connection : Client!Connection, lastError : BOOLEAN],
         via' \in [Send -> Client!Kind], text' \subseteq Send,
         backend'.state = backend.state, experience'.connection = experience.connection,
         disposed' # disposed => disposed' = TRUE \/ messages = <<>>,
         ~disposed' => ~disposed,
         page' # page => page' # "new"
  PROVE  ClientInv'
<1>1. ClientTypes /\ OneJob /\ NewIsEmpty /\ ConversationIsWhole /\ StatusesAgree
  BY DEF ClientInv
<1>2. ClientTypes'
  BY <1>1 DEF ClientTypes
<1>3. OneJob'
  BY <1>1 DEF OneJob
<1>4. NewIsEmpty'
  BY <1>1 DEF NewIsEmpty
<1>5. ConversationIsWhole'
  BY <1>1 DEF ConversationIsWhole
<1>6. StatusesAgree'
  <2>1. InFlight' = InFlight
    BY DEF InFlight
  <2>2. QED BY <1>1, <2>1 DEF StatusesAgree
<1>7. QED BY <1>2, <1>3, <1>4, <1>5, <1>6 DEF ClientInv

(* A send begins: the conversation has its question, and it is in flight or *)
(* refused.                                                                 *)
LEMMA SubmitKeeps ==
  ASSUME ClientInv, Client!HandleSubmit
  PROVE  ClientInv'
<1>1. ClientTypes /\ OneJob /\ NewIsEmpty /\ ConversationIsWhole /\ StatusesAgree
  BY DEF ClientInv
<1>2. page = "up" /\ page' \in {"up", "down"} /\ UNCHANGED <<disposed, modules, text>>
  BY DEF Client!HandleSubmit, Client!CanClick, Client!Render
<1>3. \A t \in Send : phase[t] \notin Jobs
  BY DEF Client!HandleSubmit, Client!CanClick, Client!Quiet, Client!Jobs, Jobs
<1>4. CASE UNCHANGED <<backend, conversation, messages, experience, phase, via>>
  BY <1>1, <1>2, <1>4, PageKeeps DEF ClientTypes
<1>5. CASE \E s \in text : phase[s] = "idle" /\ Client!SendUserMessage(s)
  <2>1. PICK s \in text : phase[s] = "idle" /\ Client!SendUserMessage(s)
    BY <1>5
  <2>2. s \in Send
    BY <1>1, <2>1 DEF ClientTypes
  <2>3. /\ messages' = Append(messages, Asked(s)) /\ conversation' = [status |-> "sending", lastError |-> FALSE]
        /\ experience' = [widget |-> "open", connection |-> "sending", lastError |-> FALSE]
    BY <2>1 DEF Client!SendUserMessage, Asked
  <2>4. \/ /\ modules = <<>> \/ disposed
           /\ phase' = [phase EXCEPT ![s] = "refused"] /\ UNCHANGED <<backend, via>>
        \/ /\ modules # <<>> /\ phase' = [phase EXCEPT ![s] = "sending"]
           /\ via' = [via EXCEPT ![s] = Client!ResolveModule]
           /\ backend' = [backend EXCEPT !.active = {Client!ResolveModule}, !.state = "sending"]
    BY <2>1 DEF Client!SendUserMessage
  <2>5. Asked(s) \in [role : {"user", "assistant"}, of : Send]
    BY <2>2 DEF Asked
  <2>6. phase' \in [Send -> Phase] /\ phase'[s] \in {"refused", "sending"}
        /\ \A t \in Send : t # s => phase'[t] = phase[t]
    BY <1>1, <2>2, <2>4 DEF ClientTypes, Phase
  <2>7. ClientTypes'
    <3>1. messages' \in Seq([role : {"user", "assistant"}, of : Send])
      BY <1>1, <2>3, <2>5 DEF ClientTypes
    <3>2. experience' \in [widget : {"closed", "open", "minimized"}, connection : Client!Connection, lastError : BOOLEAN]
      BY <2>3 DEF Client!Connection
    <3>3. modules # <<>> => Client!ResolveModule \in Client!Kind
      BY <1>1 DEF ClientTypes, Client!ResolveModule
    <3>4. "sending" \in Client!Connection
      BY DEF Client!Connection
    <3>5. via' \in [Send -> Client!Kind]
      BY <1>1, <2>2, <2>4, <3>3 DEF ClientTypes
    <3>6. backend' \in [preferred : Client!Kind, active : SUBSET Client!Kind, state : Client!Connection, lastError : BOOLEAN]
      <4>1. CASE backend' = backend
        BY <1>1, <4>1 DEF ClientTypes
      <4>2. CASE modules # <<>> /\ backend' = [backend EXCEPT !.active = {Client!ResolveModule}, !.state = "sending"]
        <5>1. PICK active : active = {Client!ResolveModule}
          OBVIOUS
        <5>2. active \in SUBSET Client!Kind /\ backend' = [backend EXCEPT !.active = active, !.state = "sending"]
          BY <3>3, <4>2, <5>1
        <5>3. QED BY <1>1, <3>4, <5>2 DEF ClientTypes
      <4>3. QED BY <2>4, <4>1, <4>2
    <3>7. QED BY <1>1, <1>2, <2>6, <3>1, <3>2, <3>5, <3>6 DEF ClientTypes
  <2>8. OneJob'
    <3>1. \A t \in Send : t # s => phase'[t] \notin Jobs
      BY <1>3, <2>6
    <3>2. phase'[s] = "refused" => modules = <<>> \/ disposed
      BY <1>1, <2>2, <2>4 DEF ClientTypes
    <3>3. phase'[s] # "answered"
      BY <2>6
    <3>4. QED BY <1>2, <3>1, <3>2, <3>3 DEF OneJob, Jobs
  <2>9. ConversationIsWhole'
    BY <1>1, <2>1, <2>2, <2>3, <2>5, <2>6, ConversationGrows
  <2>10. NewIsEmpty' /\ StatusesAgree'
    <3>1. s \in InFlight'
      BY <2>2, <2>6 DEF InFlight, Jobs
    <3>2. QED BY <1>2, <3>1 DEF NewIsEmpty, StatusesAgree
  <2>11. QED BY <2>7, <2>8, <2>9, <2>10 DEF ClientInv
<1>6. QED BY <1>4, <1>5 DEF Client!HandleSubmit, Client!serviceVars

(* The backend module answers or fails, and the conversation waits for the  *)
(* continuation.                                                            *)
LEMMA AnswersKeep ==
  ASSUME ClientInv, NEW s \in Send, Client!ModuleAnswers(s) \/ Client!ModuleFails(s)
  PROVE  ClientInv'
<1>1. ClientTypes /\ OneJob /\ NewIsEmpty /\ ConversationIsWhole /\ StatusesAgree
  BY DEF ClientInv
<1>2. /\ phase[s] = "sending" /\ \A t \in Send : phase[t] \notin Jobs
      /\ UNCHANGED <<page, disposed, text, modules, conversation, messages, experience, via>>
  BY DEF Client!ModuleAnswers, Client!ModuleFails, Client!Quiet, Client!pageVars, Client!formVars, Client!Jobs, Jobs
<1>3. /\ \/ phase' = [phase EXCEPT ![s] = "answered"] /\ backend'.state = "ready"
         \/ phase' = [phase EXCEPT ![s] = "refused"] /\ backend'.state = "error"
      /\ backend' \in [preferred : Client!Kind, active : SUBSET Client!Kind, state : Client!Connection, lastError : BOOLEAN]
  <2>1. "ready" \in Client!Connection /\ "error" \in Client!Connection /\ via[s] \in Client!Kind
    BY <1>1 DEF Client!Connection, ClientTypes
  <2>2. CASE Client!ModuleAnswers(s)
    BY <1>1, <2>1, <2>2 DEF Client!ModuleAnswers, ClientTypes
  <2>3. CASE Client!ModuleFails(s)
    BY <1>1, <2>1, <2>3 DEF Client!ModuleFails, ClientTypes
  <2>4. QED BY <2>2, <2>3
<1>4. phase' \in [Send -> Phase] /\ phase'[s] \in {"answered", "refused"}
      /\ \A t \in Send : t # s => phase'[t] = phase[t]
  BY <1>1, <1>3 DEF ClientTypes, Phase
<1>5. ClientTypes'
  BY <1>1, <1>2, <1>3, <1>4 DEF ClientTypes
<1>6. OneJob'
  <2>1. \A t \in Send : t # s => phase'[t] \notin Jobs
    BY <1>2, <1>4
  <2>2. /\ phase'[s] = "answered" => backend'.state = "ready"
        /\ phase'[s] = "refused" => backend'.state = "error"
    BY <1>1, <1>3 DEF ClientTypes
  <2>3. QED BY <2>1, <2>2 DEF OneJob, Jobs
<1>7. ConversationIsWhole'
  <2>1. \A t \in Send : (phase'[t] # "idle" => phase[t] # "idle") /\ (phase'[t] = "ok" => phase[t] = "ok")
    BY <1>2, <1>4
  <2>2. QED BY <1>1, <1>2, <2>1 DEF ConversationIsWhole
<1>8. NewIsEmpty' /\ StatusesAgree'
  <2>1. s \in InFlight'
    BY <1>4 DEF InFlight, Jobs
  <2>2. QED BY <1>1, <1>2, <2>1 DEF NewIsEmpty, StatusesAgree
<1>9. QED BY <1>5, <1>6, <1>7, <1>8 DEF ClientInv

(* What the three services say of the connection is of the same promise. *)
LEMMA ContinuesKeep ==
  ASSUME ClientInv, NEW s \in Send, Client!SendSucceeds(s) \/ Client!SendFails(s)
  PROVE  ClientInv'
<1>1. ClientTypes /\ OneJob /\ NewIsEmpty /\ ConversationIsWhole /\ StatusesAgree
  BY DEF ClientInv
<1>2. /\ phase[s] \in Jobs /\ page' \in {page, "down"} /\ text' \subseteq text
      /\ UNCHANGED <<disposed, modules, backend, via>>
  BY DEF Client!SendSucceeds, Client!SendFails, Client!Render, Client!geoVars, Jobs
<1>3. \/ /\ phase[s] = "answered" /\ phase' = [phase EXCEPT ![s] = "ok"]
         /\ messages' = Append(messages, Answered(s))
         /\ conversation'.status = "ready"
         /\ experience' = [experience EXCEPT !.connection = "ready", !.lastError = FALSE]
      \/ /\ phase[s] = "refused" /\ phase' = [phase EXCEPT ![s] = "failed"]
         /\ messages' = messages
         /\ conversation'.status = "error"
         /\ experience' = [experience EXCEPT !.connection = "error", !.lastError = TRUE]
  BY DEF Client!SendSucceeds, Client!SendFails, Client!SetConnectionState, Answered
<1>4. phase' \in [Send -> Phase] /\ phase'[s] \in {"ok", "failed"}
      /\ \A t \in Send : t # s => phase'[t] = phase[t]
  BY <1>1, <1>3 DEF ClientTypes, Phase
<1>5. Answered(s) \in [role : {"user", "assistant"}, of : Send]
  BY DEF Answered
<1>6. ClientTypes'
  <2>1. messages' \in Seq([role : {"user", "assistant"}, of : Send])
    <3>1. messages' = messages \/ messages' = Append(messages, Answered(s))
      BY <1>3
    <3>2. PICK Message : Message = [role : {"user", "assistant"}, of : Send]
      OBVIOUS
    <3>3. messages \in Seq(Message) /\ Answered(s) \in Message
      BY <1>1, <1>5, <3>2 DEF ClientTypes
    <3>4. messages' \in Seq(Message)
      <4>1. CASE messages' = messages
        BY <3>3, <4>1
      <4>2. CASE messages' = Append(messages, Answered(s))
        BY <3>3, <4>2
      <4>3. QED BY <3>1, <4>1, <4>2
    <3>5. QED BY <3>2, <3>4
  <2>2. experience' \in [widget : {"closed", "open", "minimized"}, connection : Client!Connection, lastError : BOOLEAN]
    BY <1>1, <1>3 DEF ClientTypes, Client!Connection
  <2>3. QED BY <1>1, <1>2, <1>4, <2>1, <2>2 DEF ClientTypes
<1>7. OneJob'
  <2>1. \A t \in Send : phase'[t] \notin Jobs
    BY <1>1, <1>2, <1>4 DEF OneJob, Jobs
  <2>2. QED BY <2>1 DEF OneJob, Jobs
<1>8. ConversationIsWhole'
  <2>1. CASE messages' = messages /\ phase'[s] # "ok"
    <3>1. \A t \in Send : (phase'[t] # "idle" => phase[t] # "idle") /\ (phase'[t] = "ok" => phase[t] = "ok")
      BY <1>2, <1>4, <2>1 DEF Jobs
    <3>2. QED BY <1>1, <2>1, <3>1 DEF ConversationIsWhole
  <2>2. CASE phase[s] = "answered" /\ phase'[s] = "ok" /\ messages' = Append(messages, Answered(s))
    BY <1>1, <1>4, <1>5, <2>2, ConversationGrows
  <2>3. QED BY <1>1, <1>3, <2>1, <2>2 DEF ClientTypes
<1>9. NewIsEmpty'
  <2>1. messages # <<>>
    BY <1>1, <1>2 DEF ConversationIsWhole, Jobs
  <2>2. QED BY <1>1, <1>2, <2>1 DEF NewIsEmpty
<1>10. StatusesAgree'
  <2>1. experience'.connection = conversation'.status
    BY <1>1, <1>3 DEF ClientTypes
  <2>2. modules # <<>> /\ ~disposed => backend.state = conversation'.status
    BY <1>1, <1>3 DEF OneJob
  <2>3. QED BY <1>2, <2>1, <2>2 DEF StatusesAgree
<1>11. QED BY <1>6, <1>7, <1>8, <1>9, <1>10 DEF ClientInv

(* Every step keeps the invariant. *)
LEMMA ClientKeeps ==
  ASSUME ClientInv, [Client!Next]_(Client!vars)
  PROVE  ClientInv'
<1>1. ClientTypes /\ OneJob /\ NewIsEmpty /\ ConversationIsWhole /\ StatusesAgree
  BY DEF ClientInv
<1>2. CASE UNCHANGED Client!vars
  BY <1>1, <1>2, PageKeeps DEF Client!vars, Client!serviceVars, Client!pageVars, Client!formVars, Client!geoVars, ClientTypes
<1>3. CASE Client!Mount
  <2>1. messages = <<>> /\ page' = "up"
    BY <1>1, <1>3 DEF Client!Mount, NewIsEmpty
  <2>2. UNCHANGED <<modules, backend, conversation, messages, experience, phase, via, text>>
    BY <1>3 DEF Client!Mount, Client!serviceVars, Client!formVars
  <2>3. \A t \in Send : phase[t] = "idle"
    BY <1>1, <2>1 DEF ConversationIsWhole
  <2>4. QED BY <1>1, <2>1, <2>2, <2>3
        DEF ClientInv, ClientTypes, OneJob, NewIsEmpty, ConversationIsWhole, StatusesAgree, Jobs
<1>4. CASE Client!Unmount
  BY <1>1, <1>4, PageKeeps DEF Client!Unmount, Client!serviceVars, Client!formVars, Client!geoVars, ClientTypes
<1>5. CASE Client!Frame
  BY <1>1, <1>5, PageKeeps DEF Client!Frame, Client!serviceVars, Client!pageVars, Client!formVars, Client!geoVars, ClientTypes
<1>6. CASE \E s \in Send : Client!Type(s)
  BY <1>1, <1>6, PageKeeps
     DEF Client!Type, Client!Render, Client!CanClick, Client!serviceVars, Client!geoVars, ClientTypes
<1>7. CASE \E widget \in {"closed", "open", "minimized"} : Client!SetWidgetState(widget)
  BY <1>1, <1>7, PageKeeps
     DEF Client!SetWidgetState, Client!Render, Client!CanClick, Client!formVars, Client!geoVars, ClientTypes
<1>8. CASE \E kind \in Client!Kind : Client!SetPreferredAdapter(kind)
  <2>1. PICK kind \in Client!Kind : Client!SetPreferredAdapter(kind)
    BY <1>8
  <2>2. /\ page = "up" /\ page' \in {page, "down"}
        /\ UNCHANGED <<disposed, modules, conversation, messages, experience, phase, via, text>>
    BY <2>1 DEF Client!SetPreferredAdapter, Client!Render, Client!CanClick, Client!formVars
  <2>3. backend' = [backend EXCEPT !.preferred = kind]
    BY <2>1 DEF Client!SetPreferredAdapter
  <2>4. /\ backend'.state = backend.state
        /\ backend' \in [preferred : Client!Kind, active : SUBSET Client!Kind, state : Client!Connection, lastError : BOOLEAN]
    BY <1>1, <2>3 DEF ClientTypes
  <2>5. QED BY <1>1, <2>2, <2>4, PageKeeps DEF ClientTypes
<1>9. CASE \E l \in Locate : Client!UseBrowserLocation(l) \/ Client!Located(l) \/ Client!LocationFails(l)
  <2>1. /\ page' \in {page, "down"}
        /\ UNCHANGED <<disposed, modules, backend, conversation, messages, experience, phase, via, text>>
    BY <1>9 DEF Client!UseBrowserLocation, Client!Located, Client!LocationFails, Client!Render, Client!serviceVars,
                Client!formVars
  <2>2. QED BY <1>1, <2>1, PageKeeps DEF ClientTypes
<1>10. QED BY <1>2, <1>3, <1>4, <1>5, <1>6, <1>7, <1>8, <1>9, SubmitKeeps, AnswersKeep, ContinuesKeep
       DEF Client!Next, Client!Continues, Client!Answers

(* Every question asked and every answer that came stay in the conversation, *)
(* in that order, however sends overlap (sendUserMessage).                  *)
THEOREM NothingSaidIsLost == Client!Spec => []ConversationIsWhole
<1>1. ClientInv => ConversationIsWhole
  BY DEF ClientInv
<1>2. QED BY <1>1, InitClient, ClientKeeps, PTL DEF Client!Spec

(* When no send is in flight the three services that report on the          *)
(* connection say the same of it (sendUserMessage, sendMessage).            *)
THEOREM ServicesAgree == Client!Spec => []StatusesAgree
<1>1. ClientInv => StatusesAgree
  BY DEF ClientInv
<1>2. QED BY <1>1, InitClient, ClientKeeps, PTL DEF Client!Spec

-----------------------------------------------------------------------------
(* TelemetryGateway *)

Slot == 0..MaxQueue - 1
Entry == [seq : Nat, name : Gateway!Name, device : SUBSET Device, poll : Nat] \cup {Gateway!NoRecord}
Wrap(a) == a % MaxQueue
At(c, i) == c.ring[Wrap(c.head + i - 1)]
Collectors == [ring : [Slot -> Entry], head : Slot, tail : Slot, size : 0..MaxQueue,
               seq : Nat, dropped : Nat, written : Seq(Entry)]

(* The ring goes from head to tail and holds the newest; the sink's are     *)
(* older.                                                                   *)
Sound(c) ==
  /\ c \in Collectors
  /\ c.tail = Wrap(c.head + c.size)
  /\ Len(c.written) + c.size + c.dropped = c.seq
  /\ \A i \in 1..c.size : At(c, i).seq = c.seq - c.size + i
  /\ \A i, j \in 1..Len(c.written) : i < j => c.written[i].seq < c.written[j].seq
  /\ \A i \in 1..Len(c.written) : c.written[i].seq <= c.seq - c.size

(* The records of a collector, oldest first: those written, then those of   *)
(* the ring.                                                                *)
Many(c) == Len(c.written) + c.size
Nth(c, i) == IF i <= Len(c.written) THEN c.written[i] ELSE At(c, i - Len(c.written))
SameRecords(c, next) == Many(next) = Many(c) /\ \A i \in 1..Many(c) : Nth(next, i) = Nth(c, i)
OneMore(c, next, r) ==
  /\ Many(next) = Many(c) + 1 /\ Nth(next, Many(c) + 1) = r
  /\ \A i \in 1..Many(c) : Nth(next, i) = Nth(c, i)

(* What they tell of a device. *)
Outage(c, d, p) ==
  \E k \in 1..Many(c) :
    /\ Disconnects(Nth(c, k), d) /\ FirstMissed(Nth(c, k)) <= p
    /\ \A j \in 1..Many(c) : j > k /\ Reconnects(Nth(c, j), d) => Nth(c, j).poll >= p
TellsSame(c, next, d) == \A p \in Int : Outage(next, d, p) <=> Outage(c, d, p)

(* What a collector becomes. *)
Grows(c, next) == Sound(next) /\ next.dropped >= c.dropped

(* A set that holds zero, and with a number its successor, holds them all. *)
LEMMA NatInduct ==
  ASSUME NEW S, 0 \in S, \A n \in Nat : n \in S => n + 1 \in S
  PROVE  Nat \subseteq S
<1>1. SUFFICES ASSUME NEW k \in Nat, k \notin S PROVE FALSE
  OBVIOUS
<1>2. PICK Missing : Missing = {0..i : i \in Nat \ S}
  OBVIOUS
<1>3. PICK Smaller : Smaller = StrictSubsetOrdering(Nat)
  OBVIOUS
<1>4. Missing \subseteq FiniteSubsetsOf(Nat) /\ Missing # {}
  <2>1. \A i \in Nat : 0..i \in SUBSET Nat /\ IsFiniteSet(0..i)
    BY FS_Interval
  <2>2. QED BY <1>1, <1>2, <2>1 DEF FiniteSubsetsOf
<1>5. PICK x \in Missing : \A y \in Missing : <<y, x>> \notin Smaller
  BY <1>3, <1>4, FS_StrictSubsetOrderingWellFounded, WFMin
<1>6. PICK i \in Nat : i \notin S /\ x = 0..i
  BY <1>2, <1>5
<1>7. i # 0 /\ i - 1 \in Nat /\ i - 1 \notin S
  <2>1. i # 0
    BY <1>6
  <2>2. i - 1 \in Nat /\ (i - 1) + 1 = i
    BY <1>6, <2>1
  <2>3. QED BY <1>6, <2>1, <2>2
<1>8. 0..(i - 1) \in Missing
  BY <1>2, <1>7
<1>9. 0..(i - 1) \in SUBSET Nat /\ 0..i \in SUBSET Nat /\ 0..(i - 1) \subseteq 0..i
  BY <1>6, <1>7
<1>10. 0..(i - 1) # 0..i
  <2>1. i \in 0..i /\ i \notin 0..(i - 1)
    BY <1>6, <1>7
  <2>2. QED BY <2>1
<1>11. <<0..(i - 1), x>> \in Smaller
  BY <1>3, <1>6, <1>9, <1>10 DEF StrictSubsetOrdering
<1>12. QED BY <1>5, <1>8, <1>11

(* Remainders around the ring. *)
LEMMA Around ==
  ASSUME NEW a \in 0..2 * MaxQueue - 1
  PROVE  Wrap(a) \in Slot /\ Wrap(a) = IF a < MaxQueue THEN a ELSE a - MaxQueue
<1>1. MaxQueue \in Nat \ {0}
  BY QueueHasRoom
<1>2. CASE a < MaxQueue
  <2>1. a \in 0..MaxQueue - 1
    BY <1>1, <1>2
  <2>2. a % MaxQueue = a
    BY <1>1, <2>1
  <2>3. QED BY <1>2, <2>1, <2>2 DEF Slot, Wrap
<1>3. CASE ~(a < MaxQueue)
  <2>1. a \in MaxQueue..2 * MaxQueue - 1
    BY <1>1, <1>3
  <2>2. a % MaxQueue = a - MaxQueue
    BY <1>1, <2>1
  <2>3. a - MaxQueue \in 0..MaxQueue - 1
    BY <1>1, <2>1
  <2>4. QED BY <1>3, <2>2, <2>3 DEF Slot, Wrap
<1>4. QED BY <1>2, <1>3

LEMMA GrowsOn ==
  ASSUME NEW c, NEW next, NEW last, Sound(c), Grows(c, next), Grows(next, last)
  PROVE  Grows(c, last)
<1>1. c.dropped \in Nat /\ next.dropped \in Nat /\ last.dropped \in Nat
  BY DEF Grows, Sound, Collectors
<1>2. QED BY <1>1 DEF Grows

LEMMA NoneDropped ==
  ASSUME NEW c, NEW next, Sound(c), Grows(c, next), next.dropped = 0
  PROVE  c.dropped = 0
<1>1. c.dropped \in Nat /\ next.dropped >= c.dropped
  BY DEF Grows, Sound, Collectors
<1>2. QED BY <1>1

LEMMA GrowsNot == ASSUME NEW c, Sound(c) PROVE Grows(c, c)
<1>1. c.dropped \in Nat
  BY DEF Sound, Collectors
<1>2. QED BY <1>1 DEF Grows

(* A function over an interval, and two sequences one after the other. *)
LEMMA AsSequence ==
  ASSUME NEW S, NEW n \in Nat, NEW f \in [1..n -> S]
  PROVE  f \in Seq(S) /\ Len(f) = n
OBVIOUS

LEMMA Joined ==
  ASSUME NEW S, NEW p \in Seq(S), NEW q \in Seq(S), NEW pq, pq = p \o q
  PROVE  /\ pq \in Seq(S) /\ Len(p) \in Nat /\ Len(q) \in Nat /\ Len(pq) = Len(p) + Len(q)
         /\ \A i \in 1..Len(p) : pq[i] = p[i]
         /\ \A i \in 1..Len(q) : pq[Len(p) + i] = q[i]
OBVIOUS

LEMMA ManyIs == ASSUME NEW c, Sound(c) PROVE Many(c) \in Nat
BY QueueHasRoom DEF Many, Sound, Collectors

(* What is flushed goes to the end of the sink's records, in order. *)
LEMMA FlushKeeps ==
  ASSUME NEW c, Sound(c)
  PROVE  Grows(c, Gateway!Flush(c)) /\ SameRecords(c, Gateway!Flush(c))
<1>1. CASE c.size = 0
  BY <1>1, GrowsNot DEF Gateway!Flush, SameRecords
<1>2. CASE c.size # 0
  <2>1. /\ c \in Collectors /\ c.size \in 0..MaxQueue /\ c.head \in Slot /\ c.seq \in Nat /\ c.dropped \in Nat
        /\ c.written \in Seq(Entry) /\ c.ring \in [Slot -> Entry] /\ MaxQueue \in Nat \ {0}
    BY QueueHasRoom DEF Sound, Collectors
  <2>2. PICK queued : queued = Gateway!Queued(c)
    OBVIOUS
  <2>3. \A i \in 1..c.size : c.head + i - 1 \in 0..2 * MaxQueue - 1 /\ At(c, i) \in Entry
    <3>1. \A i \in 1..c.size : c.head + i - 1 \in 0..2 * MaxQueue - 1
      BY <2>1 DEF Slot
    <3>2. QED BY <2>1, <3>1, Around DEF At
  <2>4. queued = [i \in 1..c.size |-> At(c, i)]
    BY <2>2 DEF Gateway!Queued, At, Wrap
  <2>5. /\ queued \in Seq(Entry) /\ Len(queued) = c.size /\ \A i \in 1..c.size : queued[i] = At(c, i)
    <3>1. queued \in [1..c.size -> Entry] /\ c.size \in Nat
      BY <2>1, <2>3, <2>4
    <3>2. QED BY <2>4, <3>1, AsSequence
  <2>6. PICK next : next = Gateway!Flush(c)
    OBVIOUS
  <2>7. PICK written1 : written1 = c.written \o queued
    OBVIOUS
  <2>8. /\ written1 \in Seq(Entry) /\ Len(written1) = Len(c.written) + c.size /\ Len(c.written) \in Nat
        /\ \A i \in 1..Len(c.written) : written1[i] = c.written[i]
        /\ \A i \in 1..c.size : written1[Len(c.written) + i] = At(c, i)
    <3>1. /\ written1 \in Seq(Entry) /\ Len(written1) = Len(c.written) + Len(queued) /\ Len(c.written) \in Nat
          /\ \A i \in 1..Len(c.written) : written1[i] = c.written[i]
          /\ \A i \in 1..Len(queued) : written1[Len(c.written) + i] = queued[i]
      <4>1. c.written \in Seq(Entry) /\ queued \in Seq(Entry)
        BY <2>1, <2>5
      <4>2. PICK old : old = c.written
        OBVIOUS
      <4>3. written1 = old \o queued /\ old \in Seq(Entry)
        BY <2>7, <4>1, <4>2
      <4>4. /\ written1 \in Seq(Entry) /\ Len(old) \in Nat /\ Len(written1) = Len(old) + Len(queued)
            /\ \A i \in 1..Len(old) : written1[i] = old[i]
            /\ \A i \in 1..Len(queued) : written1[Len(old) + i] = queued[i]
        BY <4>1, <4>3, Joined
      <4>5. QED BY <4>2, <4>4, Zenon
    <3>2. QED BY <2>5, <3>1
  <2>9. PICK ring1 \in [Slot -> Entry] :
          next = [c EXCEPT !.ring = ring1, !.head = (c.head + c.size) % MaxQueue, !.size = 0, !.written = written1]
    <3>1. PICK empty : empty = [i \in DOMAIN c.ring |-> Gateway!NoRecord]
      OBVIOUS
    <3>2. empty \in [Slot -> Entry]
      BY <2>1, <3>1 DEF Entry
    <3>3. next = [c EXCEPT !.ring = empty, !.head = (c.head + c.size) % MaxQueue, !.size = 0,
                           !.written = written1]
      BY <1>2, <2>2, <2>6, <2>7, <3>1, Zenon DEF Gateway!Flush
    <3>4. QED BY <3>2, <3>3, Zenon
  <2>10. (c.head + c.size) % MaxQueue \in Slot /\ (c.head + c.size) % MaxQueue = c.tail
    BY DEF Sound, Collectors, Wrap
  <2>11. /\ next \in Collectors /\ next.head = c.tail /\ next.tail = c.tail /\ next.size = 0
         /\ next.seq = c.seq /\ next.dropped = c.dropped /\ next.written = written1
    <3>1. PICK head1 : head1 = (c.head + c.size) % MaxQueue
      OBVIOUS
    <3>2. head1 \in Slot /\ head1 = c.tail /\ written1 \in Seq(Entry) /\ 0 \in 0..MaxQueue
      BY <2>1, <2>8, <2>10, <3>1
    <3>3. next = [c EXCEPT !.ring = ring1, !.head = head1, !.size = 0, !.written = written1]
      BY <2>9, <3>1
    <3>4. next \in Collectors
      BY <2>1, <3>2, <3>3 DEF Collectors
    <3>5. QED BY <2>1, <3>2, <3>3, <3>4 DEF Collectors
  <2>12. next.tail = Wrap(next.head + next.size)
    <3>1. c.tail \in 0..MaxQueue - 1
      BY <2>1 DEF Collectors, Slot
    <3>2. c.tail \in 0..2 * MaxQueue - 1 /\ c.tail < MaxQueue /\ c.tail + 0 = c.tail
      BY <2>1, <3>1
    <3>3. c.tail = Wrap(c.tail)
      BY <3>2, Around
    <3>4. QED BY <2>11, <3>2, <3>3
  <2>13. ASSUME NEW i \in 1..Len(written1)
         PROVE  /\ written1[i].seq <= c.seq
                /\ \A j \in 1..Len(written1) : j < i => written1[j].seq < written1[i].seq
    <3>1. \A k \in 1..Len(c.written) : c.written[k].seq \in Nat /\ c.written[k].seq <= c.seq - c.size
      BY <2>1 DEF Sound, Entry, Gateway!NoRecord
    <3>2. \A k \in 1..c.size : At(c, k).seq = c.seq - c.size + k
      BY DEF Sound
    <3>3. CASE i \in 1..Len(c.written)
      <4>1. \A j \in 1..Len(written1) : j < i => j \in 1..Len(c.written)
        BY <2>8, <3>3
      <4>2. written1[i] = c.written[i] /\ \A j \in 1..Len(c.written) : written1[j] = c.written[j]
        BY <2>8, <3>3
      <4>3. \A j \in 1..Len(written1) : j < i => written1[j].seq < written1[i].seq
        BY <3>3, <4>1, <4>2 DEF Sound
      <4>4. c.written[i].seq \in Nat /\ c.written[i].seq <= c.seq - c.size
        BY <3>1, <3>3
      <4>5. PICK x \in Nat, q \in Nat, m \in Nat :
              x = c.written[i].seq /\ q = c.seq /\ m = c.size /\ x <= q - m
        BY <2>1, <4>4
      <4>6. \A a, b, n \in Nat : a <= b - n => a <= b
        OBVIOUS
      <4>7. x <= q
        BY <4>5, <4>6, Zenon
      <4>8. QED BY <4>2, <4>3, <4>5, <4>7, Zenon
    <3>4. CASE i \notin 1..Len(c.written)
      <4>1. PICK k \in 1..c.size : i = Len(c.written) + k
        <5>1. i - Len(c.written) \in 1..c.size
          BY <2>1, <2>8, <3>4
        <5>2. QED BY <2>8, <5>1
      <4>2. written1[i].seq = c.seq - c.size + k
        BY <2>8, <3>2, <4>1
      <4>3. ASSUME NEW j \in 1..Len(written1), j < i
            PROVE  written1[j].seq < written1[i].seq
        <5>1. CASE j \in 1..Len(c.written)
          <6>1. written1[j] = c.written[j] /\ c.written[j].seq \in Nat /\ c.written[j].seq <= c.seq - c.size
            BY <2>8, <3>1, <5>1
          <6>2. PICK x \in Nat, q \in Nat, m \in Nat : x = c.written[j].seq /\ q = c.seq /\ m = c.size
            BY <2>1, <6>1
          <6>3. x <= q - m /\ k \in 1..m
            BY <4>1, <6>1, <6>2
          <6>4. x < q - m + k
            BY <6>2, <6>3
          <6>5. QED BY <4>2, <6>1, <6>2, <6>4, Zenon
        <5>2. CASE j \notin 1..Len(c.written)
          <6>1. j - Len(c.written) \in 1..c.size /\ j = Len(c.written) + (j - Len(c.written))
            BY <2>1, <2>8, <5>2
          <6>2. written1[j].seq = c.seq - c.size + (j - Len(c.written))
            BY <2>8, <3>2, <6>1
          <6>3. QED BY <2>1, <2>8, <4>1, <4>2, <4>3, <6>1, <6>2
        <5>3. QED BY <5>1, <5>2
      <4>4. written1[i].seq <= c.seq
        <5>1. PICK q \in Nat, m \in Nat : q = c.seq /\ m = c.size
          BY <2>1
        <5>2. q - m + k <= q
          BY <4>1, <5>1
        <5>3. QED BY <4>2, <5>1, <5>2, Zenon
      <4>5. QED BY <4>3, <4>4
    <3>5. QED BY <3>3, <3>4
  <2>14. Sound(next)
    BY <2>1, <2>8, <2>11, <2>12, <2>13 DEF Sound
  <2>15. SameRecords(c, next)
    <3>1. PICK n, m : n = Len(c.written) /\ m = c.size
      OBVIOUS
    <3>2. /\ n \in Nat /\ m \in Nat /\ Many(c) = n + m /\ Len(next.written) = n + m /\ Many(next) = n + m
          /\ next.written = written1
      BY <2>1, <2>8, <2>11, <3>1 DEF Many
    <3>3. ASSUME NEW i \in 1..n + m
          PROVE  Nth(next, i) = Nth(c, i)
      <4>1. Nth(next, i) = written1[i]
        BY <3>2 DEF Nth
      <4>2. CASE i <= n
        <5>1. i \in 1..n /\ Nth(c, i) = c.written[i]
          BY <3>1, <3>2, <4>2 DEF Nth
        <5>2. QED BY <2>8, <3>1, <4>1, <5>1
      <4>3. CASE ~(i <= n)
        <5>1. i - n \in 1..m /\ n + (i - n) = i /\ Nth(c, i) = At(c, i - n)
          BY <3>1, <3>2, <4>3 DEF Nth
        <5>2. written1[n + (i - n)] = At(c, i - n)
          BY <2>8, <3>1, <5>1
        <5>3. QED BY <4>1, <5>1, <5>2
      <4>4. QED BY <4>2, <4>3
    <3>4. QED BY <3>2, <3>3 DEF SameRecords
  <2>16. QED BY <2>1, <2>6, <2>11, <2>14, <2>15 DEF Grows
<1>3. QED BY <1>1, <1>2

(* The record of log goes behind the newest; in a full ring the oldest      *)
(* makes room.                                                              *)
LEMMA AddedIs ==
  ASSUME NEW c, Sound(c), NEW record \in Entry, NEW added, added = Gateway!Added(c, record)
  PROVE  \E ring1, head1, size0, dropped1 :
           /\ added \in Collectors /\ added.seq = c.seq + 1 /\ added.head = head1 /\ added.size = size0 + 1
           /\ added.dropped = dropped1 /\ added.ring = ring1 /\ added.tail = Wrap(c.tail + 1)
           /\ added.written = c.written /\ size0 \in 0..MaxQueue - 1
           /\ ring1[c.tail] = record /\ \A k \in Slot : k # c.tail => ring1[k] = c.ring[k]
           /\ c.size = MaxQueue => head1 = Wrap(c.head + 1) /\ size0 = c.size - 1 /\ dropped1 = c.dropped + 1
           /\ c.size # MaxQueue => head1 = c.head /\ size0 = c.size /\ dropped1 = c.dropped
<1>1. PICK c0 \in Collectors : c0 = c
  BY DEF Sound
<1>2. PICK r, h, t, s, q, d, w : /\ r = c0.ring /\ h = c0.head /\ t = c0.tail /\ s = c0.size /\ q = c0.seq
                                 /\ d = c0.dropped /\ w = c0.written
  OBVIOUS
<1>3. /\ r \in [Slot -> Entry] /\ h \in Slot /\ t \in Slot /\ s \in 0..MaxQueue
      /\ q \in Nat /\ d \in Nat /\ w \in Seq(Entry)
  BY <1>2 DEF Collectors
<1>4. PICK t1 : t1 = Wrap(t + 1)
  OBVIOUS
<1>5. PICK h1 : h1 = IF s = MaxQueue THEN Wrap(h + 1) ELSE h
  OBVIOUS
<1>6. PICK s0 : s0 = IF s = MaxQueue THEN s - 1 ELSE s
  OBVIOUS
<1>7. PICK d1 : d1 = IF s = MaxQueue THEN d + 1 ELSE d
  OBVIOUS
<1>8. PICK r1 : r1 = [r EXCEPT ![t] = record]
  OBVIOUS
<1>9. t1 \in Slot /\ h1 \in Slot
  <2>1. MaxQueue \in Nat \ {0} /\ t + 1 \in 0..2 * MaxQueue - 1 /\ h + 1 \in 0..2 * MaxQueue - 1
    BY <1>3, QueueHasRoom DEF Slot
  <2>2. Wrap(t + 1) \in Slot /\ Wrap(h + 1) \in Slot
    BY <2>1, Around
  <2>3. QED BY <1>3, <1>4, <1>5, <2>2
<1>10. s0 \in 0..MaxQueue - 1 /\ s0 + 1 \in 0..MaxQueue /\ d1 \in Nat /\ q + 1 \in Nat
  BY <1>3, <1>6, <1>7, QueueHasRoom
<1>11. r1 \in [Slot -> Entry] /\ r1[t] = record /\ \A k \in Slot : k # t => r1[k] = r[k]
  BY <1>3, <1>8
<1>12. added = [c0 EXCEPT !.seq = q + 1, !.head = h1, !.size = s0 + 1, !.dropped = d1, !.ring = r1, !.tail = t1]
  <2>1. s0 + 1 = IF s = MaxQueue THEN s ELSE s + 1
    BY <1>3, <1>6
  <2>2. QED BY <1>1, <1>2, <1>4, <1>5, <1>7, <1>8, <2>1, Zenon DEF Gateway!Added, Wrap
<1>13. PICK q1 \in Nat, s1 \in 0..MaxQueue : q1 = q + 1 /\ s1 = s0 + 1
  BY <1>10
<1>14. added = [c0 EXCEPT !.seq = q1, !.head = h1, !.size = s1, !.dropped = d1, !.ring = r1, !.tail = t1]
  BY <1>12, <1>13
<1>15. /\ added \in Collectors /\ added.seq = q1 /\ added.head = h1 /\ added.size = s1
       /\ added.dropped = d1 /\ added.ring = r1 /\ added.tail = t1 /\ added.written = c0.written
  BY <1>9, <1>10, <1>11, <1>13, <1>14 DEF Collectors
<1>16. QED BY <1>1, <1>2, <1>4, <1>5, <1>6, <1>7, <1>10, <1>11, <1>13, <1>15

(* The record of log goes behind the newest; in a full ring the oldest      *)
(* makes room.                                                              *)

(* Where the records of the ring are, before and after: s records from h to *)
(* t, of which the oldest may be given up.                                  *)
Turned(h, s, t, moved, h1) ==
  /\ h \in 0..MaxQueue - 1 /\ s \in 0..MaxQueue /\ t \in 0..MaxQueue - 1 /\ t = Wrap(h + s)
  /\ s = MaxQueue => moved = 1 /\ h1 = Wrap(h + 1)
  /\ s # MaxQueue => moved = 0 /\ h1 = h

InPlace(h, s, t, moved, h1) ==
  /\ \A i \in 1..s - moved : /\ i + moved \in 1..s /\ Wrap(h1 + i - 1) = Wrap(h + (i + moved) - 1)
                             /\ Wrap(h1 + i - 1) \in Slot /\ Wrap(h1 + i - 1) # t
  /\ Wrap(h1 + (s - moved)) = t
  /\ Wrap(h1 + (s - moved + 1)) = Wrap(t + 1)

LEMMA Places ==
  ASSUME NEW h, NEW s, NEW t, NEW moved, NEW h1, Turned(h, s, t, moved, h1)
  PROVE  InPlace(h, s, t, moved, h1)
<1>0. /\ h \in 0..MaxQueue - 1 /\ s \in 0..MaxQueue /\ t \in 0..MaxQueue - 1 /\ t = Wrap(h + s)
      /\ s = MaxQueue => moved = 1 /\ h1 = Wrap(h + 1)
      /\ s # MaxQueue => moved = 0 /\ h1 = h
  BY DEF Turned
<1>1. MaxQueue \in Nat \ {0} /\ moved \in {0, 1} /\ s - moved \in 0..MaxQueue - 1
  BY <1>0, QueueHasRoom
<1>2. t = IF h + s < MaxQueue THEN h + s ELSE h + s - MaxQueue
  <2>1. h + s \in 0..2 * MaxQueue - 1
    BY <1>0, <1>1
  <2>2. QED BY <1>0, <1>1, <2>1, Around
<1>3. h1 \in 0..MaxQueue - 1 /\ h1 = IF h + moved < MaxQueue THEN h + moved ELSE h + moved - MaxQueue
  <2>1. h + 1 \in 0..2 * MaxQueue - 1
    BY <1>0, <1>1
  <2>2. PICK n : n = Wrap(h + 1)
    OBVIOUS
  <2>3. n \in 0..MaxQueue - 1 /\ n = IF h + 1 < MaxQueue THEN h + 1 ELSE h + 1 - MaxQueue
    BY <1>0, <1>1, <2>1, <2>2, Around DEF Slot
  <2>4. h1 = IF s = MaxQueue THEN n ELSE h
    BY <1>0, <2>2
  <2>5. QED BY <1>0, <1>1, <2>3, <2>4
<1>4. ASSUME NEW i \in 1..s - moved
      PROVE  /\ i + moved \in 1..s /\ Wrap(h1 + i - 1) = Wrap(h + (i + moved) - 1)
             /\ Wrap(h1 + i - 1) \in Slot /\ Wrap(h1 + i - 1) # t
  <2>1. h1 + i - 1 \in 0..2 * MaxQueue - 1 /\ h + (i + moved) - 1 \in 0..2 * MaxQueue - 1 /\ i + moved \in 1..s
    BY <1>0, <1>1, <1>3
  <2>2. PICK k, n : k = Wrap(h1 + i - 1) /\ n = Wrap(h + (i + moved) - 1)
    OBVIOUS
  <2>3. k \in Slot /\ k = IF h1 + i - 1 < MaxQueue THEN h1 + i - 1 ELSE h1 + i - 1 - MaxQueue
    BY <1>0, <1>1, <2>1, <2>2, Around
  <2>4. n = IF h + (i + moved) - 1 < MaxQueue THEN h + (i + moved) - 1 ELSE h + (i + moved) - 1 - MaxQueue
    BY <1>0, <1>1, <2>1, <2>2, Around
  <2>5. k = n /\ k # t
    BY <1>0, <1>1, <1>2, <1>3, <2>3, <2>4 DEF Slot
  <2>6. QED BY <2>1, <2>2, <2>3, <2>5
<1>5. Wrap(h1 + (s - moved)) = t
  <2>1. h1 + (s - moved) \in 0..2 * MaxQueue - 1
    BY <1>0, <1>1, <1>3
  <2>2. PICK k : k = Wrap(h1 + (s - moved))
    OBVIOUS
  <2>3. k = IF h1 + (s - moved) < MaxQueue THEN h1 + (s - moved) ELSE h1 + (s - moved) - MaxQueue
    BY <1>0, <1>1, <2>1, <2>2, Around
  <2>4. k = t
    BY <1>0, <1>1, <1>2, <1>3, <2>3
  <2>5. QED BY <2>2, <2>4
<1>6. Wrap(h1 + (s - moved + 1)) = Wrap(t + 1)
  <2>1. h1 + (s - moved + 1) \in 0..2 * MaxQueue - 1 /\ t + 1 \in 0..2 * MaxQueue - 1
    BY <1>0, <1>1, <1>3
  <2>2. PICK k, n : k = Wrap(h1 + (s - moved + 1)) /\ n = Wrap(t + 1)
    OBVIOUS
  <2>3. k = IF h1 + (s - moved + 1) < MaxQueue THEN h1 + (s - moved + 1) ELSE h1 + (s - moved + 1) - MaxQueue
    BY <1>0, <1>1, <2>1, <2>2, Around
  <2>4. n = IF t + 1 < MaxQueue THEN t + 1 ELSE t + 1 - MaxQueue
    BY <1>0, <1>1, <2>1, <2>2, Around
  <2>5. k = n
    BY <1>0, <1>1, <1>2, <1>3, <2>3, <2>4
  <2>6. QED BY <2>2, <2>5
<1>7. QED BY <1>4, <1>5, <1>6 DEF InPlace

LEMMA AddKeeps ==
  ASSUME NEW c, Sound(c), NEW record \in Entry, record.seq = c.seq + 1, NEW added, added = Gateway!Added(c, record)
  PROVE  Grows(c, added) /\ (added.dropped = 0 => OneMore(c, added, record))
<1>1. PICK ring1, head1, size0, dropped1 :
        /\ added \in Collectors /\ added.seq = c.seq + 1 /\ added.head = head1 /\ added.size = size0 + 1
        /\ added.dropped = dropped1 /\ added.ring = ring1 /\ added.tail = Wrap(c.tail + 1)
        /\ added.written = c.written /\ size0 \in 0..MaxQueue - 1
        /\ ring1[c.tail] = record /\ \A k \in Slot : k # c.tail => ring1[k] = c.ring[k]
        /\ c.size = MaxQueue => head1 = Wrap(c.head + 1) /\ size0 = c.size - 1 /\ dropped1 = c.dropped + 1
        /\ c.size # MaxQueue => head1 = c.head /\ size0 = c.size /\ dropped1 = c.dropped
  BY AddedIs
<1>2. PICK r, h, t, s, q, d, w : /\ r = c.ring /\ h = c.head /\ t = c.tail /\ s = c.size /\ q = c.seq
                                 /\ d = c.dropped /\ w = c.written
  OBVIOUS
<1>3. /\ h \in 0..MaxQueue - 1 /\ t \in 0..MaxQueue - 1 /\ s \in 0..MaxQueue /\ q \in Nat /\ d \in Nat
      /\ w \in Seq(Entry) /\ Len(w) \in Nat /\ t = Wrap(h + s) /\ Len(w) + s + d = q
      /\ \A i \in 1..s : At(c, i).seq = q - s + i
      /\ \A i, j \in 1..Len(w) : i < j => w[i].seq < w[j].seq
      /\ \A i \in 1..Len(w) : w[i].seq <= q - s
  BY <1>2 DEF Sound, Collectors, Slot
<1>4. PICK moved : moved = IF s = MaxQueue THEN 1 ELSE 0
  OBVIOUS
<1>5. /\ moved \in {0, 1} /\ size0 = s - moved /\ dropped1 = d + moved /\ dropped1 \in Nat /\ size0 \in Nat
      /\ head1 = (IF s = MaxQueue THEN Wrap(h + 1) ELSE h)
  <2>1. CASE s = MaxQueue
    BY <1>1, <1>2, <1>3, <1>4, <2>1
  <2>2. CASE s # MaxQueue
    BY <1>1, <1>2, <1>3, <1>4, <2>2
  <2>3. QED BY <2>1, <2>2
<1>6. /\ \A i \in 1..s - moved : /\ i + moved \in 1..s /\ Wrap(head1 + i - 1) = Wrap(h + (i + moved) - 1)
                                 /\ Wrap(head1 + i - 1) \in Slot /\ Wrap(head1 + i - 1) # t
      /\ Wrap(head1 + (s - moved)) = t
      /\ Wrap(head1 + (s - moved + 1)) = Wrap(t + 1)
  <2>1. Turned(h, s, t, moved, head1)
    BY <1>3, <1>4, <1>5 DEF Turned
  <2>2. QED BY <2>1, Places DEF InPlace
<1>7. ASSUME NEW i \in 1..size0
      PROVE  At(added, i) = At(c, i + moved) /\ i + moved \in 1..s
  <2>1. PICK k : k = Wrap(head1 + i - 1)
    OBVIOUS
  <2>2. k \in Slot /\ k # t /\ k = Wrap(h + (i + moved) - 1) /\ i + moved \in 1..s
    BY <1>5, <1>6, <2>1
  <2>3. ring1[k] = r[k]
    BY <1>1, <1>2, <2>2
  <2>4. At(added, i) = ring1[k] /\ At(c, i + moved) = r[k]
    BY <1>1, <1>2, <2>1, <2>2 DEF At
  <2>5. QED BY <2>2, <2>3, <2>4
<1>8. At(added, size0 + 1) = record
  <2>1. head1 \in Int
    <3>1. h + 1 \in 0..2 * MaxQueue - 1
      BY <1>3, QueueHasRoom
    <3>2. Wrap(h + 1) \in Slot
      BY <3>1, Around
    <3>3. QED BY <1>3, <1>5, <3>2, QueueHasRoom DEF Slot
  <2>2. head1 + (size0 + 1) - 1 = head1 + (s - moved)
    BY <1>3, <1>5, <2>1
  <2>3. QED BY <1>1, <1>2, <1>6, <2>2 DEF At
<1>9. added.tail = Wrap(added.head + added.size)
  BY <1>1, <1>2, <1>5, <1>6
<1>10. ASSUME NEW i \in 1..size0 + 1
       PROVE  At(added, i).seq = (q + 1) - (size0 + 1) + i
  <2>1. CASE i = size0 + 1
    BY <1>2, <1>3, <1>5, <1>8, <2>1
  <2>2. CASE i # size0 + 1
    <3>1. i \in 1..size0
      BY <1>5, <2>2
    <3>2. At(added, i).seq = q - s + (i + moved)
      BY <1>3, <1>7, <3>1
    <3>3. QED BY <1>3, <1>5, <3>1, <3>2
  <2>3. QED BY <2>1, <2>2
<1>11. Sound(added)
  <2>1. Len(w) + (size0 + 1) + dropped1 = q + 1
    BY <1>3, <1>5, QueueHasRoom
  <2>2. ASSUME NEW i \in 1..Len(w)
        PROVE  w[i].seq <= (q + 1) - (size0 + 1)
    <3>1. w[i].seq \in Nat
      BY <1>3 DEF Entry, Gateway!NoRecord
    <3>2. w[i].seq <= q - s
      BY <1>3
    <3>3. QED BY <1>3, <1>5, <3>1, <3>2
  <2>3. PICK size1, seq1 : size1 = size0 + 1 /\ seq1 = q + 1
    OBVIOUS
  <2>4. /\ added.seq = seq1 /\ added.size = size1 /\ added.dropped = dropped1 /\ added.written = w
        /\ added \in Collectors
    BY <1>1, <1>2, <2>3
  <2>5. /\ Len(w) + size1 + dropped1 = seq1
        /\ \A i \in 1..size1 : At(added, i).seq = seq1 - size1 + i
        /\ \A i \in 1..Len(w) : w[i].seq <= seq1 - size1
    BY <1>10, <2>1, <2>2, <2>3
  <2>6. QED BY <1>3, <1>9, <2>4, <2>5 DEF Sound
<1>12. ASSUME dropped1 = 0
       PROVE  OneMore(c, added, record)
  <2>1. size0 = s /\ moved = 0
    BY <1>3, <1>5, <1>12
  <2>2. PICK n : n = Len(w)
    OBVIOUS
  <2>3. n \in Nat /\ s \in Nat /\ Many(c) = n + s /\ Many(added) = n + s + 1
    BY <1>1, <1>2, <1>3, <2>1, <2>2 DEF Many
  <2>4. ASSUME NEW i \in 1..n + s
        PROVE  Nth(added, i) = Nth(c, i)
    <3>1. CASE i <= n
      BY <1>1, <1>2, <2>2, <3>1 DEF Nth
    <3>2. CASE ~(i <= n)
      <4>1. i - n \in 1..size0 /\ (i - n) + moved = i - n
        BY <2>1, <2>3, <3>2
      <4>2. At(added, i - n) = At(c, i - n)
        BY <1>7, <4>1
      <4>3. QED BY <1>1, <1>2, <2>2, <3>2, <4>2 DEF Nth
    <3>3. QED BY <3>1, <3>2
  <2>5. Nth(added, n + s + 1) = record
    <3>1. (n + s + 1) - n = size0 + 1 /\ ~(n + s + 1 <= n)
      BY <2>1, <2>3
    <3>2. Nth(added, n + s + 1) = At(added, size0 + 1)
      BY <1>1, <1>2, <2>2, <3>1 DEF Nth
    <3>3. QED BY <1>8, <3>2
  <2>6. QED BY <2>3, <2>4, <2>5 DEF OneMore
<1>14. added.dropped >= c.dropped
  BY <1>1, <1>2, <1>3, <1>5
<1>15. QED BY <1>1, <1>11, <1>12, <1>14 DEF Grows

(* A record that is logged is behind the others, in the ring or written,    *)
(* unless there is no collector or a record is dropped.                     *)
LEMMA LogKeeps ==
  ASSUME NEW c, Sound(c), NEW name \in Gateway!Name, NEW device \in SUBSET Device, NEW at \in Nat,
         NEW next, next = Gateway!Log(c, name, device, at)
  PROVE  /\ Grows(c, next)
         /\ telemetry /\ next.dropped = 0 =>
              \E r : r.name = name /\ r.device = device /\ r.poll = at /\ OneMore(c, next, r)
<1>1. CASE ~telemetry
  <2>1. next = c
    BY <1>1 DEF Gateway!Log
  <2>2. QED BY <1>1, <2>1, GrowsNot
<1>2. CASE telemetry
  <2>1. PICK record : record = [seq |-> c.seq + 1, name |-> name, device |-> device, poll |-> at]
    OBVIOUS
  <2>2. record \in Entry /\ record.seq = c.seq + 1 /\ record.name = name /\ record.device = device
        /\ record.poll = at
    <3>1. PICK q \in Nat : q = c.seq + 1
      BY DEF Sound, Collectors
    <3>2. PICK AllNames : AllNames = Gateway!Name
      OBVIOUS
    <3>3. record = [seq |-> q, name |-> name, device |-> device, poll |-> at] /\ name \in AllNames
      BY <2>1, <3>1, <3>2
    <3>4. /\ record \in [seq : Nat, name : AllNames, device : SUBSET Device, poll : Nat]
          /\ record.seq = q /\ record.name = name /\ record.device = device /\ record.poll = at
      BY <3>3
    <3>5. QED BY <3>1, <3>2, <3>4 DEF Entry
  <2>3. PICK added : added = Gateway!Added(c, record)
    OBVIOUS
  <2>4. Grows(c, added) /\ (added.dropped = 0 => OneMore(c, added, record))
    BY <2>2, <2>3, AddKeeps
  <2>5. next = added \/ next = Gateway!Flush(added)
    BY <1>2, <2>1, <2>3 DEF Gateway!Log
  <2>6. Sound(added) /\ Grows(added, next) /\ SameRecords(added, next)
    <3>1. Sound(added)
      BY <2>4 DEF Grows
    <3>2. SameRecords(added, added)
      BY DEF SameRecords
    <3>3. QED BY <2>5, <3>1, <3>2, FlushKeeps, GrowsNot
  <2>7. Grows(c, next)
    BY <2>4, <2>6, GrowsOn
  <2>8. ASSUME next.dropped = 0
        PROVE  OneMore(c, next, record)
    <3>1. added.dropped = 0
      BY <2>6, <2>8, NoneDropped
    <3>2. Many(c) \in Nat
      BY ManyIs
    <3>3. OneMore(c, added, record)
      BY <2>4, <3>1
    <3>4. QED BY <2>6, <3>2, <3>3 DEF OneMore, SameRecords
  <2>9. QED BY <2>2, <2>7, <2>8
<1>3. QED BY <1>1, <1>2

(* What one more record changes of what is told: a disconnection opens an   *)
(* outage, a connection closes it behind its poll.                          *)
LEMMA MoreTells ==
  ASSUME NEW c, Sound(c), NEW next, NEW r, OneMore(c, next, r), NEW d, r.poll \in Nat
  PROVE  /\ ~Disconnects(r, d) /\ ~Reconnects(r, d) => TellsSame(c, next, d)
         /\ Disconnects(r, d) =>
              \A p \in Int : Outage(next, d, p) <=> FirstMissed(r) <= p \/ Outage(c, d, p)
         /\ Reconnects(r, d) =>
              \A p \in Int : Outage(next, d, p) <=> p <= r.poll /\ Outage(c, d, p)
<1>1. PICK n \in Nat : n = Many(c)
  BY ManyIs
<1>2. /\ Many(next) = n + 1 /\ Nth(next, n + 1) = r
      /\ \A i \in 1..n : Nth(next, i) = Nth(c, i)
      /\ n + 1 \in 1..n + 1 /\ \A i \in 1..n + 1 : i = n + 1 \/ i \in 1..n
      /\ \A i \in 1..n : i \in 1..n + 1 /\ n + 1 > i
  BY <1>1 DEF OneMore
<1>3. ~(Disconnects(r, d) /\ Reconnects(r, d))
  BY DEF Disconnects, Reconnects
<1> DEFINE Open(k, p) == /\ Disconnects(Nth(c, k), d) /\ FirstMissed(Nth(c, k)) <= p
                         /\ \A j \in 1..n : j > k /\ Reconnects(Nth(c, j), d) => Nth(c, j).poll >= p
           NowOpen(k, p) == /\ Disconnects(Nth(next, k), d) /\ FirstMissed(Nth(next, k)) <= p
                            /\ \A j \in 1..n + 1 : j > k /\ Reconnects(Nth(next, j), d) => Nth(next, j).poll >= p
<1>4. \A p : /\ Outage(c, d, p) <=> \E k \in 1..n : Open(k, p)
             /\ Outage(next, d, p) <=> \E k \in 1..n + 1 : NowOpen(k, p)
  BY <1>1, <1>2 DEF Outage
<1>5. ASSUME NEW p, NEW k \in 1..n
      PROVE  NowOpen(k, p) <=> Open(k, p) /\ (Reconnects(r, d) => r.poll >= p)
  BY <1>2
<1>6. ASSUME NEW p
      PROVE  NowOpen(n + 1, p) <=> Disconnects(r, d) /\ FirstMissed(r) <= p
  <2>1. \A j \in 1..n + 1 : ~(j > n + 1)
    OBVIOUS
  <2>2. QED BY <1>2, <2>1
<1> HIDE DEF Open, NowOpen
<1>7. \A p : Outage(next, d, p) <=> \/ Outage(c, d, p) /\ (Reconnects(r, d) => r.poll >= p)
                                    \/ Disconnects(r, d) /\ FirstMissed(r) <= p
  BY <1>2, <1>4, <1>5, <1>6
<1>8. \A p \in Int : r.poll >= p <=> p <= r.poll
  OBVIOUS
<1>9. QED BY <1>3, <1>7, <1>8 DEF TellsSame

LEMMA SameTells ==
  ASSUME NEW c, NEW next, SameRecords(c, next), NEW d
  PROVE  TellsSame(c, next, d)
BY DEF SameRecords, TellsSame, Outage

(* A record that is about no device changes nothing that is told. *)
LEMMA LogElse ==
  ASSUME NEW c, Sound(c), NEW name \in Gateway!Name, NEW at \in Nat, NEW device \in SUBSET Device,
         NEW next, next = Gateway!Log(c, name, device, at), telemetry, next.dropped = 0,
         NEW d, device # {d} \/ name \notin {"disconnected", "forced", "connected"}
  PROVE  TellsSame(c, next, d)
<1>1. PICK r : r.name = name /\ r.device = device /\ r.poll = at /\ OneMore(c, next, r)
  BY LogKeeps
<1>2. ~Disconnects(r, d) /\ ~Reconnects(r, d)
  BY <1>1 DEF Disconnects, Reconnects
<1>3. QED BY <1>1, <1>2, MoreTells

(* What its poll makes of what is told of a device, if it is told to be     *)
(* away from the next poll on just when it is.                              *)
Upcoming(c, d) == \A p \in Int : p > poll => (Outage(c, d, p) <=> ~connected[d])
Follows(c, next, d, fine) ==
  \A p \in Int :
    /\ p <= poll => (Outage(next, d, p) <=> Outage(c, d, p))
    /\ p = poll + 1 => (Outage(next, d, p) <=> ~(connected[d] /\ fine))
    /\ p > poll + 1 => (Outage(next, d, p) <=> ~(fine /\ (connected[d] \/ Gateway!Tried(d))))

LEMMA StillFollows ==
  ASSUME NEW c, NEW next, NEW d, NEW fine, poll \in Nat, Upcoming(c, d), TellsSame(c, next, d),
         IF connected[d] THEN fine ELSE ~(fine /\ Gateway!Tried(d))
  PROVE  Follows(c, next, d, fine)
<1>1. Gateway!Tried(d) => ~connected[d]
  BY DEF Gateway!Tried
<1>2. SUFFICES ASSUME NEW p \in Int
               PROVE  /\ p <= poll => (Outage(next, d, p) <=> Outage(c, d, p))
                      /\ p = poll + 1 => (Outage(next, d, p) <=> ~(connected[d] /\ fine))
                      /\ p > poll + 1 =>
                           (Outage(next, d, p) <=> ~(fine /\ (connected[d] \/ Gateway!Tried(d))))
  BY DEF Follows
<1>3. Outage(next, d, p) <=> Outage(c, d, p)
  BY DEF TellsSame
<1>4. p > poll => (Outage(c, d, p) <=> ~connected[d])
  BY DEF Upcoming
<1>5. p = poll + 1 \/ p > poll + 1 => p > poll
  OBVIOUS
<1>6. QED BY <1>1, <1>3, <1>4, <1>5

LEMMA FollowsSame ==
  ASSUME NEW c, NEW mid, NEW next, NEW d, NEW fine,
         \/ Follows(c, mid, d, fine) /\ TellsSame(mid, next, d)
         \/ TellsSame(c, mid, d) /\ Follows(mid, next, d, fine)
  PROVE  Follows(c, next, d, fine)
<1>1. CASE Follows(c, mid, d, fine) /\ TellsSame(mid, next, d)
  BY <1>1 DEF Follows, TellsSame
<1>2. CASE TellsSame(c, mid, d) /\ Follows(mid, next, d, fine)
  BY <1>2 DEF Follows, TellsSame
<1>3. QED BY <1>1, <1>2

LEMMA ToldKeeps ==
  ASSUME NEW c, Sound(c), poll \in Nat, NEW d \in Device, NEW fine, NEW next, next = Gateway!Told(c, d, fine)
  PROVE  /\ Grows(c, next)
         /\ telemetry /\ next.dropped = 0 =>
              /\ \A e \in Device \ {d} : TellsSame(c, next, e)
              /\ Upcoming(c, d) => Follows(c, next, d, fine)
<1>1. /\ "disconnected" \in Gateway!Name /\ "attempt" \in Gateway!Name /\ "connected" \in Gateway!Name
      /\ {d} \in SUBSET Device /\ poll + 1 \in Nat /\ \A e \in Device \ {d} : {d} # {e}
  BY DEF Gateway!Name
<1>2. CASE connected[d] /\ ~fine
  <2>1. next = Gateway!Log(c, "disconnected", {d}, poll + 1)
    BY <1>2 DEF Gateway!Told, Gateway!Tried
  <2>2. Grows(c, next)
    BY <1>1, <2>1, LogKeeps
  <2>3. ASSUME telemetry, next.dropped = 0
        PROVE  /\ \A e \in Device \ {d} : TellsSame(c, next, e)
               /\ Follows(c, next, d, fine)
    <3>1. \A e \in Device \ {d} : TellsSame(c, next, e)
      BY <1>1, <2>1, <2>3, LogElse
    <3>2. PICK r : r.name = "disconnected" /\ r.device = {d} /\ r.poll = poll + 1 /\ OneMore(c, next, r)
      BY <1>1, <2>1, <2>3, LogKeeps
    <3>3. Disconnects(r, d) /\ FirstMissed(r) = poll + 1
      BY <3>2 DEF Disconnects, FirstMissed
    <3>4. \A p \in Int : Outage(next, d, p) <=> poll + 1 <= p \/ Outage(c, d, p)
      BY <1>1, <3>2, <3>3, MoreTells
    <3>5. Follows(c, next, d, fine)
      BY <1>2, <3>4 DEF Follows
    <3>6. QED BY <3>1, <3>5
  <2>4. QED BY <2>2, <2>3
<1>3. CASE Gateway!Tried(d) /\ fine
  <2>1. PICK tried : tried = Gateway!Log(c, "attempt", {d}, poll + 1)
    OBVIOUS
  <2>2. next = Gateway!Log(tried, "connected", {d}, poll + 1) /\ ~connected[d]
    BY <1>3, <2>1 DEF Gateway!Told, Gateway!Tried
  <2>3. Grows(c, tried)
    BY <1>1, <2>1, LogKeeps
  <2>4. Sound(tried)
    BY <2>3 DEF Grows
  <2>5. Grows(tried, next)
    BY <1>1, <2>2, <2>4, LogKeeps
  <2>6. Grows(c, next)
    BY <2>3, <2>5, GrowsOn
  <2>7. ASSUME telemetry, next.dropped = 0
        PROVE  /\ \A e \in Device \ {d} : TellsSame(c, next, e)
               /\ Upcoming(c, d) => Follows(c, next, d, fine)
    <3>1. tried.dropped = 0
      BY <2>4, <2>5, <2>7, NoneDropped
    <3>2. \A e \in Device : TellsSame(c, tried, e)
      <4>1. "attempt" \notin {"disconnected", "forced", "connected"}
        OBVIOUS
      <4>2. QED BY <1>1, <2>1, <2>7, <3>1, <4>1, LogElse
    <3>3. \A e \in Device \ {d} : TellsSame(tried, next, e)
      BY <1>1, <2>2, <2>4, <2>7, LogElse
    <3>4. \A e \in Device \ {d} : TellsSame(c, next, e)
      BY <3>2, <3>3 DEF TellsSame
    <3>5. PICK r : r.name = "connected" /\ r.device = {d} /\ r.poll = poll + 1 /\ OneMore(tried, next, r)
      BY <1>1, <2>2, <2>4, <2>7, LogKeeps
    <3>6. Reconnects(r, d)
      BY <3>5 DEF Reconnects
    <3>7. \A p \in Int : Outage(next, d, p) <=> p <= poll + 1 /\ Outage(tried, d, p)
      BY <1>1, <2>4, <3>5, <3>6, MoreTells
    <3>8. \A p \in Int : Outage(next, d, p) <=> p <= poll + 1 /\ Outage(c, d, p)
      BY <3>2, <3>7 DEF TellsSame
    <3>9. ASSUME Upcoming(c, d), NEW p \in Int
          PROVE  /\ p <= poll => (Outage(next, d, p) <=> Outage(c, d, p))
                 /\ p = poll + 1 => Outage(next, d, p)
                 /\ p > poll + 1 => ~Outage(next, d, p)
      <4>1. p = poll + 1 => Outage(c, d, p)
        BY <2>2, <3>9 DEF Upcoming
      <4>2. QED BY <3>8, <4>1
    <3>10. Upcoming(c, d) => Follows(c, next, d, fine)
      BY <1>3, <2>2, <3>9 DEF Follows
    <3>11. QED BY <3>4, <3>10
  <2>8. QED BY <2>6, <2>7
<1>4. CASE Gateway!Tried(d) /\ ~fine
  <2>1. next = Gateway!Log(c, "attempt", {d}, poll + 1) /\ ~connected[d]
    BY <1>4 DEF Gateway!Told, Gateway!Tried
  <2>2. Grows(c, next)
    BY <1>1, <2>1, LogKeeps
  <2>3. ASSUME telemetry, next.dropped = 0
        PROVE  \A e \in Device : TellsSame(c, next, e)
    <3>1. "attempt" \notin {"disconnected", "forced", "connected"}
      OBVIOUS
    <3>2. QED BY <1>1, <2>1, <2>3, <3>1, LogElse
  <2>4. QED BY <1>4, <2>1, <2>2, <2>3, StillFollows
<1>5. CASE ~(connected[d] /\ ~fine) /\ ~Gateway!Tried(d)
  <2>1. next = c
    BY <1>5 DEF Gateway!Told
  <2>2. \A e \in Device : TellsSame(c, next, e)
    BY <2>1 DEF TellsSame
  <2>3. QED BY <1>5, <2>1, <2>2, GrowsNot, StillFollows
<1>6. QED BY <1>2, <1>3, <1>4, <1>5

(* The collectors of a poll, device after device. *)
Told(before, n, fine) == Gateway!Told(before, DeviceOrder[n], fine[DeviceOrder[n]])
Runs(g, k, fine) == g = [n \in 0..k |-> IF n = 0 THEN Collector ELSE Told(g[n - 1], n, fine)]

LEMMA RunsExist ==
  ASSUME NEW fine, NEW k \in Nat
  PROVE  \E g : Runs(g, k, fine)
<1>1. PICK S : S = {n \in Nat : \E g : Runs(g, n, fine)}
  OBVIOUS
<1>2. 0 \in S
  <2>1. PICK g : g = [n \in 0..0 |-> Collector]
    OBVIOUS
  <2>2. Runs(g, 0, fine)
    BY <2>1 DEF Runs
  <2>3. QED BY <1>1, <2>2
<1>3. ASSUME NEW n \in Nat, n \in S
      PROVE  n + 1 \in S
  <2>1. PICK g : Runs(g, n, fine)
    BY <1>1, <1>3
  <2>2. PICK last : last = Told(g[n], n + 1, fine)
    OBVIOUS
  <2>3. PICK longer : longer = [i \in 0..n + 1 |-> IF i = n + 1 THEN last ELSE g[i]]
    OBVIOUS
  <2>4. \A i \in 0..n : longer[i] = g[i]
    BY <2>3
  <2>5. \A i \in 0..n : g[i] = IF i = 0 THEN Collector ELSE Told(g[i - 1], i, fine)
    BY <2>1 DEF Runs
  <2>6. ASSUME NEW i \in 0..n + 1
        PROVE  longer[i] = IF i = 0 THEN Collector ELSE Told(longer[i - 1], i, fine)
    <3>1. CASE i = n + 1
      <4>1. longer[i] = last /\ i # 0 /\ i - 1 = n /\ longer[n] = g[n]
        BY <2>3, <2>4, <3>1
      <4>2. QED BY <2>2, <3>1, <4>1
    <3>2. CASE i # n + 1
      <4>1. i \in 0..n /\ (i # 0 => i - 1 \in 0..n)
        BY <3>2
      <4>2. longer[i] = g[i] /\ (i # 0 => longer[i - 1] = g[i - 1])
        BY <2>4, <4>1
      <4>3. QED BY <2>5, <4>1, <4>2
    <3>3. QED BY <3>1, <3>2
  <2>7. Runs(longer, n + 1, fine)
    BY <2>3, <2>6 DEF Runs
  <2>8. QED BY <1>1, <2>7
<1>4. Nat \subseteq S
  BY <1>2, <1>3, NatInduct
<1>5. QED BY <1>1, <1>4

LEMMA PolledRuns ==
  ASSUME NEW fine
  PROVE  \E g : Runs(g, Len(DeviceOrder), fine) /\ Gateway!Polled(fine) = g[Len(DeviceOrder)]
<1>1. Len(DeviceOrder) \in Nat
  BY DevicesInOrder
<1>2. PICK after : after = CHOOSE g : Runs(g, Len(DeviceOrder), fine)
  OBVIOUS
<1>3. Runs(after, Len(DeviceOrder), fine)
  BY <1>1, <1>2, RunsExist, Zenon
<1>4. Gateway!Polled(fine) = after[Len(DeviceOrder)]
  BY <1>2 DEF Gateway!Polled, Gateway!Collector, Collector, Runs, Told
<1>5. QED BY <1>3, <1>4

(* The devices that were polled follow, of the others the same is told. *)
PolledTo(next, n, fine) ==
  /\ \A i \in 1..n : Follows(Collector, next, DeviceOrder[i], fine[DeviceOrder[i]])
  /\ \A d \in Device : (\A i \in 1..n : d # DeviceOrder[i]) => TellsSame(Collector, next, d)

LEMMA PolledKeeps ==
  ASSUME Sound(Collector), poll \in Nat, NEW fine, NEW next, next = Gateway!Polled(fine)
  PROVE  /\ Grows(Collector, next)
         /\ telemetry /\ next.dropped = 0 /\ (\A d \in Device : Upcoming(Collector, d)) =>
              \A d \in Device : Follows(Collector, next, d, fine[d])
<1>1. PICK g : Runs(g, Len(DeviceOrder), fine) /\ next = g[Len(DeviceOrder)]
  BY PolledRuns
<1>2. PICK N \in Nat : N = Len(DeviceOrder)
  BY DevicesInOrder
<1>3. g[0] = Collector /\ \A n \in 1..N : g[n] = Told(g[n - 1], n, fine)
  <2>1. g = [n \in 0..N |-> IF n = 0 THEN Collector ELSE Told(g[n - 1], n, fine)]
    BY <1>1, <1>2 DEF Runs
  <2>2. \A n \in 0..N : g[n] = IF n = 0 THEN Collector ELSE Told(g[n - 1], n, fine)
    BY <2>1
  <2>3. 0 \in 0..N /\ \A n \in 1..N : n \in 0..N /\ n # 0
    OBVIOUS
  <2>4. QED BY <2>2, <2>3
<1>4. PICK Told1 :
        Told1 = {n \in Nat : n <= N =>
                   /\ Grows(Collector, g[n])
                   /\ telemetry /\ g[n].dropped = 0 /\ (\A d \in Device : Upcoming(Collector, d)) =>
                        PolledTo(g[n], n, fine)}
  OBVIOUS
<1>5. 0 \in Told1
  <2>1. Grows(Collector, g[0])
    BY <1>3, GrowsNot
  <2>2. PolledTo(g[0], 0, fine)
    BY <1>3 DEF PolledTo, TellsSame
  <2>3. QED BY <1>4, <2>1, <2>2
<1>6. ASSUME NEW n \in Nat, n \in Told1
      PROVE  n + 1 \in Told1
  <2>1. SUFFICES ASSUME n + 1 <= N
                 PROVE  /\ Grows(Collector, g[n + 1])
                        /\ telemetry /\ g[n + 1].dropped = 0 /\ (\A d \in Device : Upcoming(Collector, d)) =>
                             PolledTo(g[n + 1], n + 1, fine)
    BY <1>4
  <2>2. /\ Grows(Collector, g[n])
        /\ telemetry /\ g[n].dropped = 0 /\ (\A d \in Device : Upcoming(Collector, d)) =>
             PolledTo(g[n], n, fine)
    BY <1>2, <1>4, <1>6, <2>1
  <2>3. n + 1 \in 1..N /\ (n + 1) - 1 = n
    BY <1>2, <2>1
  <2>4. PICK d \in Device : d = DeviceOrder[n + 1]
    BY <1>2, <2>3, DevicesInOrder
  <2>5. g[n + 1] = Gateway!Told(g[n], d, fine[d])
    BY <1>3, <2>3, <2>4 DEF Told
  <2>6. Sound(g[n])
    BY <2>2 DEF Grows
  <2>7. /\ Grows(g[n], g[n + 1])
        /\ telemetry /\ g[n + 1].dropped = 0 =>
             /\ \A e \in Device \ {d} : TellsSame(g[n], g[n + 1], e)
             /\ Upcoming(g[n], d) => Follows(g[n], g[n + 1], d, fine[d])
    BY <2>5, <2>6, ToldKeeps
  <2>8. Grows(Collector, g[n + 1])
    BY <2>2, <2>7, GrowsOn
  <2>9. ASSUME telemetry, g[n + 1].dropped = 0, \A e \in Device : Upcoming(Collector, e)
        PROVE  PolledTo(g[n + 1], n + 1, fine)
    <3>1. g[n].dropped = 0
      BY <2>6, <2>7, <2>9, NoneDropped
    <3>2. PolledTo(g[n], n, fine)
      BY <2>2, <2>9, <3>1
    <3>3. \A i \in 1..n : DeviceOrder[i] \in Device \ {d}
      <4>1. \A i \in 1..n : i \in DOMAIN DeviceOrder /\ n + 1 \in DOMAIN DeviceOrder /\ i # n + 1
        BY <1>2, <2>3, DevicesInOrder
      <4>2. QED BY <2>4, <4>1, DevicesInOrder DEF Device
    <3>4. ASSUME NEW i \in 1..n
          PROVE  Follows(Collector, g[n + 1], DeviceOrder[i], fine[DeviceOrder[i]])
      <4>1. TellsSame(g[n], g[n + 1], DeviceOrder[i])
        BY <2>7, <2>9, <3>3
      <4>2. Follows(Collector, g[n], DeviceOrder[i], fine[DeviceOrder[i]])
        BY <3>2 DEF PolledTo
      <4>3. QED BY <4>1, <4>2, FollowsSame
    <3>5. Follows(Collector, g[n + 1], d, fine[d])
      <4>1. TellsSame(Collector, g[n], d)
        BY <3>2, <3>3 DEF PolledTo
      <4>2. Upcoming(g[n], d)
        BY <2>9, <4>1 DEF Upcoming, TellsSame
      <4>3. QED BY <2>7, <2>9, <4>1, <4>2, FollowsSame
    <3>6. ASSUME NEW e \in Device, \A i \in 1..n + 1 : e # DeviceOrder[i]
          PROVE  TellsSame(Collector, g[n + 1], e)
      <4>1. e # d /\ \A i \in 1..n : e # DeviceOrder[i]
        BY <2>3, <2>4, <3>6
      <4>2. TellsSame(Collector, g[n], e) /\ TellsSame(g[n], g[n + 1], e)
        BY <2>7, <2>9, <3>2, <4>1 DEF PolledTo
      <4>3. QED BY <4>2 DEF TellsSame
    <3>7. \A i \in 1..n + 1 : i \in 1..n \/ i = n + 1
      OBVIOUS
    <3>8. QED BY <2>4, <3>4, <3>5, <3>6, <3>7 DEF PolledTo
  <2>10. QED BY <2>8, <2>9
<1>7. N \in Told1
  BY <1>2, <1>5, <1>6, NatInduct
<1>8. /\ Grows(Collector, next)
      /\ telemetry /\ next.dropped = 0 /\ (\A d \in Device : Upcoming(Collector, d)) => PolledTo(next, N, fine)
  BY <1>1, <1>2, <1>4, <1>7
<1>9. \A d \in Device : \E i \in 1..N : d = DeviceOrder[i]
  BY <1>2, DevicesInOrder DEF Device
<1>10. QED BY <1>8, <1>9 DEF PolledTo

(* Unless a record was dropped, the records tell of every device whether it *)
(* is away, not only of the polls that are kept of it: the gap of a later   *)
(* poll is explained by an earlier record.                                  *)
Reflects(c, d) ==
  /\ Upcoming(c, d)
  /\ \A i \in 1..Len(window[d]) : window[d][i] = "gap" <=> Outage(c, d, poll - Len(window[d]) + i)

DevicesOK ==
  connected \in [Device -> BOOLEAN] /\ window \in [Device -> Seq({"reading", "gap"})] /\ poll \in Nat
DevicesToldOf == telemetry /\ dropped = 0 => \A d \in Device : Reflects(Collector, d)
GatewayInv == Sound(Collector) /\ DevicesOK /\ DevicesToldOf

(* The same of a collector after a step. *)
NowReflects(next, d) ==
  /\ \A p \in Int : p > poll' => (Outage(next, d, p) <=> ~connected'[d])
  /\ \A i \in 1..Len(window'[d]) : window'[d][i] = "gap" <=> Outage(next, d, poll' - Len(window'[d]) + i)

LEMMA NowSame ==
  ASSUME DevicesOK', NEW c, NEW next, NEW d \in Device, TellsSame(c, next, d), NowReflects(c, d)
  PROVE  NowReflects(next, d)
<1>1. PICK n \in Nat, q \in Int : n = Len(window'[d]) /\ q = poll'
  BY DEF DevicesOK
<1>2. \A i \in 1..n : q - n + i \in Int
  OBVIOUS
<1>3. QED BY <1>1, <1>2 DEF NowReflects, TellsSame

LEMMA Becoming ==
  ASSUME NEW next \in Collectors, Gateway!Becomes(next)
  PROVE  Collector' = next
BY DEF Collector, Collectors, Gateway!Becomes

LEMMA FreshIsSound == Sound(Gateway!Fresh)
<1>1. PICK fresh : fresh = Gateway!Fresh
  OBVIOUS
<1>2. PICK r \in [Slot -> Entry] : r = [i \in 0..MaxQueue - 1 |-> Gateway!NoRecord]
  BY DEF Slot, Entry
<1>3. PICK w : w = <<>>
  OBVIOUS
<1>4. fresh = [ring |-> r, head |-> 0, tail |-> 0, size |-> 0, seq |-> 0, dropped |-> 0, written |-> w]
  BY <1>1, <1>2, <1>3 DEF Gateway!Fresh
<1>5. 0 \in Slot /\ 0 \in 0..MaxQueue /\ 0 \in Nat
  BY QueueHasRoom DEF Slot
<1>6. Wrap(0 + 0) = 0 /\ w \in Seq(Entry)
  BY <1>3, QueueHasRoom, Around
<1>7. /\ fresh \in Collectors /\ fresh.head = 0 /\ fresh.tail = 0 /\ fresh.size = 0 /\ fresh.seq = 0
      /\ fresh.dropped = 0 /\ fresh.written = w
  BY <1>4, <1>5, <1>6 DEF Collectors
<1>8. Len(w) = 0
  BY <1>3
<1>9. QED BY <1>1, <1>6, <1>7, <1>8 DEF Sound

LEMMA NothingTold == \A d, p : ~Outage(Gateway!Fresh, d, p)
<1>1. Gateway!Fresh.size = 0 /\ Len(Gateway!Fresh.written) = 0
  BY DEF Gateway!Fresh
<1>2. Many(Gateway!Fresh) = 0
  BY <1>1 DEF Many
<1>3. QED BY <1>2 DEF Outage

LEMMA GatewayInit == ASSUME Gateway!Init PROVE GatewayInv
<1>1. Collector = Gateway!Fresh
  BY DEF Gateway!Init, Gateway!Fresh, Collector
<1>2. Sound(Collector)
  BY <1>1, FreshIsSound
<1>3. connected = [d \in Device |-> TRUE] /\ window = [d \in Device |-> <<>>]
  BY DEF Gateway!Init, Gateway!Device, Device
<1>4. DevicesOK
  BY <1>3 DEF DevicesOK, Gateway!Init
<1>5. \A d \in Device : Reflects(Collector, d)
  <2>1. \A d \in Device : connected[d] /\ Len(window[d]) = 0
    BY <1>3
  <2>2. \A d, p : ~Outage(Collector, d, p)
    BY <1>1, NothingTold
  <2>3. QED BY <2>1, <2>2 DEF Reflects, Upcoming
<1>6. QED BY <1>2, <1>4, <1>5 DEF GatewayInv, DevicesToldOf

LEMMA GatewayGrows ==
  ASSUME GatewayInv, NEW next, Grows(Collector, next), Gateway!Becomes(next), UNCHANGED telemetry, DevicesOK',
         telemetry /\ next.dropped = 0 /\ (\A d \in Device : Reflects(Collector, d)) =>
           \A d \in Device : NowReflects(next, d)
  PROVE  GatewayInv'
<1>1. Sound(next) /\ Collector' = next
  BY Becoming DEF Grows, Sound
<1>2. Sound(Collector)'
  BY <1>1
<1>3. dropped' = next.dropped /\ dropped = Collector.dropped
  BY <1>1 DEF Collector
<1>4. dropped \in Nat /\ dropped' \in Nat /\ (dropped' = 0 => dropped = 0)
  BY <1>1, <1>3 DEF GatewayInv, Grows, Sound, Collectors
<1>5. ASSUME telemetry', dropped' = 0, NEW d \in Device
      PROVE  NowReflects(next, d)
  BY <1>3, <1>4, <1>5 DEF GatewayInv, DevicesToldOf
<1>6. DevicesToldOf'
  BY <1>1, <1>5 DEF DevicesToldOf, Reflects, Upcoming, NowReflects
<1>7. QED BY <1>2, <1>6 DEF GatewayInv

LEMMA DevicesStay ==
  ASSUME DevicesOK, UNCHANGED <<connected, window, poll>>, NEW next
  PROVE  /\ DevicesOK'
         /\ (\A d \in Device : Reflects(Collector, d) /\ TellsSame(Collector, next, d)) =>
              \A d \in Device : NowReflects(next, d)
<1>1. DevicesOK'
  BY DEF DevicesOK
<1>2. ASSUME NEW d \in Device, Reflects(Collector, d), TellsSame(Collector, next, d)
      PROVE  NowReflects(next, d)
  <2>1. PICK c : c = Collector
    OBVIOUS
  <2>2. NowReflects(c, d)
    BY <1>2, <2>1 DEF Reflects, Upcoming, NowReflects
  <2>3. QED BY <1>1, <1>2, <2>1, <2>2, NowSame
<1>3. QED BY <1>1, <1>2

LEMMA SameCollector == Gateway!Collector = Collector
BY DEF Gateway!Collector, Collector

LEMMA BootKeeps == ASSUME Gateway!Boot PROVE GatewayInv'
<1>1. PICK fresh : fresh = Gateway!Fresh
  OBVIOUS
<1>2. PICK record : /\ record = [seq |-> 1, name |-> IF calibrated' THEN "initialized" ELSE "failed", device |-> {}, poll |-> 0]
                    /\ Gateway!Becomes(IF telemetry' THEN Gateway!Added(fresh, record) ELSE fresh)
  BY <1>1 DEF Gateway!Boot
<1>3. PICK next : next = IF telemetry' THEN Gateway!Added(fresh, record) ELSE fresh
  OBVIOUS
<1>4. Sound(fresh) /\ fresh.seq = 0
  BY <1>1, FreshIsSound DEF Gateway!Fresh
<1>5. record \in Entry /\ record.seq = fresh.seq + 1
  <2>1. PICK AllNames : AllNames = Gateway!Name
    OBVIOUS
  <2>2. PICK n \in AllNames : record = [seq |-> 1, name |-> n, device |-> {}, poll |-> 0]
    <3>1. "initialized" \in AllNames /\ "failed" \in AllNames
      BY <2>1 DEF Gateway!Name
    <3>2. QED BY <1>2, <3>1
  <2>3. record \in [seq : Nat, name : AllNames, device : SUBSET Device, poll : Nat] /\ record.seq = 1
    BY <2>2
  <2>4. QED BY <1>4, <2>1, <2>3 DEF Entry
<1>6. Sound(next)
  <2>1. PICK added : added = Gateway!Added(fresh, record)
    OBVIOUS
  <2>2. Sound(added)
    BY <1>4, <1>5, <2>1, AddKeeps DEF Grows
  <2>3. QED BY <1>3, <1>4, <2>1, <2>2
<1>7. Collector' = next
  <2>1. next \in Collectors
    BY <1>6 DEF Sound
  <2>2. Gateway!Becomes(next)
    BY <1>2, <1>3
  <2>3. QED BY <2>1, <2>2, Becoming
<1>8. connected' = [d \in Device |-> TRUE] /\ window' = [d \in Device |-> <<>>]
  BY DEF Gateway!Boot, Gateway!Device, Device
<1>9. DevicesOK'
  BY <1>8 DEF DevicesOK, Gateway!Boot
<1>10. ASSUME telemetry', next.dropped = 0, NEW d \in Device, NEW p \in Int
       PROVE  ~Outage(next, d, p)
  <2>1. next = Gateway!Added(fresh, record) /\ record.device = {} /\ record.poll = 0
    BY <1>2, <1>3, <1>10
  <2>2. OneMore(fresh, next, record)
    BY <1>4, <1>5, <1>10, <2>1, AddKeeps
  <2>3. ~Disconnects(record, d) /\ ~Reconnects(record, d)
    BY <2>1 DEF Disconnects, Reconnects
  <2>4. TellsSame(fresh, next, d)
    BY <1>4, <2>1, <2>2, <2>3, MoreTells
  <2>5. QED BY <1>1, <2>4, NothingTold DEF TellsSame
<1>11. Sound(Collector)' /\ DevicesToldOf'
  <2>1. \A d \in Device : connected'[d] /\ Len(window'[d]) = 0
    BY <1>8
  <2>2. dropped' = next.dropped
    BY <1>7 DEF Collector
  <2>3. ASSUME telemetry', dropped' = 0, NEW d \in Device
        PROVE  NowReflects(next, d)
    BY <1>10, <2>1, <2>2, <2>3 DEF NowReflects
  <2>4. DevicesToldOf'
    BY <1>7, <2>3 DEF DevicesToldOf, Reflects, Upcoming, NowReflects
  <2>5. QED BY <1>6, <1>7, <2>4
<1>12. QED BY <1>9, <1>11 DEF GatewayInv

(* What the framework reports, and a flush, tell nothing new of a device. *)
LEMMA LogFramework ==
  ASSUME NEW c, Sound(c), NEW name \in Gateway!Name, NEW at \in Nat,
         NEW next, next = Gateway!Log(c, name, {}, at)
  PROVE  /\ Grows(c, next)
         /\ telemetry /\ next.dropped = 0 => \A d \in Device : TellsSame(c, next, d)
<1>1. {} \in SUBSET Device /\ \A d \in Device : {} # {d}
  OBVIOUS
<1>2. Grows(c, next)
  BY <1>1, LogKeeps
<1>3. ASSUME telemetry, next.dropped = 0, NEW d \in Device
      PROVE  TellsSame(c, next, d)
  BY <1>1, <1>3, LogElse
<1>4. QED BY <1>2, <1>3

LEMMA MayFlush ==
  ASSUME NEW c, Sound(c), NEW may, NEW next, next = IF may THEN Gateway!Flush(c) ELSE c
  PROVE  Grows(c, next) /\ \A d \in Device : TellsSame(c, next, d)
<1>1. CASE may
  BY <1>1, FlushKeeps, SameTells
<1>2. CASE ~may
  BY <1>2, GrowsNot DEF TellsSame
<1>3. QED BY <1>1, <1>2

LEMMA ShutdownKeeps == ASSUME GatewayInv, Gateway!Shutdown PROVE GatewayInv'
<1>1. PICK next : next = Gateway!Log(Collector, "disposed", {}, 0)
  OBVIOUS
<1>2. /\ Grows(Collector, next)
      /\ telemetry /\ next.dropped = 0 => \A d \in Device : TellsSame(Collector, next, d)
  <2>1. "disposed" \in Gateway!Name
    BY DEF Gateway!Name
  <2>2. QED BY <1>1, <2>1, LogFramework DEF GatewayInv
<1>3. Gateway!Becomes(next) /\ UNCHANGED <<telemetry, connected, window, poll>>
  BY <1>1, SameCollector DEF Gateway!Shutdown, Gateway!settingVars, Gateway!deviceVars
<1>4. QED BY <1>2, <1>3, DevicesStay, GatewayGrows DEF GatewayInv

LEMMA BackgroundKeeps == ASSUME GatewayInv, Gateway!Background PROVE GatewayInv'
<1>1. PICK logged : logged = Gateway!Log(Collector, "focus", {}, 0)
  OBVIOUS
<1>2. /\ Grows(Collector, logged) /\ Sound(logged)
      /\ telemetry /\ logged.dropped = 0 => \A d \in Device : TellsSame(Collector, logged, d)
  <2>1. "focus" \in Gateway!Name
    BY DEF Gateway!Name
  <2>2. QED BY <1>1, <2>1, LogFramework DEF GatewayInv, Grows
<1>3. PICK next : next = Gateway!FlushIfBound(logged)
  OBVIOUS
<1>4. Grows(logged, next) /\ \A d \in Device : TellsSame(logged, next, d)
  BY <1>2, <1>3, MayFlush DEF Gateway!FlushIfBound
<1>5. Grows(Collector, next)
  BY <1>2, <1>4, GrowsOn DEF GatewayInv
<1>6. Gateway!Becomes(next) /\ UNCHANGED <<telemetry, connected, window, poll>>
  BY <1>1, <1>3, SameCollector DEF Gateway!Background, Gateway!settingVars, Gateway!deviceVars
<1>7. telemetry /\ next.dropped = 0 => \A d \in Device : TellsSame(Collector, next, d)
  <2>1. next.dropped = 0 => logged.dropped = 0
    BY <1>2, <1>4, NoneDropped
  <2>2. QED BY <1>2, <1>4, <2>1 DEF TellsSame
<1>8. QED BY <1>5, <1>6, <1>7, DevicesStay, GatewayGrows DEF GatewayInv

LEMMA ForegroundKeeps == ASSUME GatewayInv, Gateway!Foreground PROVE GatewayInv'
<1>1. PICK next : next = Gateway!Log(Collector, "focus", {}, 0)
  OBVIOUS
<1>2. /\ Grows(Collector, next)
      /\ telemetry /\ next.dropped = 0 => \A d \in Device : TellsSame(Collector, next, d)
  <2>1. "focus" \in Gateway!Name
    BY DEF Gateway!Name
  <2>2. QED BY <1>1, <2>1, LogFramework DEF GatewayInv
<1>3. Gateway!Becomes(next) /\ UNCHANGED <<telemetry, connected, window, poll>>
  BY <1>1, SameCollector DEF Gateway!Foreground, Gateway!settingVars, Gateway!deviceVars
<1>4. QED BY <1>2, <1>3, DevicesStay, GatewayGrows DEF GatewayInv

LEMMA ForceDropKeeps == ASSUME GatewayInv, Gateway!ForceDrop PROVE GatewayInv'
<1>1. PICK i \in DOMAIN DeviceOrder : /\ connected' = [connected EXCEPT ![DeviceOrder[i]] = FALSE]
                                      /\ Gateway!Becomes(Gateway!Log(Collector, "forced", {DeviceOrder[i]}, poll))
  BY SameCollector DEF Gateway!ForceDrop
<1>2. PICK d \in Device : d = DeviceOrder[i]
  BY DEF Device
<1>3. PICK next : next = Gateway!Log(Collector, "forced", {d}, poll)
  OBVIOUS
<1>4. /\ "forced" \in Gateway!Name /\ {d} \in SUBSET Device /\ poll \in Nat /\ Sound(Collector)
      /\ \A e \in Device \ {d} : {d} # {e}
  BY DEF Gateway!Name, GatewayInv, DevicesOK
<1>5. Gateway!Becomes(next) /\ UNCHANGED <<telemetry, window, poll>>
  BY <1>1, <1>2, <1>3 DEF Gateway!ForceDrop, Gateway!settingVars
<1>6. /\ connected' = [connected EXCEPT ![d] = FALSE] /\ connected'[d] = FALSE
      /\ \A e \in Device \ {d} : connected'[e] = connected[e]
  BY <1>1, <1>2 DEF GatewayInv, DevicesOK
<1>7. DevicesOK'
  BY <1>5, <1>6 DEF GatewayInv, DevicesOK
<1>8. Grows(Collector, next)
  BY <1>3, <1>4, LogKeeps
<1>9. PICK c : c = Collector
  OBVIOUS
<1>10. ASSUME telemetry, next.dropped = 0, NEW e \in Device, Reflects(c, e), e # d
       PROVE  NowReflects(next, e)
  <2>1. TellsSame(c, next, e)
    BY <1>3, <1>4, <1>9, <1>10, LogElse
  <2>2. NowReflects(c, e)
    BY <1>5, <1>6, <1>10 DEF Reflects, Upcoming, NowReflects
  <2>3. QED BY <1>7, <2>1, <2>2, NowSame
<1>11. ASSUME telemetry, next.dropped = 0, Reflects(c, d)
       PROVE  NowReflects(next, d)
  <2>1. PICK r : r.name = "forced" /\ r.device = {d} /\ r.poll = poll /\ OneMore(c, next, r)
    BY <1>3, <1>4, <1>9, <1>11, LogKeeps
  <2>2. Disconnects(r, d) /\ FirstMissed(r) = poll + 1
    BY <2>1 DEF Disconnects, FirstMissed
  <2>3. \A p \in Int : Outage(next, d, p) <=> poll + 1 <= p \/ Outage(c, d, p)
    BY <1>4, <1>9, <2>1, <2>2, MoreTells
  <2>4. PICK w \in Seq({"reading", "gap"}), n \in Nat : w = window[d] /\ n = Len(w)
    <3>1. window[d] \in Seq({"reading", "gap"}) /\ Len(window[d]) \in Nat
      BY DEF GatewayInv, DevicesOK
    <3>2. QED BY <3>1, Zenon
  <2>5. \A j \in 1..n : poll - n + j \in Int /\ ~(poll + 1 <= poll - n + j)
    BY <1>4
  <2>6. \A j \in 1..n : w[j] = "gap" <=> Outage(next, d, poll - n + j)
    BY <1>11, <2>3, <2>4, <2>5 DEF Reflects
  <2>7. \A p \in Int : p > poll => Outage(next, d, p)
    BY <1>4, <2>3
  <2>8. poll' = poll /\ window'[d] = w
    BY <1>5, <2>4
  <2>9. QED BY <1>6, <2>4, <2>6, <2>7, <2>8 DEF NowReflects
<1>12. QED BY <1>5, <1>7, <1>8, <1>9, <1>10, <1>11, GatewayGrows

(* What a poll adds to the samples of a device. *)
Shifted(samples, sample, kept, gone) ==
  /\ Len(kept) = Len(samples) + 1 - gone
  /\ \A i \in 1..Len(kept) : i = Len(kept) => kept[i] = sample
  /\ \A i \in 1..Len(kept) :
       i # Len(kept) => i + gone \in 1..Len(samples) /\ kept[i] = samples[i + gone]

LEMMA KeptIs ==
  ASSUME NEW samples \in Seq({"reading", "gap"}), NEW sample \in {"reading", "gap"},
         NEW kept, kept = Gateway!Kept(Append(samples, sample))
  PROVE  /\ kept \in Seq({"reading", "gap"})
         /\ Shifted(samples, sample, kept, 0) \/ Shifted(samples, sample, kept, 1)
<1>1. PICK S : S = {"reading", "gap"}
  OBVIOUS
<1>2. PICK all : all = Append(samples, sample)
  OBVIOUS
<1>3. samples \in Seq(S) /\ sample \in S
  BY <1>1
<1>4. /\ all \in Seq(S) /\ Len(samples) \in Nat /\ Len(all) = Len(samples) + 1
      /\ \A i \in 1..Len(all) : all[i] = IF i = Len(samples) + 1 THEN sample ELSE samples[i]
  BY <1>2, <1>3
<1>5. PICK n \in Nat : n = Len(samples)
  BY <1>4
<1>6. kept = all \/ kept = Tail(all)
  BY <1>2, <1>4 DEF Gateway!Kept
<1>7. CASE kept = all
  <2>1. kept \in Seq(S) /\ Len(kept) = n + 1 - 0
    BY <1>4, <1>5, <1>7
  <2>2. \A i \in 1..n + 1 : i # n + 1 => i + 0 \in 1..n /\ i + 0 = i
    OBVIOUS
  <2>3. QED BY <1>1, <1>4, <1>5, <1>7, <2>1, <2>2 DEF Shifted
<1>8. CASE kept = Tail(all)
  <2>1. /\ kept \in Seq(S) /\ Len(kept) = n /\ \A i \in 1..n : kept[i] = all[i + 1]
    BY <1>4, <1>5, <1>8
  <2>2. \A i \in 1..n : i + 1 \in 1..n + 1 /\ (i # n => i + 1 \in 1..n /\ i + 1 # n + 1) /\ n + 1 - 1 = n
    OBVIOUS
  <2>3. \A i \in 1..n : kept[i] = IF i + 1 = n + 1 THEN sample ELSE samples[i + 1]
    BY <1>4, <1>5, <2>1, <2>2
  <2>4. QED BY <1>1, <1>5, <2>1, <2>2, <2>3 DEF Shifted
<1>9. QED BY <1>6, <1>7, <1>8

LEMMA PollKeeps ==
  ASSUME GatewayInv, NEW fine \in [Device -> BOOLEAN], Gateway!Poll(fine)
  PROVE  /\ DevicesOK'
         /\ \A next : \A d \in Device :
              Reflects(Collector, d) /\ Follows(Collector, next, d, fine[d]) => NowReflects(next, d)
<1>1. /\ connected' = [d \in Device |-> fine[d] /\ (connected[d] \/ Gateway!Tried(d))]
      /\ window' = [d \in Device |-> Gateway!Kept(Append(window[d], Gateway!Sample(d, fine[d])))]
      /\ poll' = poll + 1 /\ poll \in Nat
  BY DEF Gateway!Poll, Gateway!Device, Device, GatewayInv, DevicesOK
<1>2. connected' \in [Device -> BOOLEAN]
  BY <1>1 DEF Gateway!Tried
<1>3. ASSUME NEW d \in Device
      PROVE  /\ window'[d] \in Seq({"reading", "gap"})
             /\ \A next : Reflects(Collector, d) /\ Follows(Collector, next, d, fine[d]) => NowReflects(next, d)
  <2>1. PICK samples, sample, kept : /\ samples = window[d] /\ sample = Gateway!Sample(d, fine[d])
                                     /\ kept = Gateway!Kept(Append(samples, sample))
    OBVIOUS
  <2>2. samples \in Seq({"reading", "gap"}) /\ sample \in {"reading", "gap"}
    BY <2>1 DEF GatewayInv, DevicesOK, Gateway!Sample
  <2>3. window'[d] = kept
    BY <1>1, <2>1
  <2>4. PICK gone \in {0, 1} : kept \in Seq({"reading", "gap"}) /\ Shifted(samples, sample, kept, gone)
    <3>1. kept \in Seq({"reading", "gap"}) /\ (Shifted(samples, sample, kept, 0) \/ Shifted(samples, sample, kept, 1))
      BY <2>1, <2>2, KeptIs
    <3>2. QED BY <3>1
  <2>5. PICK n \in Nat, m \in Nat : n = Len(kept) /\ m = Len(samples) /\ n = m + 1 - gone
    <3>1. Len(kept) \in Nat /\ Len(samples) \in Nat
      BY <2>2, <2>4
    <3>2. Len(kept) = Len(samples) + 1 - gone
      BY <2>4 DEF Shifted
    <3>3. QED BY <3>1, <3>2
  <2>6. PICK P \in Nat : P = poll
    BY <1>1
  <2>7. ASSUME NEW next, Reflects(Collector, d), Follows(Collector, next, d, fine[d])
        PROVE  NowReflects(next, d)
    <3>1. PICK c : c = Collector
      OBVIOUS
    <3>2. \A i \in 1..m : samples[i] = "gap" <=> Outage(c, d, P - m + i)
      BY <2>1, <2>5, <2>6, <2>7, <3>1 DEF Reflects
    <3>3. \A p \in Int : /\ p <= P => (Outage(next, d, p) <=> Outage(c, d, p))
                         /\ p = P + 1 => (Outage(next, d, p) <=> ~(connected[d] /\ fine[d]))
                         /\ p > P + 1 =>
                              (Outage(next, d, p) <=> ~(fine[d] /\ (connected[d] \/ Gateway!Tried(d))))
      BY <2>6, <2>7, <3>1 DEF Follows
    <3>4. \A p \in Int : p > P + 1 => (Outage(next, d, p) <=> ~connected'[d])
      BY <1>1, <3>3
    <3>5. sample = "gap" <=> Outage(next, d, P + 1)
      <4>1. sample = "gap" <=> ~(connected[d] /\ fine[d])
        BY <2>1 DEF Gateway!Sample
      <4>2. QED BY <3>3, <4>1
    <3>6. ASSUME NEW i \in 1..n
          PROVE  kept[i] = "gap" <=> Outage(next, d, (P + 1) - n + i)
      <4>1. CASE i = n
        <5>1. (P + 1) - n + i = P + 1 /\ kept[i] = sample
          BY <2>4, <2>5, <4>1 DEF Shifted
        <5>2. QED BY <3>5, <5>1
      <4>2. CASE i # n
        <5>1. i + gone \in 1..m /\ kept[i] = samples[i + gone]
          BY <2>4, <2>5, <4>2 DEF Shifted
        <5>2. /\ (P + 1) - n + i = P - m + (i + gone) /\ P - m + (i + gone) \in Int
              /\ P - m + (i + gone) <= P
          BY <2>5, <5>1
        <5>3. kept[i] = "gap" <=> Outage(c, d, P - m + (i + gone))
          BY <3>2, <5>1
        <5>4. QED BY <3>3, <5>2, <5>3
      <4>3. QED BY <4>1, <4>2
    <3>7. poll' = P + 1 /\ window'[d] = kept /\ Len(window'[d]) = n
      BY <1>1, <2>3, <2>5, <2>6
    <3>8. QED BY <3>4, <3>6, <3>7 DEF NowReflects
  <2>8. QED BY <2>3, <2>4, <2>7
<1>4. window' \in [Device -> Seq({"reading", "gap"})]
  <2>1. PICK w : w = window'
    OBVIOUS
  <2>2. w = [d \in Device |-> w[d]]
    BY <1>1, <2>1
  <2>3. \A d \in Device : w[d] \in Seq({"reading", "gap"})
    BY <1>3, <2>1
  <2>4. w \in [Device -> Seq({"reading", "gap"})]
    BY <2>2, <2>3
  <2>5. QED BY <2>1, <2>4
<1>5. QED BY <1>1, <1>2, <1>3, <1>4 DEF DevicesOK

LEMMA FrameKeeps == ASSUME GatewayInv, Gateway!Frame PROVE GatewayInv'
<1>1. PICK fine \in [Device -> BOOLEAN] :
        /\ IF waited' = 0 THEN Gateway!Poll(fine) ELSE UNCHANGED Gateway!deviceVars
        /\ LET c == IF waited' = 0 THEN Gateway!Reported(fine) ELSE Gateway!Collector
           IN  Gateway!Becomes(IF listening /\ sinceFlush' = 0 THEN Gateway!Flush(c) ELSE c)
  BY DEF Gateway!Frame, Gateway!Device, Device
<1>2. PICK c : c = IF waited' = 0 THEN Gateway!Reported(fine) ELSE Collector
  OBVIOUS
<1>3. PICK next : next = IF listening /\ sinceFlush' = 0 THEN Gateway!Flush(c) ELSE c
  OBVIOUS
<1>4. Gateway!Becomes(next) /\ UNCHANGED telemetry
  BY <1>1, <1>2, <1>3, SameCollector DEF Gateway!Frame, Gateway!settingVars
<1>5. Sound(Collector)
  BY DEF GatewayInv
<1>6. CASE waited' # 0
  <2>1. PICK may : may = (listening /\ sinceFlush' = 0)
    OBVIOUS
  <2>2. c = Collector /\ next = IF may THEN Gateway!Flush(c) ELSE c
    BY <1>2, <1>3, <1>6, <2>1
  <2>3. Grows(Collector, next) /\ \A d \in Device : TellsSame(Collector, next, d)
    BY <1>5, <2>2, MayFlush
  <2>4. UNCHANGED <<connected, window, poll>>
    BY <1>1, <1>6 DEF Gateway!deviceVars
  <2>5. QED BY <1>4, <2>3, <2>4, DevicesStay, GatewayGrows DEF GatewayInv
<1>7. CASE waited' = 0
  <2>1. PICK polled : polled = Gateway!Polled(fine)
    OBVIOUS
  <2>2. /\ Grows(Collector, polled) /\ Sound(polled)
        /\ telemetry /\ polled.dropped = 0 /\ (\A d \in Device : Upcoming(Collector, d)) =>
             \A d \in Device : Follows(Collector, polled, d, fine[d])
    BY <1>5, <2>1, PolledKeeps DEF Grows, GatewayInv, DevicesOK
  <2>3. DevicesOK' /\ poll' \in Nat
        /\ \A d \in Device :
             Reflects(Collector, d) /\ Follows(Collector, polled, d, fine[d]) => NowReflects(polled, d)
    BY <1>1, <1>7, PollKeeps DEF DevicesOK
  <2>4. /\ Grows(polled, c) /\ Sound(c)
        /\ telemetry /\ c.dropped = 0 => \A d \in Device : TellsSame(polled, c, d)
    <3>1. c = Gateway!Log(polled, "summary", {}, poll') \/ c = polled
      BY <1>2, <1>7, <2>1 DEF Gateway!Reported
    <3>2. "summary" \in Gateway!Name /\ \A d \in Device : TellsSame(polled, polled, d)
      BY DEF Gateway!Name, TellsSame
    <3>3. /\ Grows(polled, c)
          /\ telemetry /\ c.dropped = 0 => \A d \in Device : TellsSame(polled, c, d)
      BY <2>2, <2>3, <3>1, <3>2, LogFramework, GrowsNot
    <3>4. QED BY <3>3 DEF Grows
  <2>5. PICK may : may = (listening /\ sinceFlush' = 0)
    OBVIOUS
  <2>6. Grows(c, next) /\ \A d \in Device : TellsSame(c, next, d)
    BY <1>3, <2>4, <2>5, MayFlush
  <2>7. Grows(polled, next) /\ Grows(Collector, next)
    BY <1>5, <2>2, <2>4, <2>6, GrowsOn
  <2>8. ASSUME telemetry, next.dropped = 0, \A d \in Device : Reflects(Collector, d), NEW d \in Device
        PROVE  NowReflects(next, d)
    <3>1. polled.dropped = 0 /\ c.dropped = 0
      BY <2>2, <2>4, <2>6, <2>8, NoneDropped
    <3>2. \A e \in Device : Upcoming(Collector, e)
      BY <2>8 DEF Reflects
    <3>3. Follows(Collector, polled, d, fine[d])
      BY <2>2, <2>8, <3>1, <3>2
    <3>4. NowReflects(polled, d)
      BY <2>3, <2>8, <3>3
    <3>5. TellsSame(polled, c, d) /\ TellsSame(c, next, d)
      BY <2>4, <2>6, <2>8, <3>1
    <3>6. TellsSame(polled, next, d)
      BY <3>5 DEF TellsSame
    <3>7. QED BY <2>3, <3>4, <3>6, NowSame
  <2>9. QED BY <1>4, <2>3, <2>7, <2>8, GatewayGrows
<1>8. QED BY <1>6, <1>7

LEMMA GatewayNext == ASSUME GatewayInv, [Gateway!Next]_Gateway!vars PROVE GatewayInv'
<1>1. CASE UNCHANGED Gateway!vars
  <2>1. UNCHANGED <<connected, window, poll, telemetry, dropped>> /\ Collector' = Collector
    BY <1>1 DEF Gateway!vars, Gateway!ringVars, Gateway!deviceVars, Gateway!settingVars, Collector
  <2>2. QED BY <2>1 DEF GatewayInv, DevicesOK, DevicesToldOf, Reflects, Upcoming
<1>2. QED BY <1>1, BootKeeps, ShutdownKeeps, FrameKeeps, ForceDropKeeps, BackgroundKeeps, ForegroundKeeps
          DEF Gateway!Next

LEMMA GatewayAccounts == ASSUME GatewayInv PROVE RecordsAreAccountedFor
<1>1. Sound(Collector) /\ Collector.written = written /\ Collector.size = size /\ Collector.dropped = dropped
      /\ Collector.seq = seq /\ Collector.ring = ring /\ Collector.head = head
  BY DEF GatewayInv, Collector
<1>2. written \in Seq(Entry) /\ size \in 0..MaxQueue /\ DOMAIN written = 1..Len(written) /\ Len(written) \in Nat
  BY <1>1 DEF Sound, Collectors
<1>3. \A i \in 1..size : Queued(Collector)[i] = At(Collector, i)
  BY <1>1 DEF Queued, At, Wrap
<1>4. Len(written) + size + dropped = seq /\ \A i \in 1..size : Queued(Collector)[i].seq = seq - size + i
  BY <1>1, <1>3 DEF Sound
<1>5. \A i, j \in DOMAIN written : i < j => written[i].seq < written[j].seq
  BY <1>1, <1>2 DEF Sound
<1>6. written # <<>> => Len(written) \in 1..Len(written)
  BY <1>2
<1>7. written # <<>> => written[Len(written)].seq <= seq - size
  BY <1>1, <1>6 DEF Sound
<1>8. QED BY <1>4, <1>5, <1>7 DEF RecordsAreAccountedFor

LEMMA GatewayExplains == ASSUME GatewayInv PROVE GapsAreExplained
<1>1. PICK kept : kept = Records
  OBVIOUS
<1>2. PICK queued : queued = Queued(Collector)
  OBVIOUS
<1>3. PICK w : w = written
  OBVIOUS
<1>4. /\ Sound(Collector) /\ Collector.size = size /\ Collector.written = w
      /\ w \in Seq(Entry) /\ size \in 0..MaxQueue /\ size \in Nat
  BY <1>3, QueueHasRoom DEF GatewayInv, Collector, Sound, Collectors
<1>5. queued \in Seq(Entry) /\ Len(queued) = size /\ \A i \in 1..size : queued[i] = At(Collector, i)
  <2>1. queued = [i \in 1..size |-> At(Collector, i)]
    BY <1>2, <1>4 DEF Queued, At, Wrap
  <2>2. \A i \in 1..size : At(Collector, i) \in Entry
    <3>1. PICK h : h = Collector.head
      OBVIOUS
    <3>2. h \in 0..MaxQueue - 1 /\ Collector.ring \in [Slot -> Entry]
      BY <1>4, <3>1 DEF Sound, Collectors, Slot
    <3>3. \A i \in 1..size : h + i - 1 \in 0..2 * MaxQueue - 1
      BY <1>4, <3>2, QueueHasRoom
    <3>4. \A i \in 1..size : Wrap(h + i - 1) \in Slot
      BY <3>3, Around, QueueHasRoom
    <3>5. QED BY <3>1, <3>2, <3>4 DEF At
  <2>3. queued \in [1..size -> Entry]
    BY <2>1, <2>2
  <2>4. QED BY <1>4, <2>1, <2>3, AsSequence
<1>6. /\ kept \in Seq(Entry) /\ Len(w) \in Nat /\ Len(kept) = Len(w) + Len(queued)
      /\ \A i \in 1..Len(w) : kept[i] = w[i]
      /\ \A i \in 1..Len(queued) : kept[Len(w) + i] = queued[i]
  <2>1. kept = w \o queued /\ w \in Seq(Entry) /\ queued \in Seq(Entry)
    BY <1>1, <1>2, <1>3, <1>4, <1>5 DEF Records
  <2>2. QED BY <2>1, Joined
<1>7. PICK c \in {Collector}, n \in Nat : c = Collector /\ n = Len(w)
  <2>1. Len(w) \in Nat
    BY <1>6
  <2>2. QED BY <2>1, Zenon
<1>8. /\ c.written = w /\ c.size = size /\ Many(c) = n + size /\ DOMAIN kept = 1..n + size
      /\ Len(queued) = size
  BY <1>4, <1>5, <1>6, <1>7 DEF Many
<1>9. ASSUME NEW i \in 1..n + size
      PROVE  kept[i] = Nth(c, i)
  <2>1. CASE i <= n
    BY <1>6, <1>7, <1>8, <2>1 DEF Nth
  <2>2. CASE ~(i <= n)
    <3>1. i - n \in 1..size /\ n + (i - n) = i
      BY <1>4, <1>7, <2>2
    <3>2. kept[n + (i - n)] = queued[i - n]
      BY <1>6, <1>7, <1>8, <3>1
    <3>3. queued[i - n] = At(c, i - n)
      BY <1>5, <1>7, <3>1
    <3>4. QED BY <1>7, <1>8, <2>2, <3>1, <3>2, <3>3 DEF Nth
  <2>3. QED BY <2>1, <2>2
<1>10. \A d, p : RecordedAway(d, p) <=> Outage(c, d, p)
  <2>1. \A d, p : RecordedAway(d, p) <=>
          \E k \in 1..n + size :
            /\ Disconnects(kept[k], d) /\ FirstMissed(kept[k]) <= p
            /\ \A j \in 1..n + size : j > k /\ Reconnects(kept[j], d) => kept[j].poll >= p
    BY <1>1, <1>8 DEF RecordedAway
  <2>2. QED BY <1>8, <1>9, <2>1 DEF Outage
<1>11. \A d \in Device : DOMAIN window[d] = 1..Len(window[d])
  BY DEF GatewayInv, DevicesOK
<1>12. QED BY <1>7, <1>10, <1>11 DEF GapsAreExplained, GatewayInv, DevicesToldOf, Reflects

(* log, flush: every record is in the sink, in the ring or counted as       *)
(* dropped, and the ring holds the newest.                                  *)
THEOREM RecordsAddUp == Gateway!Spec => []RecordsAreAccountedFor
<1>1. GatewayInv => RecordsAreAccountedFor
  BY GatewayAccounts
<1>2. QED BY <1>1, GatewayInit, GatewayNext, PTL DEF Gateway!Spec

(* update, forceDrop: unless records were dropped, a sample that is kept of *)
(* a device is a gap just when the records have it away at that poll.       *)
THEOREM GapsHaveReasons == Gateway!Spec => []GapsAreExplained
<1>1. GatewayInv => GapsAreExplained
  BY GatewayExplains
<1>2. QED BY <1>1, GatewayInit, GatewayNext, PTL DEF Gateway!Spec
=============================================================================
