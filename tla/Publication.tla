----------------------------- MODULE Publication -----------------------------
(***************************************************************************)
(* The three ways the framework tells listeners: SnapshotService, which    *)
(* walks its live Set, BaseEventService and the fallback abort signal,     *)
(* which walk an array of it.  A listener may subscribe others, be removed *)
(* or publish while it is told, and may throw.                             *)
(***************************************************************************)
EXTENDS Naturals, Sequences, FiniteSets, PublicationState

CONSTANTS
  MaxTold,     \* bound: publications
  MaxPlace,    \* bound: registrations
  MaxDepth     \* bound: calls within calls

vars == <<service, place, current, stack, told, threw>>

Loop(left) == [kind |-> "loop", value |-> current + 1, after |-> 0, left |-> left, who |-> {}]
Call(l) == [kind |-> "call", value |-> 0, after |-> 0, left |-> <<>>, who |-> {l}]

PublicationTypeOK ==
  /\ service \in {"snapshot", "events", "abort"} /\ current \in 0..MaxTold /\ threw \in BOOLEAN
  /\ place \in [Listener -> 0..MaxPlace] /\ told \in [Listener -> 0..MaxTold]
  /\ \A i \in DOMAIN stack : stack[i].kind \in {"loop", "call"}

Init ==
  /\ service \in {"snapshot", "events", "abort"}
  /\ place = [l \in Listener |-> 0] /\ told = place
  /\ current = 0 /\ stack = <<>> /\ threw = FALSE

(* Array.from of the Set: who is registered, in the order of registration. *)
Listeners ==
  {array \in [1..Cardinality(Registered) -> Registered] :
     \A i, j \in DOMAIN array : i < j => place[array[i]] < place[array[j]]}

NextPlace(n) ==
  /\ \A k \in Listener : place[k] < n
  /\ n = 1 \/ \E k \in Listener : place[k] = n - 1

(* User code runs: between calls, or in a listener. *)
MayCall == stack # <<>> => Head(stack).kind = "call" /\ Len(stack) <= 2 * MaxDepth
Push(frame) == stack' = <<frame>> \o stack
Tell(l, value) == told' = [told EXCEPT ![l] = value]

(* subscribe, on, once and addEventListener; only subscribe calls back. *)
Register ==
  /\ MayCall
  /\ \E l \in Listener :
       /\ l \in Once => place[l] = 0 /\ told[l] = 0
       /\ \E n \in 1..MaxPlace :
            /\ IF place[l] # 0 THEN n = place[l] ELSE NextPlace(n)
            /\ place' = [place EXCEPT ![l] = n]
       /\ IF service = "snapshot"
          THEN Tell(l, current) /\ Push(Call(l))
          ELSE UNCHANGED <<told, stack>>
  /\ UNCHANGED <<service, current, threw>>

Unregister ==
  /\ MayCall
  /\ \E l \in Registered : place' = [place EXCEPT ![l] = 0]
  /\ UNCHANGED <<service, current, stack, told, threw>>

(* publishSnapshot, and updateSnapshot through it *)
Publish ==
  /\ MayCall /\ service = "snapshot" /\ current < MaxTold
  /\ current' = current + 1 /\ Push(Loop(<<>>))
  /\ threw' = (threw /\ stack # <<>>)
  /\ UNCHANGED <<service, place, told>>

Emit ==
  /\ MayCall /\ service = "events" /\ current < MaxTold
  /\ current' = current + 1 /\ \E array \in Listeners : Push(Loop(array))
  /\ UNCHANGED <<service, place, told, threw>>

DispatchAbort ==
  /\ MayCall /\ service = "abort" /\ current = 0
  /\ current' = 1 /\ \E array \in Listeners : Push(Loop(array))
  /\ UNCHANGED <<service, place, told, threw>>

\* Mutant of TellNext: each listener is told the snapshot the loop began with.
TellNextOfLoop ==
  /\ stack # <<>> /\ Head(stack).kind = "loop" /\ service = "snapshot"
  /\ \E l \in Registered :
       /\ place[l] > Head(stack).after
       /\ \A k \in Registered : place[k] < place[l] => place[k] <= Head(stack).after
       /\ Tell(l, Head(stack).value)
       /\ stack' = <<Call(l), [Head(stack) EXCEPT !.after = place[l]]>> \o Tail(stack)
  /\ UNCHANGED <<service, place, current, threw>>

(* forEach over the live Set: the next in place, registered since or not,   *)
(* is told what is current by then.                                         *)
TellNext ==
  /\ stack # <<>> /\ Head(stack).kind = "loop" /\ service = "snapshot"
  /\ \E l \in Registered :
       /\ place[l] > Head(stack).after
       /\ \A k \in Registered : place[k] < place[l] => place[k] <= Head(stack).after
       /\ Tell(l, current)
       /\ stack' = <<Call(l), [Head(stack) EXCEPT !.after = place[l]]>> \o Tail(stack)
  /\ UNCHANGED <<service, place, current, threw>>

\* Mutant of TellNextOfArray: a wrapper of once() calls its handler before it removes itself.
TellOnceFirst ==
  /\ stack # <<>> /\ Head(stack).left # <<>>
  /\ LET l == Head(Head(stack).left)
     IN  /\ Tell(l, current)
         /\ stack' = <<Call(l), [Head(stack) EXCEPT !.left = Tail(@)]>> \o Tail(stack)
  /\ UNCHANGED <<service, place, current, threw>>

(* The next of the array, removed since or not; a wrapper of once() removes *)
(* itself before it calls its handler.                                      *)
TellNextOfArray ==
  /\ stack # <<>> /\ Head(stack).left # <<>>
  /\ LET l == Head(Head(stack).left)
     IN  /\ Tell(l, current)
         /\ place' = IF service = "events" /\ l \in Once THEN [place EXCEPT ![l] = 0] ELSE place
         /\ stack' = <<Call(l), [Head(stack) EXCEPT !.left = Tail(@)]>> \o Tail(stack)
  /\ UNCHANGED <<service, current, threw>>

(* The loop is over; the abort signal forgets its listeners. *)
LoopEnds ==
  /\ stack # <<>> /\ Head(stack).kind = "loop" /\ Head(stack).left = <<>>
  /\ service = "snapshot" => \A l \in Registered : place[l] <= Head(stack).after
  /\ place' = IF service = "abort" THEN [l \in Listener |-> 0] ELSE place
  /\ stack' = Tail(stack)
  /\ UNCHANGED <<service, current, told, threw>>

Returns ==
  /\ stack # <<>> /\ Head(stack).kind = "call" /\ stack' = Tail(stack)
  /\ UNCHANGED <<service, place, current, told, threw>>

(* A listener that throws ends the loop that called it, down to the listener *)
(* that began it.                                                            *)
Throws ==
  /\ stack # <<>> /\ Head(stack).kind = "call" /\ threw' = TRUE
  /\ stack' = IF Len(stack) > 1 /\ stack[2].kind = "loop" THEN Tail(Tail(stack)) ELSE Tail(stack)
  /\ UNCHANGED <<service, place, current, told>>

Next ==
  \/ Register \/ Unregister \/ Publish \/ Emit \/ DispatchAbort
  \/ TellNext \/ TellNextOfArray \/ LoopEnds \/ Returns \/ Throws

Spec == Init /\ [][Next]_vars

=============================================================================
