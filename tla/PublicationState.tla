-------------------------- MODULE PublicationState --------------------------
(***************************************************************************)
(* Whom the framework tells, who was told what, and what becomes of it     *)
(* when publications nest.                                                 *)
(***************************************************************************)
EXTENDS Naturals

CONSTANTS
  Listener,
  Once         \* the listeners registered by once(): each is a wrapper of its own

VARIABLES
  service,   \* "snapshot", "events" or "abort"
  place,     \* of each listener in its Set, in the order of registration, or 0
  current,   \* the snapshot, the events emitted, or whether it is aborted
  stack,     \* the loops and the listeners that run, innermost first
  told,      \* what each listener was told last
  threw      \* a listener threw in the publication

Registered == {l \in Listener : place[l] # 0}

(* However publications nest, once they are over every subscriber was told   *)
(* the current snapshot last, unless a listener threw (publishSnapshot).     *)
LatestIsTold ==
  service = "snapshot" /\ stack = <<>> /\ ~threw => \A l \in Registered : told[l] = current

(* A once() handler is not called from inside its own call, however         *)
(* emissions nest (once).                                                    *)
OnceIsNotReentered ==
  service = "events" =>
    \A l \in Once : \A i, j \in DOMAIN stack : stack[i].who = {l} /\ stack[j].who = {l} => i = j
=============================================================================
