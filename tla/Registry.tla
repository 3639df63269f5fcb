------------------------------ MODULE Registry ------------------------------
(***************************************************************************)
(* What the collection of sinks promises its callers, without a mutex,     *)
(* sources, providers or goroutines: a call is one step, and the network   *)
(* sees a sink from its Register, unless that fails, to its Unregister or  *)
(* Close, whatever is done with the others.  Module Service implements it. *)
(*                                                                         *)
(* Some platforms cannot withdraw what is announced.  Whether this is one  *)
(* is settled by the end of the first Register, and never changes again.   *)
(***************************************************************************)
CONSTANT Sinks

VARIABLES
  held,      \* the sinks of the collection
  seen,      \* the sinks that the network sees
  chosen,    \* it is settled who announces them
  lasting    \* what is announced is not withdrawn

vars == <<held, seen, chosen, lasting>>

Init == held = {} /\ seen = {} /\ chosen = FALSE /\ lasting = FALSE

\* A sink is held even where it cannot be announced.
Register(s) ==
  /\ s \notin held
  /\ held' = held \union {s}
  /\ seen' \in {seen, seen \union {s}}
  /\ chosen' = TRUE
  /\ chosen => UNCHANGED lasting

\* Somebody who could announce them fails.
Fails == ~chosen /\ lasting' \in BOOLEAN /\ UNCHANGED <<held, seen, chosen>>

Withdrawn(sinks) == seen' = IF lasting THEN seen ELSE seen \ sinks

Unregister(s) ==
  /\ s \in held
  /\ held' = held \ {s}
  /\ Withdrawn({s})
  /\ UNCHANGED <<chosen, lasting>>

Close ==
  /\ held' = {}
  /\ Withdrawn(held)
  /\ UNCHANGED <<chosen, lasting>>

Next ==
  \/ \E s \in Sinks : Register(s) \/ Unregister(s)
  \/ Close
  \/ Fails

Spec == Init /\ [][Next]_vars
=============================================================================
