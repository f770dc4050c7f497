------------------------------- MODULE FdSet -------------------------------
(***************************************************************************)
(* What the library asks of an external poll loop: a set of descriptors,   *)
(* each with the events to wait for on it.                                 *)
(***************************************************************************)
CONSTANTS Fds, Events

VARIABLE watch   \* watched descriptor -> events

Init == watch = [f \in {} |-> 0]

Add(f, e) ==
  /\ f \notin DOMAIN watch
  /\ watch' = [g \in DOMAIN watch \cup {f} |-> IF g = f THEN e ELSE watch[g]]

Del(f) ==
  /\ f \in DOMAIN watch
  /\ watch' = [g \in DOMAIN watch \ {f} |-> watch[g]]

Change(f, e) ==
  /\ f \in DOMAIN watch
  /\ watch' = [watch EXCEPT ![f] = e]

Next == \E f \in Fds : Del(f) \/ \E e \in Events : Add(f, e) \/ Change(f, e)

Spec == Init /\ [][Next]_watch
=============================================================================
