------------------------------ MODULE SeatPool ------------------------------
(***************************************************************************)
(* What confirming and releasing seats promises, with no locks, requests,  *)
(* invitations or counters in sight: a seat is only ever taken while one   *)
(* is free.  Capacity may be changed at any time, also below what is held. *)
(***************************************************************************)
EXTENDS Naturals, FiniteSets

CONSTANTS Experts, MaxSeats

VARIABLES
  held,      \* experts holding a seat
  capacity   \* seats requested

vars == <<held, capacity>>

Init == held = {} /\ capacity \in 1 .. MaxSeats

Take(e)   == /\ e \notin held /\ Cardinality(held) < capacity
             /\ held' = held \cup {e}
             /\ UNCHANGED capacity
Give(e)   == held' = held \ {e} /\ UNCHANGED capacity
Resize(n) == capacity' = n /\ UNCHANGED held

Next ==
  \/ \E e \in Experts : Take(e) \/ Give(e)
  \/ \E n \in 1 .. MaxSeats : Resize(n)

Spec == Init /\ [][Next]_vars
=============================================================================
