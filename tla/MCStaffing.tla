----------------------------- MODULE MCStaffing -----------------------------
(***************************************************************************)
(* Small instances of Staffing for TLC: all calls at once, and all but the *)
(* pairs of Conflicting.                                                   *)
(***************************************************************************)
EXTENDS Staffing, TLC

AllPairs  == {{c, d} : c \in Calls, d \in Calls}
SafePairs == AllPairs \ Conflicting

\* What the rows depend on: no guard reads a start job, so states that differ in
\* nothing else need not be told apart to check the rows.
ButStartJobs ==
  <<status, seatsRequested, seatsFilled, verified, invitation, assignment, withdrawals, lock, session>>

Symmetry == Permutations(Experts) \cup Permutations(Sessions)
=============================================================================
