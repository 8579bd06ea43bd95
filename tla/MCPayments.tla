----------------------------- MODULE MCPayments -----------------------------
(***************************************************************************)
(* Payments with its identities interchangeable.                           *)
(*                                                                         *)
(* SafePairs are the calls that may overlap without harm: every pair but   *)
(* those of Conflicting.  TLC found these by running Payments with one     *)
(* pair at a time allowed to overlap, and then with all the others.        *)
(***************************************************************************)
EXTENDS Payments, TLC

SafePairs == { {c, d} : c \in AllCalls, d \in AllCalls } \ Conflicting

Symmetry ==
  Permutations(Works) \cup Permutations(Items) \cup Permutations(Batches)
    \cup Permutations(Operators) \cup Permutations(Sessions)
=============================================================================
