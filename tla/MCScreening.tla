---------------------------- MODULE MCScreening ----------------------------
(***************************************************************************)
(* One screening, one call at a time: two reviewers who disagree again     *)
(* about a later revision.                                                 *)
(***************************************************************************)
EXTENDS Screening, TLC

Symmetry == Permutations(Reviewers)
=============================================================================
