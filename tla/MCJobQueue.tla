----------------------------- MODULE MCJobQueue -----------------------------
(***************************************************************************)
(* Small instances of JobQueue for TLC.                                    *)
(***************************************************************************)
EXTENDS JobQueue, TLC

\* The first backoff is one unit, later ones two: growing, then capped.
MCBackoff == [a \in 1 .. MaxAttempts |-> IF a = 1 THEN 1 ELSE 2]

WorkerSymmetry == Permutations(Workers)
=============================================================================
