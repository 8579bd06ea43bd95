---------------------------- MODULE JobContract ----------------------------
(***************************************************************************)
(* What the job queue promises about each job, with no workers, leases,    *)
(* attempts or clocks in sight: an armed job either has its effect         *)
(* committed, in the same step that makes it done, or dies.  Only an       *)
(* operator's request arms it again, and only a disposable job is ever     *)
(* forgotten, so a durable key is armed by its callers exactly once.       *)
(***************************************************************************)
EXTENDS Naturals

CONSTANTS Jobs, Durable

VARIABLES
  state,    \* "none", "open", "done", "dead" or "cancelled", for each job
  effects,  \* effects committed
  rearmed   \* operator requests honoured

vars == <<state, effects, rearmed>>

Init ==
  /\ state = [j \in Jobs |-> "none"]
  /\ effects = [j \in Jobs |-> 0]
  /\ rearmed = [j \in Jobs |-> 0]

Becomes(j, s) == state' = [state EXCEPT ![j] = s]

Arm(j)    == state[j] = "none" /\ Becomes(j, "open") /\ UNCHANGED <<effects, rearmed>>
Finish(j) == /\ state[j] = "open" /\ Becomes(j, "done")
             /\ effects' = [effects EXCEPT ![j] = @ + 1]
             /\ UNCHANGED rearmed
GiveUp(j) == state[j] = "open" /\ Becomes(j, "dead") /\ UNCHANGED <<effects, rearmed>>
Cancel(j) == state[j] # "none" /\ Becomes(j, "cancelled") /\ UNCHANGED <<effects, rearmed>>
Rearm(j)  == /\ state[j] # "none" /\ Becomes(j, "open")
             /\ rearmed' = [rearmed EXCEPT ![j] = @ + 1]
             /\ UNCHANGED effects
Forget(j) == /\ j \notin Durable /\ state[j] \in {"done", "cancelled"}
             /\ Becomes(j, "none")
             /\ UNCHANGED <<effects, rearmed>>

Next == \E j \in Jobs :
          Arm(j) \/ Finish(j) \/ GiveUp(j) \/ Cancel(j) \/ Rearm(j) \/ Forget(j)

Spec == Init /\ [][Next]_vars
=============================================================================
