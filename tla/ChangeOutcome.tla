--------------------------- MODULE ChangeOutcome ---------------------------
(***************************************************************************)
(* What delegated execution promises, without workers, claims or requests: *)
(* a change plan settles once, as rejected or as applied, and the task     *)
(* that was delegated for it reaches one verdict, which never claims more  *)
(* than what happened.  ChangeTasks implements this specification.         *)
(***************************************************************************)
CONSTANT Changes

VARIABLES
  effect,   \* what became of the plan in the business service
  verdict   \* what the platform says of the delegated task

vars == <<effect, verdict>>

Effects == {"pending", "rejected", "applied"}
Verdicts == {"open", "succeeded", "rejected", "failed", "needs_attention"}

Init ==
  /\ effect = [c \in Changes |-> "pending"]
  /\ verdict = [c \in Changes |-> "open"]

Settle(c, e) ==
  /\ effect[c] = "pending"
  /\ effect' = [effect EXCEPT ![c] = e]
  /\ UNCHANGED verdict

(* A success or a rejection is reported of a plan that was applied or rejected;
   "failed" and "needs_attention" say nothing about the plan. *)
Report(c, v) ==
  /\ verdict[c] = "open"
  /\ v = "succeeded" => effect[c] = "applied"
  /\ v = "rejected" => effect[c] = "rejected"
  /\ verdict' = [verdict EXCEPT ![c] = v]
  /\ UNCHANGED effect

Next ==
  \E c \in Changes :
    \/ \E e \in Effects \ {"pending"} : Settle(c, e)
    \/ \E v \in Verdicts \ {"open"} : Report(c, v)

Spec == Init /\ [][Next]_vars
=============================================================================
