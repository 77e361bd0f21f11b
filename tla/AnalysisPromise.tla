-------------------------- MODULE AnalysisPromise --------------------------
(***************************************************************************)
(* What the analysis queue promises, without workers, claims or restarts:  *)
(* a request has a budget of model runs; it is given up only when the      *)
(* budget is spent, and only then can it be opened again; an answer is     *)
(* final, and there is none without a run.                                 *)
(***************************************************************************)
EXTENDS Integers

CONSTANTS
  Jobs,
  Runs  \* model runs per round

VARIABLES
  state,  \* of each request
  budget  \* runs it has left

vars == <<state, budget>>

Init ==
  /\ state = [j \in Jobs |-> "none"]
  /\ budget = [j \in Jobs |-> Runs]

Move(j, from, to) ==
  /\ state[j] = from
  /\ state' = [state EXCEPT ![j] = to]

Request(j) == Move(j, "none", "open") /\ UNCHANGED budget

Spend(j) ==
  /\ state[j] = "open"
  /\ budget[j] > 0
  /\ budget' = [budget EXCEPT ![j] = @ - 1]
  /\ UNCHANGED state

Answer(j) == budget[j] < Runs /\ Move(j, "open", "answered") /\ UNCHANGED budget

(* A restart may give up several requests at once. *)
GiveUp(S) ==
  /\ \A j \in S : state[j] = "open" /\ budget[j] = 0
  /\ state' = [j \in Jobs |-> IF j \in S THEN "givenUp" ELSE state[j]]
  /\ UNCHANGED budget

Reopen(j) == Move(j, "givenUp", "open") /\ budget' = [budget EXCEPT ![j] = Runs]

Next ==
  \/ \E j \in Jobs : Request(j) \/ Spend(j) \/ Answer(j) \/ Reopen(j)
  \/ \E S \in SUBSET Jobs : GiveUp(S)

Spec == Init /\ [][Next]_vars
=============================================================================
