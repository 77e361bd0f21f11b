---------------------------- MODULE ChatPromise ----------------------------
(***************************************************************************)
(* What the assistant promises about a question, without workers, claims   *)
(* or restarts: the model is consulted at most once, only a consulted      *)
(* question is answered, one about an order is answered with evidence, and *)
(* what a question ended with, its evidence included, is final.            *)
(***************************************************************************)
EXTENDS Naturals

CONSTANTS
  Questions,
  Evidence

VARIABLES
  state,      \* of each question
  aboutOrder, \* does it name an order?
  consulted,  \* how often the model was asked
  shown       \* evidence that is kept with it

vars == <<state, aboutOrder, consulted, shown>>

Init ==
  /\ state = [q \in Questions |-> "none"]
  /\ aboutOrder = [q \in Questions |-> FALSE]
  /\ consulted = [q \in Questions |-> 0]
  /\ shown = [q \in Questions |-> {}]

Ask(q) ==
  /\ state[q] = "none"
  /\ state' = [state EXCEPT ![q] = "open"]
  /\ \E about \in BOOLEAN : aboutOrder' = [aboutOrder EXCEPT ![q] = about]
  /\ UNCHANGED <<consulted, shown>>

(* The model may still be asked about a question that was given up meanwhile. *)
Consult(q) ==
  /\ state[q] # "none"
  /\ consulted[q] = 0
  /\ consulted' = [consulted EXCEPT ![q] = 1]
  /\ UNCHANGED <<state, aboutOrder, shown>>

Gather(q, e) ==
  /\ state[q] = "open"
  /\ consulted[q] = 1
  /\ shown' = [shown EXCEPT ![q] = @ \cup {e}]
  /\ UNCHANGED <<state, aboutOrder, consulted>>

Answer(q) ==
  /\ state[q] = "open"
  /\ consulted[q] = 1
  /\ aboutOrder[q] => shown[q] # {}
  /\ state' = [state EXCEPT ![q] = "answered"]
  /\ UNCHANGED <<aboutOrder, consulted, shown>>

(* A restart gives up all the questions under way. *)
GiveUp(S) ==
  /\ \A q \in S : state[q] = "open"
  /\ state' = [q \in Questions |-> IF q \in S THEN "givenUp" ELSE state[q]]
  /\ UNCHANGED <<aboutOrder, consulted, shown>>

Next ==
  \/ \E q \in Questions : Ask(q) \/ Consult(q) \/ Answer(q) \/ \E e \in Evidence : Gather(q, e)
  \/ \E S \in SUBSET Questions : GiveUp(S)

Spec == Init /\ [][Next]_vars
=============================================================================
