------------------------------ MODULE EventLog ------------------------------
(***************************************************************************)
(* What the event feed promises, without transactions, cursors or pollers: *)
(* per tenant a log that only grows at its end, and a reader that takes    *)
(* its events one by one, in order, none twice and none left out.          *)
(***************************************************************************)
EXTENDS Naturals

CONSTANT Tenants

VARIABLES
  published,  \* positions of the tenant's log
  delivered   \* positions the reader has taken

vars == <<published, delivered>>

(* A log may have a history that was read before. *)
Init ==
  /\ published \in [Tenants -> SUBSET Nat]
  /\ delivered = published

(* Any number of events is published behind the last one; positions may be skipped,
   but never filled in later. *)
Publish(t) ==
  /\ published[t] \subseteq published'[t]
  /\ \A new \in published'[t] \ published[t], old \in published[t] : new > old
  /\ published' = [published EXCEPT ![t] = published'[t]]
  /\ UNCHANGED delivered

Deliver(t, e) ==
  /\ e \in published[t] \ delivered[t]
  /\ \A f \in published[t] : f < e => f \in delivered[t]
  /\ delivered' = [delivered EXCEPT ![t] = @ \cup {e}]
  /\ UNCHANGED published

Next ==
  \E t \in Tenants : Publish(t) \/ \E e \in published[t] : Deliver(t, e)

Spec == Init /\ [][Next]_vars
=============================================================================
