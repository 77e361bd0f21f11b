------------------------------- MODULE Patrol -------------------------------
(***************************************************************************)
(* Patrols of one tenant (src/apps/zhixing-worker/patrol.ts).              *)
(*                                                                         *)
(* A patrol is one transaction that holds the row of the policy; it lists  *)
(* the orders over HTTP, has the exceptions reconciled in a transaction of *)
(* their own, reads them order by order while people go on working, and    *)
(* commits reminders and escalations.  It may fail at any point, also      *)
(* after the reconciliation is committed; and its connection, and with it  *)
(* the lock, may be gone while it still waits for a listing.               *)
(*                                                                         *)
(* A due patrol may run at any moment; the threshold of an escalation is   *)
(* counted in days.  Of the policy only the scope is kept.                 *)
(***************************************************************************)
EXTENDS Exceptions

CONSTANTS
  Scopes,     \* lists of orders that a policy may have, existing orders or not
  Workers,    \* worker processes
  Threshold,  \* escalationAfterHours, in days
  MaxPolicy   \* bound: versions of the policy

VARIABLES
  policy,  \* patrol_policy: version and orderIds
  holder,  \* the worker whose transaction holds the policy's row
  ledger,  \* patrol_issue_state, patrol_inbox, patrol_escalations
  draft,   \* the same tables as the transaction of the holder sees them
  run      \* local variables of runPatrol in each worker

vars == <<facts, day, source, exc, mutation, page, policy, holder, ledger, draft, run>>

ASSUME PatrolAssumption ==
  /\ Threshold \in Nat \ {0}
  /\ MaxPolicy \in Nat
  /\ None \notin Workers

IssueState == [active: BOOLEAN, episode: Nat, first: 0..MaxDay]
Ledger == [state: [Objects -> [Issues -> IssueState]],
           inbox: SUBSET (Objects \X Issues \X (0..MaxDay)),
           escalations: SUBSET (Objects \X Issues \X Nat)]
Run == [pc: {"idle", "list", "reconcile", "examine"}, day: 0..MaxDay,
        list: [Objects -> Observation \cup {None}], todo: SUBSET Objects]

EmptyLedger ==
  [state |-> [o \in Objects |->
                [k \in Issues |-> [active |-> FALSE, episode |-> 0, first |-> 0]]],
   inbox |-> {}, escalations |-> {}]
IdleRun == [pc |-> "idle", day |-> 0, list |-> [o \in Objects |-> None], todo |-> {}]

TypeOK ==
  /\ ExceptionsTypeOK
  /\ policy \in [version: 0..MaxPolicy, scope: Scopes \cup {{}}]
  /\ holder \in Workers \cup {None}
  /\ ledger \in Ledger
  /\ draft \in Ledger
  /\ run \in [Workers -> Run]

Init ==
  /\ ExceptionsInit
  /\ policy = [version |-> 0, scope |-> {}]
  /\ holder = None
  /\ ledger = EmptyLedger
  /\ draft = EmptyLedger
  /\ run = [w \in Workers |-> IdleRun]

-----------------------------------------------------------------------------
(* An empty list of names means all orders. *)
Selected == IF policy.scope = {} THEN Objects ELSE Objects \cap policy.scope

(* savePolicy: by a manager who saw the current version.  It waits for a patrol. *)
SavePolicy ==
  /\ holder = None
  /\ policy.version < MaxPolicy
  /\ \E scope \in Scopes :
       policy' = [version |-> policy.version + 1, scope |-> scope]
  /\ UNCHANGED <<businessVars, exceptionVars, holder, ledger, draft, run>>

(* FOR UPDATE SKIP LOCKED *)
Begin(w) ==
  /\ run[w].pc = "idle"
  /\ policy.version > 0
  /\ holder = None
  /\ holder' = w
  /\ run' = [run EXCEPT ![w] = [IdleRun EXCEPT !.pc = "list", !.day = day]]
  /\ draft' = ledger
  /\ UNCHANGED <<businessVars, exceptionVars, policy, ledger>>

Listed_AllSelected == [o \in Objects |-> IF o \in Selected
                                           THEN Listing(o)
                                           ELSE [Listing(o) EXCEPT !.issues = {}]]

(* The orders of the policy's scope, as the service has them now. *)
Listed == [o \in Objects |-> IF o \in Selected THEN Listing(o) ELSE None]

List(w) ==
  /\ run[w].pc = "list"
  /\ run' = [run EXCEPT ![w].pc = "reconcile", ![w].list = Listed]
  /\ UNCHANGED <<businessVars, exceptionVars, policy, holder, ledger, draft>>

(* On another connection, so it commits whatever becomes of the patrol. *)
Reconcile(w) ==
  /\ run[w].pc = "reconcile"
  /\ ReconcileExceptions(run[w].list)
  /\ run' = [run EXCEPT ![w].pc = "examine",
                        ![w].todo = {o \in Objects : run[w].list[o] # None}]
  /\ UNCHANGED <<businessVars, policy, holder, ledger, draft>>

(* The transaction of the patrol still lives. *)
Held(w) == holder = w

Outstanding(o) == {k \in Issues : exc[o][k].status \in {"open", "in_progress"}}

Tracked_Listed(o, listed) == listed

(* The issues listed, and those still being worked on. *)
Tracked(o, listed) == listed \cup Outstanding(o)

(* An issue that was not active starts a new episode. *)
Entered(state, today) ==
  IF state.active
    THEN state
    ELSE [active |-> TRUE, episode |-> state.episode + 1, first |-> today]

States(rows, tracked, today) ==
  [k \in Issues |-> IF k \in tracked
                      THEN Entered(rows[k], today)
                      ELSE [rows[k] EXCEPT !.active = FALSE]]

Overdue_SameDay(state, today) == today - state.first >= Threshold - 1

(* It has been waiting for the threshold, since the start of its episode. *)
Overdue(state, today) == today - state.first >= Threshold

(* One turn of the loop over the listed orders. *)
Examine(w, o) ==
  LET listed == run[w].list[o].issues
      tracked == Tracked(o, listed)
      today == run[w].day
      states == States(draft.state[o], tracked, today)
      late == {k \in tracked : /\ Overdue(states[k], today)
                               /\ exc[o][k].status \notin {"resolved", "closed"}}
  IN  /\ run[w].pc = "examine"
      /\ Held(w)
      /\ o \in run[w].todo
      /\ run' = [run EXCEPT ![w].todo = @ \ {o}]
      /\ draft' = [state |-> [draft.state EXCEPT ![o] = states],
                   inbox |-> draft.inbox \cup {<<o, k, today>> : k \in listed},
                   escalations |-> draft.escalations \cup
                                     {<<o, k, states[k].episode>> : k \in late}]
      /\ UNCHANGED <<businessVars, exceptionVars, policy, holder, ledger>>

(* The transaction of w ends, if there still is one. *)
End(w) ==
  IF holder = w
    THEN holder' = None /\ draft' = EmptyLedger
    ELSE UNCHANGED <<holder, draft>>

Commit(w) ==
  /\ run[w].pc = "examine"
  /\ Held(w)
  /\ run[w].todo = {}
  /\ ledger' = draft
  /\ End(w)
  /\ run' = [run EXCEPT ![w] = IdleRun]
  /\ UNCHANGED <<businessVars, exceptionVars, policy>>

-----------------------------------------------------------------------------
(* Anything throws, the worker dies, or the transaction turns out to be gone. *)
Rollback(w) ==
  /\ run[w].pc # "idle"
  /\ End(w)
  /\ run' = [run EXCEPT ![w] = IdleRun]
  /\ UNCHANGED <<businessVars, exceptionVars, policy, ledger>>

(* The reconciliation commits, its answer is lost. *)
ReconcileUnanswered(w) ==
  /\ run[w].pc = "reconcile"
  /\ ReconcileExceptions(run[w].list)
  /\ End(w)
  /\ run' = [run EXCEPT ![w] = IdleRun]
  /\ UNCHANGED <<businessVars, policy, ledger>>

(* The database ends the transaction of a patrol that waits for another answer and does
   not know it.  (Once it examines, its next statement tells: that is a Rollback.) *)
LoseRow(w) ==
  /\ run[w].pc \in {"list", "reconcile"}
  /\ holder = w
  /\ End(w)
  /\ UNCHANGED <<businessVars, exceptionVars, policy, ledger, run>>

Fault == \E w \in Workers : ReconcileUnanswered(w) \/ LoseRow(w)
                            \/ (Rollback(w) /\ Held(w))

(* What is left to a patrol that lost its row. *)
GiveUp(w) == Rollback(w) /\ ~Held(w)

Business == /\ NextDay \/ \E o \in Objects : Change(o)
            /\ UNCHANGED <<exceptionVars, policy, holder, ledger, draft, run>>

People == /\ Transition \/ \E m \in Members : ListExceptions(m)
          /\ UNCHANGED <<businessVars, policy, holder, ledger, draft, run>>

Work(w) ==
  \/ List(w) \/ Reconcile(w) \/ Commit(w)
  \/ \E o \in Objects : Examine(w, o)

Next ==
  \/ Business \/ People \/ SavePolicy
  \/ \E w \in Workers : Begin(w) \/ Work(w) \/ GiveUp(w)
  \/ Fault

Spec == Init /\ [][Next]_vars

(* Days pass, the loop of the worker runs for ever and each of its calls ends. *)
FairSpec ==
  /\ Spec
  /\ WF_vars(NextDay /\ Business)
  /\ \A w \in Workers : WF_vars(Work(w) \/ GiveUp(w)) /\ SF_vars(Begin(w))

-----------------------------------------------------------------------------
(* Properties.                                                              *)

(* Late listings, lost transactions and partial scopes included, the exceptions never
   go back to an older observation (exceptions.ts:21). *)
SourceAdvances == [][SourceNeverGoesBack(source, source')]_source

(* Nobody decides on a record that a patrol or another person changed behind the page
   they look at, by any sequence of listings, patrols and decisions
   (exceptions.ts:23-24,35-37). *)
DecisionsAsSeen == [][DecidedAsSeen(mutation, mutation', exc)]_mutation

(* An escalation is earned by the episode it belongs to: it names no episode that has
   not begun, and the present one only after its threshold, whatever patrols were
   undone or overtaken (patrol.ts:39-45). *)
EscalationsEarned ==
  \A entry \in ledger.escalations :
    LET state == ledger.state[entry[1]][entry[2]]
    IN  /\ entry[3] <= state.episode
        /\ entry[3] = state.episode => state.first + Threshold <= day

(* A failed patrol; a rollback with nothing to undo is none. *)
Failure == Fault /\ ~\E w \in Workers : Commit(w)

Current(o) ==
  /\ source[o].version = facts[o].version
  /\ source[o].day = day
  /\ \A k \in facts[o].issues : <<o, k, day>> \in ledger.inbox

(* Once faults stop, every order of the scope is known as it is, and its issues were
   reminded of on the day, also those that a failed patrol had already reconciled
   (patrol.ts:30-41). *)
OrdersNoticed ==
  <>[][~Failure]_vars =>
    \A o \in Objects : <>[](policy.version > 0 /\ o \in Selected => Current(o))

Escalated(o, k) == <<o, k, ledger.state[o][k].episode>> \in ledger.escalations

Waiting(o, k) ==
  /\ k \in Outstanding(o)
  /\ ledger.state[o][k].active
  /\ ledger.state[o][k].first + Threshold <= MaxDay

(* An exception that nobody resolves is escalated to the manager when its time is up,
   also when its evidence is gone (patrol.ts:36,42-47, patrol-unresolved.test.ts:3). *)
UnresolvedEscalate ==
  <>[][~Failure]_vars =>
    \A o \in Objects, k \in Issues :
      Waiting(o, k) ~> (k \notin Outstanding(o) \/ o \notin Selected \/ Escalated(o, k))
=============================================================================
