--------------------------- MODULE SampleChanges ---------------------------
(***************************************************************************)
(* The change-plan side of the sample business service                     *)
(* (src/apps/soundlab-api/changes.ts, with the version counter and the     *)
(* outbox that every handler of store.ts shares).                          *)
(*                                                                         *)
(* A change plan is proposed against one version of an order, decided by a *)
(* manager, and applied at most once.  Every transaction takes the         *)
(* tenant's advisory lock first, so a transaction is one step here; what   *)
(* is NOT atomic is the HTTP request around an apply: it is sent, its      *)
(* actor is looked up in the member directory, its transaction commits and *)
(* its answer may come too late or never.                                  *)
(*                                                                         *)
(* One tenant.  A due date, a cost and a reason are immutable contents of  *)
(* the plan (a trigger guards them): the plan's identity stands for them.  *)
(***************************************************************************)
EXTENDS Integers, FiniteSets

CONSTANTS
  Orders,      \* order ids
  Changes,     \* change-plan ids; also names the key 'approved-task-<id>'
  Actors,      \* members that may act as managers
  UserKeys,    \* idempotency keys people send with a direct apply
  Clients,     \* clients that wait for the answer of an apply request
  Calls,       \* slots for apply requests in flight
  None,        \* absent row, nobody, no result
  MaxVersion   \* bound: other handlers stop changing an order here

ASSUME ChangesAssumption ==
  /\ MaxVersion \in Nat
  /\ Changes \cap UserKeys = {}
  /\ None \notin Orders \cup Changes \cup Actors \cup UserKeys \cup Clients

VARIABLES
  managers,    \* enabled managers in the member directory
  order,       \* orders.data: version and approvedChanges
  plan,        \* change_plans
  mutations,   \* mutations rows of applies, by idempotency key
  invocation,  \* change_invocations, by change (change_id is UNIQUE)
  outbox,      \* outbox: <<order, version>> rows
  call         \* apply requests in flight

businessVars == <<order, plan, mutations, invocation, outbox>>
changesVars == <<managers, businessVars, call>>

(* The key runChangeTask derives from the task; a task is unique per change. *)
TaskKey(c) == c
Keys == Changes \cup UserKeys

PlanStatus == {"none", "proposed", "approved", "rejected", "applied"}
Replies == {"completed", "FORBIDDEN", "VERSION_CONFLICT", "CHANGE_NOT_APPROVED",
            "CHANGE_ALREADY_APPLIED", "IDEMPOTENCY_CONFLICT", "SERVICE_ERROR"}

OrderRow == [version: Nat \ {0}, approved: SUBSET (Changes \X Nat)]
PlanRow == [status: PlanStatus, order: Orders \cup {None}, sourceVersion: Nat]
MutationRow == [actor: Actors, change: Changes]
InvocationRow == [key: Keys, version: Nat]
CallRow == [stage: {"sent", "authorised", "replied"}, client: Clients \cup {None},
            actor: Actors, change: Changes, key: Keys, reply: Replies \cup {None}]

(* An absent row is no row. *)
ASSUME NoRowAssumption == None \notin MutationRow /\ None \notin InvocationRow

ChangesTypeOK ==
  /\ managers \subseteq Actors
  /\ order \in [Orders -> OrderRow]
  /\ plan \in [Changes -> PlanRow]
  /\ \A c \in Changes : plan[c].status # "none" => plan[c].order \in Orders
  /\ mutations \in [Keys -> MutationRow \cup {None}]
  /\ invocation \in [Changes -> InvocationRow \cup {None}]
  /\ outbox \subseteq Orders \X Nat
  /\ call \in [Calls -> CallRow \cup {None}]

ChangesInit ==
  /\ managers \in SUBSET Actors
  /\ order = [o \in Orders |-> [version |-> 1, approved |-> {}]]
  /\ plan = [c \in Changes |-> [status |-> "none", order |-> None, sourceVersion |-> 0]]
  /\ mutations = [k \in Keys |-> None]
  /\ invocation = [c \in Changes |-> None]
  /\ outbox = {}
  /\ call = [i \in Calls |-> None]

-----------------------------------------------------------------------------
(* The member directory and the order's other handlers.                     *)

(* A member is promoted, demoted or disabled. *)
ChangeRole(a) ==
  /\ managers' = IF a \in managers THEN managers \ {a} ELSE managers \cup {a}
  /\ UNCHANGED <<businessVars, call>>

Published_Never(o, v) == {}

(* The outbox row written with version v of an order. *)
Published(o, v) == {<<o, v>>}

(* Feedback, assignment, acceptance, configuration, attachment: each bumps the
   version of the order and publishes it, in one transaction. *)
Mutate(o) ==
  /\ order[o].version < MaxVersion
  /\ order' = [order EXCEPT ![o].version = @ + 1]
  /\ outbox' = outbox \cup Published(o, order[o].version + 1)
  /\ UNCHANGED <<managers, plan, mutations, invocation, call>>

-----------------------------------------------------------------------------
(* Proposal and decision.                                                   *)

AtSource(c) == order[plan[c].order].version = plan[c].sourceVersion

(* proposeChange: the version the proposer saw must be the order's version. *)
Propose(a, c, o) ==
  /\ a \in managers
  /\ plan[c].status = "none"
  /\ plan' = [plan EXCEPT ![c] = [status |-> "proposed", order |-> o,
                                  sourceVersion |-> order[o].version]]
  /\ UNCHANGED <<managers, order, mutations, invocation, outbox, call>>

(* decideChange: only an undecided plan whose source version is still current. *)
Decide(a, c, decision) ==
  /\ a \in managers
  /\ plan[c].status = "proposed"
  /\ AtSource(c)
  /\ plan' = [plan EXCEPT ![c].status = decision]
  /\ UNCHANGED <<managers, order, mutations, invocation, outbox, call>>

-----------------------------------------------------------------------------
(* applyChange: one request in flight is one row of "call".                 *)

Send(i, w, a, c, k) ==
  /\ call[i] = None
  /\ call' = [call EXCEPT ![i] = [stage |-> "sent", client |-> w, actor |-> a,
                                  change |-> c, key |-> k, reply |-> None]]

(* A person applies the plan from the workbench.  Nothing here depends on the
   answer this person gets, so nobody waits for it. *)
SendByUser(i, a, c, k) ==
  /\ plan[c].status # "none"
  /\ Send(i, None, a, c, k)
  /\ UNCHANGED <<managers, businessVars>>

(* The handler answers; an answer nobody waits for is dropped. *)
Answer(i, code) ==
  call' = [call EXCEPT ![i] = IF @.client = None THEN None
                              ELSE [@ EXCEPT !.stage = "replied", !.reply = code]]

(* installBusinessAuthorization reads the directory once, before the handler;
   the transaction that follows keeps using what it read. *)
Authorise(i) ==
  /\ call[i] # None
  /\ call[i].stage = "sent"
  /\ IF call[i].actor \in managers
       THEN call' = [call EXCEPT ![i].stage = "authorised"]
       ELSE Answer(i, "FORBIDDEN")
  /\ UNCHANGED <<managers, businessVars>>

(* The directory does not answer 200 (FORBIDDEN) or the transaction rolls back. *)
CallFails(i) ==
  /\ call[i] # None
  /\ \/ call[i].stage = "sent" /\ Answer(i, "FORBIDDEN")
     \/ call[i].stage # "replied" /\ Answer(i, "SERVICE_ERROR")
  /\ UNCHANGED <<managers, businessVars>>

Fingerprint(i) == [actor |-> call[i].actor, change |-> call[i].change]

CanApply_Unversioned(i) ==
  mutations[call[i].key] = None /\ plan[call[i].change].status = "approved"
CanApply_Unkeyed(i) ==
  plan[call[i].change].status = "approved" /\ AtSource(call[i].change)

(* No row under the key, an approved plan, and the order still at its source. *)
CanApply(i) ==
  /\ mutations[call[i].key] = None
  /\ plan[call[i].change].status = "approved"
  /\ AtSource(call[i].change)

(* The order, the plan, the receipt, the event and the idempotency row commit
   together. *)
Apply(i) ==
  LET c == call[i].change
      o == plan[c].order
      v == order[o].version + 1
  IN  /\ call[i] # None
      /\ call[i].stage = "authorised"
      /\ CanApply(i)
      /\ order' = [order EXCEPT ![o] = [version |-> v, approved |-> @.approved \cup {<<c, v>>}]]
      /\ plan' = [plan EXCEPT ![c].status = "applied"]
      /\ invocation' = [invocation EXCEPT ![c] = [key |-> call[i].key, version |-> v]]
      /\ outbox' = outbox \cup Published(o, v)
      /\ mutations' = [mutations EXCEPT ![call[i].key] = Fingerprint(i)]
      /\ Answer(i, "completed")
      /\ UNCHANGED managers

(* What applyChange answers when it changes nothing: the stored result of the
   key first, then the plan's status, then the order's version. *)
Refusal(i) ==
  LET row == mutations[call[i].key]
      status == plan[call[i].change].status
  IN  CASE row = Fingerprint(i)              -> "completed"
        [] row \notin {None, Fingerprint(i)} -> "IDEMPOTENCY_CONFLICT"
        [] row = None /\ status = "applied"  -> "CHANGE_ALREADY_APPLIED"
        [] row = None /\ status \notin {"applied", "approved"} -> "CHANGE_NOT_APPROVED"
        [] OTHER                             -> "VERSION_CONFLICT"

Refuse(i) ==
  /\ call[i] # None
  /\ call[i].stage = "authorised"
  /\ ~CanApply(i)
  /\ Answer(i, Refusal(i))
  /\ UNCHANGED <<managers, businessVars>>

-----------------------------------------------------------------------------
(* Steps of people and of the service itself. *)
People ==
  \/ \E a \in Actors : ChangeRole(a)
  \/ \E o \in Orders : Mutate(o)
  \/ \E a \in Actors, c \in Changes, o \in Orders : Propose(a, c, o)
  \/ \E a \in Actors, c \in Changes, d \in {"approved", "rejected"} : Decide(a, c, d)
  \/ \E i \in Calls, a \in Actors, c \in Changes, k \in UserKeys : SendByUser(i, a, c, k)

Serve(i) == Authorise(i) \/ Apply(i) \/ Refuse(i)

(* The service on its own, driven by people. *)
ChangesNext == People \/ \E i \in Calls : Serve(i) \/ CallFails(i)
ChangesSpec == ChangesInit /\ [][ChangesNext]_changesVars

-----------------------------------------------------------------------------
(* Properties of the business tables.                                       *)

(* The order, the plan and the receipt never disagree: a change is listed in its
   order's approvedChanges exactly when its plan is applied and its receipt is
   stored, and then exactly once, as the successor of the very version that was
   proposed and decided on (changes.ts applyChange; acceptance A4). *)
LedgerAgrees ==
  /\ \A o \in Orders :
       order[o].approved = {<<c, plan[c].sourceVersion + 1>> : c \in
                              {d \in Changes : plan[d].status = "applied" /\ plan[d].order = o}}
  /\ \A c \in Changes :
       IF plan[c].status = "applied"
         THEN invocation[c] # None /\ invocation[c].version = plan[c].sourceVersion + 1
         ELSE invocation[c] = None

(* An idempotency key names one execution for good: the row under the key and the
   receipt it replays belong to the same change, so a retried request can neither
   execute a second change nor be answered with another's receipt
   (changes.ts replay, remember, UNIQUE(tenant,key)). *)
KeysNameOneExecution ==
  /\ \A c \in Changes : invocation[c] # None =>
       /\ mutations[invocation[c].key] # None
       /\ mutations[invocation[c].key].change = c
  /\ \A k \in Keys : mutations[k] # None =>
       /\ invocation[mutations[k].change] # None
       /\ invocation[mutations[k].change].key = k

(* Every committed version of an order after the first has its event, and no
   event announces a version that does not exist: a poller that reads the outbox
   learns of every change (store.ts mutate, changes.ts applyChange). *)
OutboxComplete == outbox = UNION {{o} \X (2..order[o].version) : o \in Orders}
=============================================================================
