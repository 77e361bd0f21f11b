----------------------------- MODULE EventFeed -----------------------------
(***************************************************************************)
(* The event feed from the sample business service to the platform worker: *)
(* the outbox that business transactions append to (soundlab-api/store.ts, *)
(* changes.ts), the /events page (soundlab-api/server.ts) and the poller   *)
(* with its durable cursor (zhixing-worker/event-poll.ts).                 *)
(*                                                                         *)
(* outbox.sequence is a bigserial: a position is taken when the row is     *)
(* inserted, by every tenant from one counter, and is lost on rollback.    *)
(* The row becomes visible only when its transaction commits.  A tenant's  *)
(* advisory lock is held from the first statement to the commit.           *)
(*                                                                         *)
(* An event is its position.  Two pollers stand for the moment in which a  *)
(* worker that lost its lock connection still polls beside its successor.  *)
(***************************************************************************)
EXTENDS Integers, FiniteSets

CONSTANTS
  Tenants,      \* tenants with a feed
  Writers,      \* business transactions that may run at the same time
  Pollers,      \* worker processes that may poll at the same time
  InScope,      \* <<tenant, event>> pairs that are analysed (modelScopeAllows)
  Demo,         \* the tenant the retired shared cursor belonged to
  Retired,      \* position of the retired shared cursor
  Page,         \* events per page (LIMIT 100)
  None,
  MaxSequence   \* bound: last position the service takes here

ASSUME FeedAssumption ==
  /\ InScope \subseteq Tenants \X Nat /\ Demo \in Tenants
  /\ Retired \in Nat /\ Page \in Nat \ {0} /\ MaxSequence \in Nat
  /\ None \notin Nat \cup Tenants \cup Writers

VARIABLES
  sequence,  \* last position taken
  lock,      \* holder of each tenant's advisory lock
  writer,    \* running transactions: tenant and rows inserted so far
  outbox,    \* committed positions of each tenant
  cursor,    \* worker_cursor, the row 'sample-events:<tenant>'
  activity,  \* activity rows of each tenant
  jobs,      \* analysis_jobs rows of each tenant
  poller     \* local variables of pollTenantEvents in each process

serviceVars == <<sequence, lock, writer, outbox>>
platformVars == <<cursor, activity, jobs>>
vars == <<sequence, lock, writer, outbox, cursor, activity, jobs, poller>>

IdleWriter == [tenant |-> None, rows |-> {}]
IdlePoller == [pc |-> "idle", tenant |-> None, after |-> 0, page |-> {}]

WriterRow == [tenant: Tenants \cup {None}, rows: SUBSET Nat]
PollerRow == [pc: {"idle", "fetch", "store"}, tenant: Tenants \cup {None}, after: Nat,
              page: SUBSET Nat]

TypeOK ==
  /\ sequence \in Nat
  /\ lock \in [Tenants -> Writers \cup {None}]
  /\ writer \in [Writers -> WriterRow]
  /\ outbox \in [Tenants -> SUBSET Nat]
  /\ cursor \in [Tenants -> Nat \cup {None}]
  /\ activity \in [Tenants -> SUBSET Nat]
  /\ jobs \in [Tenants -> SUBSET Nat]
  /\ poller \in [Pollers -> PollerRow]
  /\ \A p \in Pollers : poller[p].pc # "idle" => poller[p].tenant \in Tenants

(* The retired cursor has read what there was; its tenant may already have a
   cursor of its own, even one that starts over at zero. *)
Init ==
  /\ sequence = Retired
  /\ lock = [t \in Tenants |-> None]
  /\ writer = [x \in Writers |-> IdleWriter]
  /\ outbox = [t \in Tenants |-> IF t = Demo THEN 1..Retired ELSE {}]
  /\ activity = outbox
  /\ jobs = [t \in Tenants |-> {e \in outbox[t] : <<t, e>> \in InScope}]
  /\ \E c \in {None, 0} : cursor = [t \in Tenants |-> IF t = Demo THEN c ELSE None]
  /\ poller = [p \in Pollers |-> IdlePoller]

-----------------------------------------------------------------------------
(* Business transactions.                                                   *)

Free_Always(t) == TRUE

(* pg_advisory_xact_lock(tenant) is granted to one transaction at a time. *)
Free(t) == lock[t] = None

Begin(x, t) ==
  /\ writer[x].tenant = None
  /\ Free(t)
  /\ lock' = [lock EXCEPT ![t] = x]
  /\ writer' = [writer EXCEPT ![x].tenant = t]
  /\ UNCHANGED <<sequence, outbox, platformVars, poller>>

(* One row per change of an order; a batch of projects inserts several. *)
InsertRow(x) ==
  /\ writer[x].tenant # None
  /\ sequence < MaxSequence
  /\ sequence' = sequence + 1
  /\ writer' = [writer EXCEPT ![x].rows = @ \cup {sequence + 1}]
  /\ UNCHANGED <<lock, outbox, platformVars, poller>>

EndTransaction(x) ==
  /\ lock' = [lock EXCEPT ![writer[x].tenant] = None]
  /\ writer' = [writer EXCEPT ![x] = IdleWriter]
  /\ UNCHANGED <<sequence, platformVars, poller>>

Commit(x) ==
  /\ writer[x].tenant # None
  /\ outbox' = [outbox EXCEPT ![writer[x].tenant] = @ \cup writer[x].rows]
  /\ EndTransaction(x)

Rollback(x) ==
  /\ writer[x].tenant # None
  /\ EndTransaction(x)
  /\ UNCHANGED outbox

-----------------------------------------------------------------------------
(* pollTenantEvents.                                                        *)

(* ON CONFLICT(name) DO NOTHING: the retired position is adopted only by a tenant
   that has no cursor of its own. *)
Adopted(t) == IF t = Demo /\ cursor[t] = None THEN Retired ELSE cursor[t]

(* rows[0]?.value??0 *)
Position(t) == IF Adopted(t) = None THEN 0 ELSE Adopted(t)

ReadCursor(p, t) ==
  /\ poller[p].pc = "idle"
  /\ cursor' = [cursor EXCEPT ![t] = Adopted(t)]
  /\ poller' = [poller EXCEPT ![p] = [pc |-> "fetch", tenant |-> t, page |-> {},
                                      after |-> Position(t)]]
  /\ UNCHANGED <<serviceVars, activity, jobs>>

NextPage_Contiguous(t, after) == {e \in outbox[t] : e > after /\ e <= after + Page}

(* SELECT ... WHERE sequence > after ORDER BY sequence LIMIT Page. *)
NextPage(t, after) ==
  LET rest == {e \in outbox[t] : e > after}
  IN  {e \in rest : Cardinality({f \in rest : f <= e}) <= Page}

Fetch(p) ==
  /\ poller[p].pc = "fetch"
  /\ poller' = [poller EXCEPT ![p].pc = "store",
                              ![p].page = NextPage(poller[p].tenant, poller[p].after)]
  /\ UNCHANGED <<serviceVars, platformVars>>

Earliest_Any(e, page) == TRUE

(* for(const event of events): in the order of the page. *)
Earliest(e, page) == \A f \in page : e <= f

Advanced_Set(old, e) == e

(* greatest(worker_cursor.value, excluded.value) *)
Advanced(old, e) == IF old # None /\ old > e THEN old ELSE e

(* The activity, the analysis job and the cursor are written in one transaction;
   an event that is already there changes nothing but the cursor. *)
Store(p, e) ==
  LET t == poller[p].tenant
  IN  /\ poller[p].pc = "store"
      /\ e \in poller[p].page
      /\ Earliest(e, poller[p].page)
      /\ activity' = [activity EXCEPT ![t] = @ \cup {e}]
      /\ jobs' = IF <<t, e>> \in InScope THEN [jobs EXCEPT ![t] = @ \cup {e}] ELSE jobs
      /\ cursor' = [cursor EXCEPT ![t] = Advanced(@, e)]
      /\ poller' = [poller EXCEPT ![p].page = @ \ {e}]
      /\ UNCHANGED serviceVars

EndPoll(p) ==
  /\ poller[p].pc = "store"
  /\ poller[p].page = {}
  /\ poller' = [poller EXCEPT ![p] = IdlePoller]
  /\ UNCHANGED <<serviceVars, platformVars>>

(* The service does not answer, a transaction rolls back, or the process stops:
   the rest of the page is dropped and the loop goes on with the next tenant. *)
PollFails(p) ==
  /\ poller[p].pc = "fetch" \/ poller[p].page # {}
  /\ poller' = [poller EXCEPT ![p] = IdlePoller]
  /\ UNCHANGED <<serviceVars, platformVars>>

-----------------------------------------------------------------------------
Poll(p) == Fetch(p) \/ EndPoll(p) \/ \E e \in poller[p].page : Store(p, e)

Next ==
  \/ \E x \in Writers, t \in Tenants : Begin(x, t)
  \/ \E x \in Writers : InsertRow(x) \/ Commit(x) \/ Rollback(x)
  \/ \E p \in Pollers, t \in Tenants : ReadCursor(p, t)
  \/ \E p \in Pollers : Poll(p) \/ PollFails(p)

Spec == Init /\ [][Next]_vars

(* The loop visits every tenant again and again, and every await returns. *)
FairSpec ==
  /\ Spec
  /\ \A p \in Pollers : WF_vars(Poll(p))
  /\ \A t \in Tenants : SF_vars(\E p \in Pollers : ReadCursor(p, t))

-----------------------------------------------------------------------------
(* Properties.                                                              *)

(* The comment in store.ts:47: a polling cursor cannot skip an earlier
   uncommitted sequence.  Whatever commits, it commits behind no cursor, and what
   a cursor has passed is recorded and, where it is analysed, queued. *)
NoEventSkipped ==
  \A t \in Tenants : cursor[t] # None =>
    \A e \in outbox[t] : e <= cursor[t] =>
      e \in activity[t] /\ (<<t, e>> \in InScope => e \in jobs[t])

(* A cursor never goes back, whichever of two overlapping pollers writes last, and
   an existing cursor is never replaced by the retired one (event-poll.ts:8-18). *)
CursorAdvances ==
  [][\A t \in Tenants : cursor[t] # None => cursor'[t] # None /\ cursor'[t] >= cursor[t]]_vars

Log == INSTANCE EventLog WITH published <- outbox, delivered <- activity

(* The activity list of a tenant is its outbox, read in order, each event once. *)
KeepsLog == Log!Spec

FailsFor(t) == \E p \in Pollers : poller[p].tenant = t /\ PollFails(p)

(* A tenant whose polls eventually stop failing receives every event, whatever
   keeps failing for the other tenants (worker server.ts:72). *)
EveryEventArrives ==
  \A t \in Tenants :
    <>[][~FailsFor(t)]_vars =>
      \A e \in 1..MaxSequence : (e \in outbox[t]) ~> (e \in activity[t])
=============================================================================
