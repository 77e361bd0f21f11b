---------------------------- MODULE ChangeTasks ----------------------------
(***************************************************************************)
(* Delegated change execution (src/apps/zhixing-worker/change-tasks.ts)    *)
(* composed with the sample business service it drives (SampleChanges).    *)
(*                                                                         *)
(* A manager delegates a change plan; a worker claims the task, checks the *)
(* manager, looks for the receipt of an earlier execution, reads the plan  *)
(* and applies it.  Every step between two awaits is one action, so the    *)
(* worker can crash, time out or be fenced between any two of them while   *)
(* its request is still travelling.                                        *)
(*                                                                         *)
(* Time is not modelled: a due task (next_run_at <= now) may be claimed at *)
(* any moment, and a claim may expire at any moment.  The claim token is   *)
(* the claiming worker: a process has at most one claim, and a claim of    *)
(* its past life is cleared by the sweep before the row can be claimed     *)
(* again.                                                                  *)
(***************************************************************************)
EXTENDS SampleChanges

VARIABLES
  delegating,  \* delegations that passed their check, not yet inserted
  task,        \* change_tasks, one row per change (UNIQUE(tenant,change_id))
  audit,       \* change_task_audit: statuses recorded for the task
  worker       \* local variables of runChangeTask in each worker process

taskVars == <<delegating, task, audit, worker>>
vars == <<managers, order, plan, mutations, invocation, outbox, call,
          delegating, task, audit, worker>>

Workers == Clients
MaxAttempts == 3

Claimable_Awaiting == {"awaiting_approval"}

(* The statuses a worker claims. *)
Claimable == {"awaiting_approval", "unknown"}
Terminal == {"succeeded", "failed", "rejected", "needs_attention"}
TaskStatus == {"none", "running"} \cup Claimable \cup Terminal
Stages == {"idle", "manager", "receipt", "plans", "apply", "await", "finish"}

TaskRow == [status: TaskStatus, token: Workers \cup {None}, attempts: 0..MaxAttempts,
            actor: Actors \cup {None}]
WorkerRow == [pc: Stages, change: Changes \cup {None}, attempts: 0..MaxAttempts,
              verdict: Claimable \cup Terminal \cup {None}]

(* No verdict is told apart from every verdict. *)
ASSUME NoVerdictAssumption == None \notin Claimable \cup Terminal

IdleWorker == [pc |-> "idle", change |-> None, attempts |-> 0, verdict |-> None]

(* The rows stay within their types; attempts never passes the limit at which a
   result that cannot be determined goes to a person, although it is counted in
   the worker and written back only when the run ends. *)
TypeOK ==
  /\ ChangesTypeOK
  /\ delegating \subseteq Changes \X Actors
  /\ task \in [Changes -> TaskRow]
  /\ \A c \in Changes : task[c].status # "none" => task[c].actor \in Actors
  /\ audit \in [Changes -> SUBSET (Claimable \cup Terminal)]
  /\ worker \in [Workers -> WorkerRow]
  /\ \A w \in Workers : worker[w].pc # "idle" => worker[w].change \in Changes

Init ==
  /\ ChangesInit
  /\ delegating = {}
  /\ task = [c \in Changes |-> [status |-> "none", token |-> None, attempts |-> 0,
                                actor |-> None]]
  /\ audit = [c \in Changes |-> {}]
  /\ worker = [w \in Workers |-> IdleWorker]

-----------------------------------------------------------------------------
(* delegateChange: the plan is read, then the row is inserted.              *)

CheckDelegation(a, c) ==
  /\ a \in managers
  /\ plan[c].status \in {"proposed", "approved", "applied"}
  /\ delegating' = delegating \cup {<<c, a>>}
  /\ UNCHANGED <<changesVars, task, audit, worker>>

(* ON CONFLICT(tenant,change_id) DO NOTHING: the first delegator owns the task. *)
InsertTask(a, c) ==
  /\ <<c, a>> \in delegating
  /\ delegating' = delegating \ {<<c, a>>}
  /\ task' = IF task[c].status = "none"
               THEN [task EXCEPT ![c].status = "awaiting_approval", ![c].actor = a]
               ELSE task
  /\ UNCHANGED <<changesVars, audit, worker>>

-----------------------------------------------------------------------------
(* runChangeTask.                                                           *)

Expirable_Ownerless == {c \in Changes : task[c].status = "running" /\ task[c].token = None}

(* Any claim may be older than two minutes. *)
Expirable == {c \in Changes : task[c].status = "running"}

Expired_Restarted(row) == [row EXCEPT !.status = "awaiting_approval", !.token = None]

Expired(row) == [row EXCEPT !.status = "unknown", !.token = None]

(* Expired claims are taken from their owners, all in one statement. *)
Sweep(w) ==
  /\ worker[w].pc = "idle"
  /\ \E expired \in SUBSET Expirable :
       /\ expired # {}
       /\ task' = [c \in Changes |-> IF c \in expired THEN Expired(task[c]) ELSE task[c]]
  /\ UNCHANGED <<changesVars, delegating, audit, worker>>

Claim(w, c) ==
  /\ worker[w].pc = "idle"
  /\ task[c].status \in Claimable
  /\ task' = [task EXCEPT ![c].status = "running", ![c].token = w]
  /\ worker' = [worker EXCEPT ![w] = [pc |-> "manager", change |-> c,
                                      attempts |-> task[c].attempts, verdict |-> None]]
  /\ UNCHANGED <<changesVars, delegating, audit>>

Job(w) == worker[w].change
GoTo(w, stage) == worker' = [worker EXCEPT ![w].pc = stage]
Conclude(w, v) == worker' = [worker EXCEPT ![w].pc = "finish", ![w].verdict = v]

DefiniteErrors == {"VERSION_CONFLICT", "NOT_FOUND", "FORBIDDEN", "CHANGE_NOT_APPROVED"}

(* The catch block: a refusal ends the task, anything else leaves the result
   unknown until the attempts are used up. *)
Classify(code, attempts) ==
  IF code \in DefiniteErrors THEN "failed"
  ELSE IF attempts >= MaxAttempts THEN "needs_attention" ELSE "unknown"

Fail(w, code) == Conclude(w, Classify(code, worker[w].attempts))

CheckManager(w) ==
  /\ worker[w].pc = "manager"
  /\ IF task[Job(w)].actor \in managers THEN GoTo(w, "receipt") ELSE Fail(w, "FORBIDDEN")
  /\ UNCHANGED <<changesVars, delegating, task, audit>>

(* sampling.invocation.get under the task's key: a receipt ends the task, and
   only NOT_FOUND leads on to the plan. *)
ReadReceipt(w) ==
  LET receipt == invocation[Job(w)]
  IN  /\ worker[w].pc = "receipt"
      /\ IF receipt # None /\ receipt.key = TaskKey(Job(w))
           THEN Conclude(w, "succeeded")
           ELSE GoTo(w, "plans")
      /\ UNCHANGED <<changesVars, delegating, task, audit>>

(* sampling.changes.list: what the plan's status means for the task.  A plan
   applied under another key counts as done.  The version check against the
   delegated snapshot compares immutable columns and cannot fail here. *)
ReadPlan(w) ==
  /\ worker[w].pc = "plans"
  /\ \/ plan[Job(w)].status = "rejected" /\ Conclude(w, "rejected")
     \/ plan[Job(w)].status = "proposed" /\ Conclude(w, "awaiting_approval")
     \/ plan[Job(w)].status = "applied" /\ Conclude(w, "succeeded")
     \/ /\ plan[Job(w)].status = "approved"
        /\ worker' = [worker EXCEPT ![w].pc = "apply", ![w].attempts = @ + 1]
  /\ UNCHANGED <<changesVars, delegating, task, audit>>

SendApply(w) ==
  /\ worker[w].pc = "apply"
  /\ \E i \in Calls : Send(i, w, task[Job(w)].actor, Job(w), TaskKey(Job(w)))
  /\ GoTo(w, "await")
  /\ UNCHANGED <<managers, businessVars, delegating, task, audit>>

Accepted_Any(code) == TRUE

(* completedReceipt: only a completed receipt of this change counts. *)
Accepted(code) == code = "completed"

ReceiveAnswer(w, i) ==
  /\ worker[w].pc = "await"
  /\ call[i] # None
  /\ call[i].client = w
  /\ call[i].stage = "replied"
  /\ IF Accepted(call[i].reply) THEN Conclude(w, "succeeded") ELSE Fail(w, call[i].reply)
  /\ call' = [call EXCEPT ![i] = None]
  /\ UNCHANGED <<managers, businessVars, delegating, task, audit>>

(* The client stops listening; the request itself keeps travelling. *)
Forsake(w) ==
  call' = [i \in Calls |->
             IF call[i] = None THEN None
             ELSE IF call[i].client # w THEN call[i]
             ELSE IF call[i].stage = "replied" THEN None
             ELSE [call[i] EXCEPT !.client = None]]

Owned_AnyClaim(w) == task[Job(w)].status = "running"
Owned_Unfenced(w) == TRUE

(* The claim is still this worker's: WHERE claim_token=$2 AND status='running'. *)
Owned(w) == task[Job(w)].status = "running" /\ task[Job(w)].token = w

(* The result is written, and audited, only by the worker that still owns the
   claim. *)
Finish(w) ==
  LET v == worker[w].verdict
  IN  /\ worker[w].pc = "finish"
      /\ IF Owned(w)
           THEN /\ task' = [task EXCEPT ![Job(w)] = [@ EXCEPT !.status = v, !.token = None,
                                                     !.attempts = worker[w].attempts]]
                /\ audit' = [audit EXCEPT ![Job(w)] = @ \cup {v}]
           ELSE UNCHANGED <<task, audit>>
      /\ worker' = [worker EXCEPT ![w] = IdleWorker]
      /\ UNCHANGED <<changesVars, delegating>>

-----------------------------------------------------------------------------
(* What can go wrong.                                                       *)

(* A lookup fails: the platform database or the service cannot be reached, or
   the service cannot read the directory and answers FORBIDDEN. *)
LookupFails(w) ==
  /\ \/ worker[w].pc \in {"manager", "receipt", "plans"} /\ Fail(w, "SERVICE_ERROR")
     \/ worker[w].pc \in {"receipt", "plans"} /\ Fail(w, "FORBIDDEN")
  /\ UNCHANGED <<changesVars, delegating, task, audit>>

(* The five-second deadline of the apply request passes. *)
Timeout(w) ==
  /\ worker[w].pc = "await"
  /\ Forsake(w)
  /\ Fail(w, "SERVICE_ERROR")
  /\ UNCHANGED <<managers, businessVars, delegating, task, audit>>

(* The process stops, or the final transaction fails and its error reaches the
   worker's loop: the claim stays in the row. *)
Crash(w) ==
  /\ worker[w].pc # "idle"
  /\ Forsake(w)
  /\ worker' = [worker EXCEPT ![w] = IdleWorker]
  /\ UNCHANGED <<managers, businessVars, delegating, task, audit>>

Fault ==
  \/ \E w \in Workers : LookupFails(w) \/ Timeout(w) \/ Crash(w)
  \/ \E i \in Calls : CallFails(i) /\ UNCHANGED taskVars

-----------------------------------------------------------------------------
Run(w) ==
  \/ CheckManager(w) \/ ReadReceipt(w) \/ ReadPlan(w) \/ SendApply(w) \/ Finish(w)
  \/ \E i \in Calls : ReceiveAnswer(w, i)

Next ==
  \/ People /\ UNCHANGED taskVars
  \/ \E i \in Calls : Serve(i) /\ UNCHANGED taskVars
  \/ \E a \in Actors, c \in Changes : CheckDelegation(a, c) \/ InsertTask(a, c)
  \/ \E w \in Workers : Sweep(w) \/ Run(w)
  \/ \E w \in Workers, c \in Changes : Claim(w, c)
  \/ Fault

Spec == Init /\ [][Next]_vars

(* The loop runs forever and every await returns (fetch has a deadline); the
   claim order (next_run_at, pushed 15 s ahead by each run) starves no task. *)
FairSpec ==
  /\ Spec
  /\ \A w \in Workers : WF_vars(Run(w)) /\ WF_vars(Sweep(w))
  /\ \A c \in Changes : SF_vars(\E w \in Workers : Claim(w, c))
  /\ \A i \in Calls : WF_vars(Serve(i) /\ UNCHANGED taskVars)

-----------------------------------------------------------------------------
(* The abstract view: what became of each plan, and the task's final verdict. *)
effect == [c \in Changes |->
             IF plan[c].status \in {"rejected", "applied"} THEN plan[c].status ELSE "pending"]
verdict == [c \in Changes |->
              IF task[c].status \in Terminal THEN task[c].status ELSE "open"]

Outcome == INSTANCE ChangeOutcome

(* Delegated execution keeps the promise of ChangeOutcome: a plan settles once, a
   task reaches one verdict and never leaves it, and it says "succeeded" or
   "rejected" only of a plan that was applied or rejected. *)
KeepsOutcome == Outcome!Spec

-----------------------------------------------------------------------------
(* Properties.                                                              *)

(* The audit tells the task's story: exactly one verdict is ever final, it is the
   one the row shows, and no claimant that lost its claim adds another
   (change-tasks.ts:34). *)
AuditAgrees ==
  \A c \in Changes :
    audit[c] \cap Terminal = IF task[c].status \in Terminal THEN {task[c].status} ELSE {}

(* A worker that was fenced, or that read an older row, never takes back an
   attempt that was written: the count only grows (change-tasks.ts:30-34). *)
AttemptsMonotone ==
  [][\A c \in Changes : task'[c].attempts >= task[c].attempts]_vars

(* Waiting for an approval means nothing was ever tried: once a plan was found
   approved its task never goes back to waiting (change-tasks.ts:26-30). *)
AwaitingIsUntried ==
  \A c \in Changes : task[c].status = "awaiting_approval" => task[c].attempts = 0

(* Whatever happens to its worker, a claim does not last: the task leaves
   "running" (change-tasks.ts:15-17). *)
ClaimsEnd ==
  \A c \in Changes : task[c].status = "running" ~> task[c].status # "running"

(* A run outlasts its claim: its result is dropped. *)
Overtaken == \E w \in Workers : worker[w].pc = "finish" /\ ~Owned(w) /\ Finish(w)

(* When lookups, requests and workers eventually stop failing and runs end within
   their claims, a delegated task whose plan was decided reaches a final status. *)
DecidedTasksSettle ==
  <>[][~(Fault \/ Overtaken)]_vars =>
    \A c \in Changes :
      (task[c].status # "none" /\ plan[c].status \in {"approved", "rejected", "applied"})
        ~> task[c].status \in Terminal

(* The workbench shows "failed" as an execution that failed (ChangePanel.tsx:18)
   and the design asks to query the call before deciding: a failed task then
   has not executed its change. *)
FailedDidNotExecute ==
  \A c \in Changes :
    task[c].status = "failed" => ~(invocation[c] # None /\ invocation[c].key = TaskKey(c))
=============================================================================
