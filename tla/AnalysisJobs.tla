---------------------------- MODULE AnalysisJobs ----------------------------
(***************************************************************************)
(* The model-analysis queue (src/apps/zhixing-worker/jobs.ts) and the loop *)
(* that works it off (analysisLoop in server.ts).                          *)
(*                                                                         *)
(* An event is queued once.  A worker claims a job, runs the model and     *)
(* writes the result; a failed run is repeated until three were made, then *)
(* the job waits for a manager, who may grant it three more.  The writes   *)
(* of a worker are fenced by its claim token, because a replacement may    *)
(* have recovered its jobs while the model was still running.              *)
(*                                                                         *)
(* Time is not modelled: a due job may be claimed at any moment.  The      *)
(* claim token is the claiming worker: a process has one claim at a time,  *)
(* and its next life recovers every claim before it makes one.  updated_at *)
(* is a counter: the clock moves between two writes.                       *)
(***************************************************************************)
EXTENDS Integers, FiniteSets, WorkerProcess

CONSTANTS
  Jobs,       \* event ids
  Managers,   \* members that may retry
  MaxRetries  \* bound: retries that managers grant one job

ASSUME JobsAssumption == MaxRetries \in Nat

VARIABLES
  job,    \* analysis_jobs
  audit,  \* analysis_retry_audit: the failures that were seen and granted a retry, by job
  run,    \* local variables of analysisLoop in each process
  seen,   \* eventId and expectedUpdatedAt in each manager's list
  spent   \* history: runs claimed for each job

jobVars == <<job, audit, run, seen, spent>>
vars == <<lock, life, stopped, job, audit, run, seen, spent>>

MaxAttempts == 3
Claimable_Queued == {"queued"}

(* status IN ('queued','retry') *)
Claimable == {"queued", "retry"}
Statuses == {"none", "running", "completed", "failed"} \cup Claimable

JobRow == [status: Statuses, attempts: 0..MaxAttempts, token: Workers \cup {None},
           updated: Nat, answer: Nat]
RunRow == [pc: {"idle", "model", "failing"}, job: Jobs \cup {None}, attempts: 0..MaxAttempts,
           id: Nat]
IdleRun == [pc |-> "idle", job |-> None, attempts |-> 0, id |-> 0]

TypeOK ==
  /\ ProcessTypeOK
  /\ job \in [Jobs -> JobRow]
  /\ audit \in [Jobs -> SUBSET Nat]
  /\ run \in [Workers -> RunRow]
  /\ \A w \in Workers : run[w].pc # "idle" => run[w].job \in Jobs
  /\ seen \in [Managers -> [job: Jobs \cup {None}, updated: Nat]]
  /\ spent \in [Jobs -> Nat]

Init ==
  /\ ProcessInit
  /\ job = [j \in Jobs |-> [status |-> "none", attempts |-> 0, token |-> None, updated |-> 0,
                            answer |-> 0]]
  /\ audit = [j \in Jobs |-> {}]
  /\ run = [w \in Workers |-> IdleRun]
  /\ seen = [m \in Managers |-> [job |-> None, updated |-> 0]]
  /\ spent = [j \in Jobs |-> 0]

-----------------------------------------------------------------------------
(* The queue's statements.                                                  *)

(* enqueueAnalysis, ON CONFLICT DO NOTHING. *)
Enqueue(j) ==
  /\ job[j].status = "none"
  /\ job' = [job EXCEPT ![j].status = "queued"]
  /\ UNCHANGED <<processVars, audit, run, seen, spent>>

(* retryState, and the CASE of recoverAnalysis. *)
RetryState(attempts) == IF attempts >= MaxAttempts THEN "failed" ELSE "retry"

(* The claim ends: every UPDATE clears the token and moves updated_at. *)
Closed(row, status, answer) ==
  [status |-> status, attempts |-> row.attempts, token |-> None, updated |-> row.updated + 1,
   answer |-> answer]

Failed(row, attempts) == Closed(row, RetryState(attempts), row.answer)

(* recoverAnalysis: every running job, whoever claimed it, in one statement. *)
Recover(w) ==
  /\ BeginLoops(w)
  /\ job' = [j \in Jobs |-> IF job[j].status = "running" THEN Failed(job[j], job[j].attempts)
                                                         ELSE job[j]]
  /\ UNCHANGED <<audit, run, seen, spent>>

(* claimAnalysis, FOR UPDATE SKIP LOCKED. *)
Claimed(row, w) ==
  [status |-> "running", attempts |-> row.attempts + 1, token |-> w,
   updated |-> row.updated + 1, answer |-> row.answer]

TakeClaim(w, j) ==
  /\ life[w] = "up" /\ ~stopped[w]
  /\ run[w].pc = "idle"
  /\ job[j].status \in Claimable
  /\ job' = [job EXCEPT ![j] = Claimed(@, w)]
  /\ spent' = [spent EXCEPT ![j] = @ + 1]
  /\ UNCHANGED <<processVars, audit, seen>>

Claim(w, j) ==
  /\ TakeClaim(w, j)
  /\ run' = [run EXCEPT ![w] = [pc |-> "model", job |-> j, attempts |-> job[j].attempts + 1,
                                id |-> spent[j] + 1]]

(* The claim commits but its answer is lost: the loop goes on without the job. *)
ClaimUnanswered(w, j) == TakeClaim(w, j) /\ UNCHANGED run

Owned_Running(w) == job[run[w].job].status = "running"

(* claim_token=$6 AND status='running' *)
Owned(w) == job[run[w].job].status = "running" /\ job[run[w].job].token = w

(* completeAnalysis: the result is kept only under the claim it was made for. *)
Answered(w) ==
  IF Owned(w)
    THEN [job EXCEPT ![run[w].job] = Closed(@, "completed", run[w].id)]
    ELSE job

Complete(w) ==
  /\ run[w].pc = "model"
  /\ job' = Answered(w)
  /\ run' = [run EXCEPT ![w] = IdleRun]
  /\ UNCHANGED <<processVars, audit, seen, spent>>

(* The model fails or is aborted, or the UPDATE of completeAnalysis throws, before
   its commit or after it: the catch block goes on to failAnalysis. *)
RunFails(w) ==
  /\ run[w].pc = "model"
  /\ job' \in {job, Answered(w)}
  /\ run' = [run EXCEPT ![w].pc = "failing"]
  /\ UNCHANGED <<processVars, audit, seen, spent>>

(* failAnalysis, with the attempts read by the claim. *)
Fail(w) ==
  /\ run[w].pc = "failing"
  /\ job' = IF Owned(w) THEN [job EXCEPT ![run[w].job] = Failed(@, run[w].attempts)] ELSE job
  /\ run' = [run EXCEPT ![w] = IdleRun]
  /\ UNCHANGED <<processVars, audit, seen, spent>>

(* The UPDATE of failAnalysis throws: the job stays claimed, and the loop goes on. *)
FailThrows(w) ==
  /\ run[w].pc = "failing"
  /\ Owned(w)
  /\ run' = [run EXCEPT ![w] = IdleRun]
  /\ UNCHANGED <<processVars, job, audit, seen, spent>>

-----------------------------------------------------------------------------
(* Managers.                                                                *)

(* The list of analyses is read while it shows a failure of the job; it may be old when
   the manager acts on it.  Lists read at other times are of no use to a retry: every
   change of the status moves updated_at. *)
Read(m, j) ==
  /\ job[j].status \in {"retry", "failed"}
  /\ seen' = [seen EXCEPT ![m] = [job |-> j, updated |-> job[j].updated]]
  /\ UNCHANGED <<processVars, job, audit, run, spent>>

Retryable_Ended == {"failed", "retry"}

(* Only a failed job is queued again. *)
Retryable == {"failed"}

Reopened(row) ==
  [status |-> "queued", attempts |-> 0, token |-> None, updated |-> row.updated + 1, answer |-> 0]

Matches_Any(row, expected) == TRUE

(* updated_at=$3 AS matches, else VERSION_CONFLICT *)
Matches(row, expected) == row.updated = expected

(* retryAnalysis: the row is locked and must be the one that was seen.  The audit row keeps
   the run it replaces; here it is named by the updated_at that the manager saw. *)
Retry(m) ==
  LET j == seen[m].job
  IN  /\ j # None
      /\ Matches(job[j], seen[m].updated)
      /\ job[j].status \in Retryable
      /\ Cardinality(audit[j]) < MaxRetries
      /\ audit' = [audit EXCEPT ![j] = @ \cup {seen[m].updated}]
      /\ job' = [job EXCEPT ![j] = Reopened(@)]
      /\ UNCHANGED <<processVars, run, seen, spent>>

-----------------------------------------------------------------------------
(* The process.                                                             *)

Signal(w) == Stop(w) /\ UNCHANGED jobVars

Leave(w) ==
  /\ run[w].pc = "idle"
  /\ Exit(w)
  /\ UNCHANGED jobVars

(* The process dies between any two steps; ending at rest is no death. *)
Crash(w) ==
  /\ ~(life[w] = "up" /\ stopped[w] /\ run[w].pc = "idle")
  /\ Die(w)
  /\ run' = [run EXCEPT ![w] = IdleRun]
  /\ UNCHANGED <<job, audit, seen, spent>>

Fault ==
  \E w \in Workers :
    \/ FailThrows(w) \/ Crash(w) \/ (LoseLock(w) /\ UNCHANGED jobVars)
    \/ \E j \in Jobs : ClaimUnanswered(w, j)

Work(w) == Recover(w) \/ Complete(w) \/ RunFails(w) \/ Fail(w) \/ Leave(w)

Next ==
  \/ \E j \in Jobs : Enqueue(j)
  \/ \E w \in Workers : (Start(w) /\ UNCHANGED jobVars) \/ Signal(w) \/ Work(w)
  \/ \E w \in Workers, j \in Jobs : Claim(w, j)
  \/ \E m \in Managers : Retry(m) \/ \E j \in Jobs : Read(m, j)
  \/ Fault

Spec == Init /\ [][Next]_vars

(* A process manager restarts the worker (deployment-runbook.md:28), a model run
   has a deadline, and jobs are claimed in the order in which they fall due. *)
FairSpec ==
  /\ Spec
  /\ WF_vars(\E w \in Workers : Start(w) /\ UNCHANGED jobVars)
  /\ \A w \in Workers : WF_vars(Work(w))
  /\ \A j \in Jobs : SF_vars(\E w \in Workers : Claim(w, j))

-----------------------------------------------------------------------------
(* The abstract view.                                                       *)
StateOf(status) ==
  IF status \in Claimable \cup {"running"} THEN "open"
  ELSE IF status = "completed" THEN "answered"
  ELSE IF status = "failed" THEN "givenUp" ELSE "none"

state == [j \in Jobs |-> StateOf(job[j].status)]
budget == [j \in Jobs |-> MaxAttempts - job[j].attempts]

Promise == INSTANCE AnalysisPromise WITH Runs <- MaxAttempts

(* The queue keeps the promise of AnalysisPromise, whoever dies, is fenced or is
   overtaken. *)
KeepsPromise == Promise!Spec

-----------------------------------------------------------------------------
(* Properties.                                                              *)

(* Every run is accounted for: three for each failure that a manager saw and granted a
   retry, and the attempts of the current round.  Two managers, or one manager clicking
   twice, cannot grant one failure twice, not even when the job fails again in between
   (jobs.ts:65-72). *)
RunsAccounted ==
  \A j \in Jobs : spent[j] = MaxAttempts * Cardinality(audit[j]) + job[j].attempts

(* An answer that is shown was made by the last run of its job, never by a worker
   that had lost its claim to a later run (jobs.ts:40-47). *)
AnswerIsLast ==
  \A j \in Jobs : job[j].status = "completed" => job[j].answer = spent[j]

(* A claim whose run has ended, or whose process is gone. *)
Orphan(j) ==
  /\ job[j].status = "running"
  /\ ~\E w \in Workers : job[j].token = w /\ run[w].pc # "idle" /\ run[w].job = j

(* Once faults stop, every queued job is answered or given up, even if signals go on
   restarting workers; a claim that a fault left behind needs such a restart, for
   nothing else ends it (jobs.ts:47-51). *)
JobsSettle ==
  (/\ <>[][~Fault]_vars
   /\ \/ <>[](\A j \in Jobs : ~Orphan(j))
      \/ []<><<\E w \in Workers : Recover(w)>>_vars)
  => \A j \in Jobs : job[j].status # "none" ~> job[j].status \in {"completed", "failed"}
=============================================================================
