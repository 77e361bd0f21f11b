------------------------ MODULE AnalysisJobs_proofs ------------------------
(***************************************************************************)
(* Proofs about the analysis queue, for every number of jobs, overlapping  *)
(* workers and managers, and for every number of granted retries.          *)
(***************************************************************************)
EXTENDS AnalysisJobs, FiniteSetTheorems, TLAPS

-----------------------------------------------------------------------------
(* The inductive invariant.                                                 *)

(* One job: its row, its audit rows and the runs it was claimed for. *)
RowOK(row, rows, runs) ==
  /\ row \in JobRow /\ runs \in Nat /\ rows \subseteq Nat /\ IsFiniteSet(rows)
  /\ row.status = "none" => row.attempts = 0
  /\ row.status \in Claimable => row.attempts < MaxAttempts
  /\ row.status \in {"running", "completed"} => row.attempts > 0
  /\ row.status = "failed" => row.attempts = MaxAttempts
  /\ row.status = "completed" => row.answer = runs
  /\ runs = MaxAttempts * Cardinality(rows) + row.attempts
  /\ \A r \in rows : r < row.updated

RowsOK == \A j \in Jobs : RowOK(job[j], audit[j], spent[j])

(* A worker that still owns its claim holds what the claim wrote. *)
ClaimsOK ==
  \A w \in Workers :
    run[w].pc # "idle" /\ job[run[w].job].status = "running" /\ job[run[w].job].token = w =>
      /\ run[w].attempts = job[run[w].job].attempts
      /\ run[w].id = spent[run[w].job]

IInv == TypeOK /\ RowsOK /\ ClaimsOK

-----------------------------------------------------------------------------
(* What the statements do to one job.                                       *)

LEMMA RowFailed ==
  ASSUME NEW row, NEW rows, NEW runs, RowOK(row, rows, runs), row.status = "running"
  PROVE  /\ RowOK(Failed(row, row.attempts), rows, runs)
         /\ Failed(row, row.attempts).status = RetryState(row.attempts)
         /\ Failed(row, row.attempts).attempts = row.attempts
<1> DEFINE new == Failed(row, row.attempts)
<1>1. row \in JobRow /\ row.attempts \in 0..3 /\ row.updated \in Nat
  BY DEF RowOK, JobRow, MaxAttempts
<1>2. /\ new.status = RetryState(row.attempts) /\ new.attempts = row.attempts
      /\ new.updated = row.updated + 1 /\ new.answer = row.answer /\ new.token = None
      /\ new \in JobRow
  BY <1>1 DEF Failed, Closed, RetryState, JobRow, Statuses, Claimable, MaxAttempts
<1>3. /\ new.status \in Claimable => new.attempts < MaxAttempts
      /\ new.status = "failed" => new.attempts = MaxAttempts
      /\ new.status \in {"failed", "retry"}
  BY <1>1, <1>2 DEF RetryState, Claimable, MaxAttempts
<1>4. \A r \in rows : r < new.updated
  BY <1>1, <1>2 DEF RowOK
<1> HIDE DEF new
<1> QED BY <1>1, <1>2, <1>3, <1>4 DEF RowOK, new

LEMMA RowAnswered ==
  ASSUME NEW row, NEW rows, NEW runs, RowOK(row, rows, runs), row.status = "running"
  PROVE  /\ RowOK(Closed(row, "completed", runs), rows, runs)
         /\ Closed(row, "completed", runs).status = "completed"
         /\ Closed(row, "completed", runs).attempts = row.attempts
<1> DEFINE new == Closed(row, "completed", runs)
<1>1. row \in JobRow /\ row.attempts \in 0..3 /\ row.updated \in Nat /\ runs \in Nat
  BY DEF RowOK, JobRow, MaxAttempts
<1>2. /\ new.status = "completed" /\ new.attempts = row.attempts
      /\ new.updated = row.updated + 1 /\ new.answer = runs
      /\ new \in JobRow
  BY <1>1 DEF Closed, JobRow, Statuses, MaxAttempts
<1>3. \A r \in rows : r < new.updated
  BY <1>1, <1>2 DEF RowOK
<1> HIDE DEF new
<1> QED BY <1>1, <1>2, <1>3 DEF RowOK, new, Claimable

LEMMA RowClaimed ==
  ASSUME NEW row, NEW rows, NEW runs, RowOK(row, rows, runs), row.status \in Claimable,
         NEW w \in Workers
  PROVE  /\ RowOK(Claimed(row, w), rows, runs + 1)
         /\ Claimed(row, w).status = "running" /\ Claimed(row, w).token = w
         /\ Claimed(row, w).attempts = row.attempts + 1
<1> DEFINE new == Claimed(row, w)
<1>1. /\ row \in JobRow /\ row.attempts \in 0..3 /\ row.updated \in Nat /\ runs \in Nat
      /\ row.attempts < 3
  BY DEF RowOK, JobRow, MaxAttempts
<1>2. /\ new.status = "running" /\ new.attempts = row.attempts + 1 /\ new.token = w
      /\ new.updated = row.updated + 1 /\ new.answer = row.answer
      /\ new \in JobRow
  BY <1>1 DEF Claimed, JobRow, Statuses, MaxAttempts
<1>3. \A r \in rows : r < new.updated
  BY <1>1, <1>2 DEF RowOK
<1>4. Cardinality(rows) \in Nat /\ runs = 3 * Cardinality(rows) + row.attempts
  BY FS_CardinalityType DEF RowOK, MaxAttempts
<1>5. runs + 1 = MaxAttempts * Cardinality(rows) + new.attempts
  BY <1>1, <1>2, <1>4 DEF MaxAttempts
<1> HIDE DEF new
<1> QED BY <1>1, <1>2, <1>3, <1>5 DEF RowOK, new, Claimable

LEMMA RowReopened ==
  ASSUME NEW row, NEW rows, NEW runs, RowOK(row, rows, runs), row.status = "failed"
  PROVE  /\ RowOK(Reopened(row), rows \cup {row.updated}, runs)
         /\ Reopened(row).status = "queued" /\ Reopened(row).attempts = 0
<1> DEFINE new == Reopened(row)
           entry == row.updated
<1>1. row \in JobRow /\ row.attempts = 3 /\ row.updated \in Nat /\ runs \in Nat
  BY DEF RowOK, JobRow, MaxAttempts
<1>2. /\ new.status = "queued" /\ new.attempts = 0 /\ new.updated = row.updated + 1
      /\ new \in JobRow
  BY <1>1 DEF Reopened, JobRow, Statuses, Claimable, MaxAttempts
<1>3. entry \in Nat
  BY <1>1
<1>4. entry \notin rows
  BY <1>1, <1>3 DEF RowOK
<1>5. /\ IsFiniteSet(rows \cup {entry})
      /\ Cardinality(rows \cup {entry}) = Cardinality(rows) + 1
      /\ Cardinality(rows) \in Nat
  BY <1>4, FS_AddElement, FS_CardinalityType DEF RowOK
<1>6. runs = MaxAttempts * Cardinality(rows \cup {entry}) + new.attempts
  <2>1. runs = 3 * Cardinality(rows) + 3
    BY <1>1 DEF RowOK, MaxAttempts
  <2> HIDE DEF new, entry
  <2> QED BY <1>2, <1>5, <2>1 DEF MaxAttempts
<1>7. \A r \in rows \cup {entry} : r < new.updated
  BY <1>1, <1>2, <1>3 DEF RowOK
<1>8. rows \cup {entry} \subseteq Nat
  BY <1>3 DEF RowOK
<1> HIDE DEF new, entry
<1>9. RowOK(new, rows \cup {entry}, runs)
  BY <1>1, <1>2, <1>5, <1>6, <1>7, <1>8 DEF RowOK, Claimable, MaxAttempts
<1> QED BY <1>2, <1>9 DEF new, entry

-----------------------------------------------------------------------------
LEMMA InitIInv == Init => IInv
<1> SUFFICES ASSUME Init PROVE IInv
  OBVIOUS
<1> USE DEF Init, IdleRun
<1>1. TypeOK
  BY WorkersAssumption
  DEF TypeOK, ProcessTypeOK, ProcessInit, Lives, JobRow, Statuses, RunRow, MaxAttempts
<1>2. ASSUME NEW j \in Jobs PROVE RowOK(job[j], audit[j], spent[j])
  <2>1. /\ job[j] = [status |-> "none", attempts |-> 0, token |-> None, updated |-> 0, answer |-> 0]
        /\ audit[j] = {} /\ spent[j] = 0
    OBVIOUS
  <2>2. job[j] \in JobRow
    BY <1>1 DEF TypeOK
  <2>3. Cardinality({}) = 0 /\ IsFiniteSet({})
    BY FS_EmptySet
  <2> QED BY <2>1, <2>2, <2>3 DEF RowOK, Claimable, MaxAttempts
<1>3. ClaimsOK
  BY DEF ClaimsOK
<1> QED BY <1>1, <1>2, <1>3 DEF IInv, RowsOK

LEMMA ProcessTyped ==
  ASSUME ProcessTypeOK, NEW w \in Workers,
         Start(w) \/ BeginLoops(w) \/ LoseLock(w) \/ Stop(w) \/ Exit(w) \/ Die(w)
  PROVE  ProcessTypeOK'
  BY DEF ProcessTypeOK, Start, BeginLoops, LoseLock, Stop, Exit, Die, End, Lives

(* Rows that are sound are typed. *)
LEMMA RowsTyped ==
  ASSUME DOMAIN job' = Jobs, DOMAIN audit' = Jobs, DOMAIN spent' = Jobs,
         job' = [j \in Jobs |-> job'[j]], audit' = [j \in Jobs |-> audit'[j]],
         spent' = [j \in Jobs |-> spent'[j]],
         \A j \in Jobs : RowOK(job'[j], audit'[j], spent'[j])
  PROVE  /\ job' \in [Jobs -> JobRow] /\ audit' \in [Jobs -> SUBSET Nat]
         /\ spent' \in [Jobs -> Nat] /\ RowsOK'
<1>1. \A j \in Jobs : job'[j] \in JobRow /\ audit'[j] \in SUBSET Nat /\ spent'[j] \in Nat
  BY DEF RowOK
<1>2. RowsOK'
  BY DEF RowsOK, RowOK
<1> QED BY <1>1, <1>2

(* A step after which no run holds more than before, and every job it writes is not
   claimed any more. *)
LEMMA ClaimsKept ==
  ASSUME IInv,
         \A v \in Workers : run'[v].pc # "idle" =>
           /\ run[v].pc # "idle" /\ run'[v].job = run[v].job
           /\ run'[v].attempts = run[v].attempts /\ run'[v].id = run[v].id,
         \A j \in Jobs : job'[j].status # "running" \/ (job'[j] = job[j] /\ spent'[j] = spent[j])
  PROVE  ClaimsOK'
<1>1. ASSUME NEW v \in Workers, run'[v].pc # "idle",
             job'[run'[v].job].status = "running", job'[run'[v].job].token = v
      PROVE  /\ run'[v].attempts = job'[run'[v].job].attempts
             /\ run'[v].id = spent'[run'[v].job]
  <2>1. run[v].job \in Jobs /\ run'[v].job = run[v].job
    BY <1>1 DEF IInv, TypeOK
  <2> QED BY <1>1, <2>1 DEF IInv, ClaimsOK
<1> QED BY <1>1 DEF ClaimsOK

(* A run that ends, or goes on to failAnalysis. *)
LEMMA RunStep ==
  ASSUME IInv, NEW w \in Workers,
         run' = [run EXCEPT ![w] = IdleRun] \/ run' = [run EXCEPT ![w].pc = "failing"],
         run[w].pc # "idle"
  PROVE  /\ run' \in [Workers -> RunRow]
         /\ \A v \in Workers : run'[v].pc # "idle" =>
              /\ run[v].pc # "idle" /\ run'[v].job = run[v].job
              /\ run'[v].attempts = run[v].attempts /\ run'[v].id = run[v].id
<1>1. run \in [Workers -> RunRow]
  BY DEF IInv, TypeOK
<1>2. IdleRun \in RunRow /\ IdleRun.pc = "idle"
  BY DEF IdleRun, RunRow, MaxAttempts
<1>3. CASE run' = [run EXCEPT ![w] = IdleRun]
  BY <1>1, <1>2, <1>3
<1>4. CASE run' = [run EXCEPT ![w].pc = "failing"]
  <2>1. run[w] \in RunRow /\ run'[w] = [run[w] EXCEPT !.pc = "failing"]
    BY <1>1, <1>4
  <2>2. /\ run'[w] \in RunRow /\ run'[w].job = run[w].job
        /\ run'[w].attempts = run[w].attempts /\ run'[w].id = run[w].id
    BY <2>1 DEF RunRow
  <2> QED BY <1>1, <1>4, <2>2
<1> QED BY <1>3, <1>4

LEMMA EnqueueSafe ==
  ASSUME IInv, NEW j \in Jobs, Enqueue(j)
  PROVE  IInv'
<1>1. /\ job \in [Jobs -> JobRow] /\ job[j].status = "none"
      /\ job' = [job EXCEPT ![j].status = "queued"]
      /\ UNCHANGED <<lock, life, stopped, audit, run, seen, spent>>
  BY DEF IInv, TypeOK, Enqueue, processVars
<1>2. /\ job'[j] \in JobRow /\ job'[j].status = "queued" /\ job'[j].attempts = job[j].attempts
      /\ job'[j].updated = job[j].updated
      /\ \A k \in Jobs \ {j} : job'[k] = job[k]
  <2>1. job[j] \in JobRow /\ job'[j] = [job[j] EXCEPT !.status = "queued"]
    BY <1>1
  <2> QED BY <1>1, <2>1 DEF JobRow, Statuses, Claimable
<1>3. RowOK(job[j], audit[j], spent[j])
  BY DEF IInv, RowsOK
<1>4. RowOK(job'[j], audit[j], spent[j])
  BY <1>1, <1>2, <1>3 DEF RowOK, Claimable, MaxAttempts
<1>5. RowsOK'
  BY <1>1, <1>2, <1>4 DEF IInv, RowsOK, RowOK
<1>6. TypeOK'
  BY <1>1, <1>2 DEF IInv, TypeOK, ProcessTypeOK
<1>7. ClaimsOK'
  BY <1>1, <1>2, ClaimsKept
<1> QED BY <1>5, <1>6, <1>7 DEF IInv

LEMMA RecoverSafe ==
  ASSUME IInv, NEW w \in Workers, Recover(w)
  PROVE  IInv'
<1>1. /\ job' = [j \in Jobs |-> IF job[j].status = "running" THEN Failed(job[j], job[j].attempts)
                                                             ELSE job[j]]
      /\ UNCHANGED <<audit, run, seen, spent>>
      /\ audit \in [Jobs -> SUBSET Nat] /\ spent \in [Jobs -> Nat]
  BY DEF Recover, IInv, TypeOK
<1>2. ASSUME NEW j \in Jobs
      PROVE  /\ RowOK(job'[j], audit[j], spent[j])
             /\ job'[j].status # "running" \/ job'[j] = job[j]
  <2>1. RowOK(job[j], audit[j], spent[j])
    BY DEF IInv, RowsOK
  <2>2. CASE job[j].status = "running"
    <3>1. job'[j] = Failed(job[j], job[j].attempts)
      BY <1>1, <2>2
    <3>2. RetryState(job[j].attempts) # "running"
      BY DEF RetryState
    <3> QED BY <2>1, <2>2, <3>1, <3>2, RowFailed
  <2>3. CASE job[j].status # "running"
    BY <1>1, <2>1, <2>3
  <2> QED BY <2>2, <2>3
<1>3. RowsOK' /\ job' \in [Jobs -> JobRow]
  <2>1. job' = [j \in Jobs |-> job'[j]]
    BY <1>1
  <2>2. \A j \in Jobs : job'[j] \in JobRow
    BY <1>2 DEF RowOK
  <2> QED BY <1>1, <1>2, <2>1, <2>2 DEF RowsOK, RowOK
<1>4. TypeOK'
  <2>1. ProcessTypeOK'
    BY ProcessTyped DEF IInv, TypeOK, Recover
  <2> QED BY <1>1, <1>3, <2>1 DEF IInv, TypeOK
<1>5. ClaimsOK'
  BY <1>1, <1>2, ClaimsKept
<1> QED BY <1>3, <1>4, <1>5 DEF IInv

LEMMA ClaimSafe ==
  ASSUME IInv, NEW w \in Workers, NEW j \in Jobs, Claim(w, j) \/ ClaimUnanswered(w, j)
  PROVE  IInv'
<1>1. TakeClaim(w, j)
  BY DEF Claim, ClaimUnanswered
<1>2. /\ job \in [Jobs -> JobRow] /\ audit \in [Jobs -> SUBSET Nat]
      /\ spent \in [Jobs -> Nat] /\ run \in [Workers -> RunRow]
  BY DEF IInv, TypeOK
<1>3. /\ job'[j] = Claimed(job[j], w) /\ spent'[j] = spent[j] + 1
      /\ \A k \in Jobs \ {j} : job'[k] = job[k] /\ spent'[k] = spent[k]
      /\ job' = [k \in Jobs |-> job'[k]] /\ spent' = [k \in Jobs |-> spent'[k]]
      /\ UNCHANGED <<lock, life, stopped, audit, seen>>
      /\ run[w].pc = "idle" /\ job[j].status \in Claimable
  BY <1>1, <1>2 DEF TakeClaim, processVars
<1>4. RowOK(job[j], audit[j], spent[j]) /\ job[j].attempts \in Nat
  BY <1>2 DEF IInv, RowsOK, JobRow, MaxAttempts
<1>5. /\ RowOK(job'[j], audit[j], spent'[j]) /\ job'[j].token = w
      /\ job'[j].status = "running" /\ job'[j].attempts = job[j].attempts + 1
  BY <1>3, <1>4, RowClaimed
<1>6. /\ RowsOK' /\ job' \in [Jobs -> JobRow] /\ spent' \in [Jobs -> Nat]
  <2>1. \A k \in Jobs : RowOK(job'[k], audit[k], spent'[k])
    BY <1>3, <1>5 DEF IInv, RowsOK
  <2>2. \A k \in Jobs : job'[k] \in JobRow /\ spent'[k] \in Nat
    BY <2>1 DEF RowOK
  <2> QED BY <1>3, <2>1, <2>2 DEF RowsOK, RowOK
<1>7. ASSUME NEW v \in Workers, run'[v].pc # "idle"
      PROVE  \/ run'[v] = run[v] /\ v # w
             \/ /\ v = w /\ run'[v].job = j
                /\ run'[v].attempts = job[j].attempts + 1 /\ run'[v].id = spent[j] + 1
  BY <1>2, <1>3, <1>7 DEF Claim, ClaimUnanswered
<1>8. run' \in [Workers -> RunRow]
  <2>1. CASE UNCHANGED run
    BY <1>2, <2>1
  <2>2. CASE Claim(w, j)
    <3>1. job[j].attempts + 1 \in 0..MaxAttempts /\ spent[j] + 1 \in Nat
      BY <1>2, <1>5 DEF RowOK, JobRow
    <3> QED BY <1>2, <2>2, <3>1 DEF Claim, RunRow
  <2> QED BY <2>1, <2>2 DEF ClaimUnanswered
<1>9. TypeOK'
  BY <1>2, <1>3, <1>6, <1>7, <1>8 DEF IInv, TypeOK, ProcessTypeOK
<1>10. ClaimsOK'
  <2>1. ASSUME NEW v \in Workers, run'[v].pc # "idle",
               job'[run'[v].job].status = "running", job'[run'[v].job].token = v
        PROVE  /\ run'[v].attempts = job'[run'[v].job].attempts
               /\ run'[v].id = spent'[run'[v].job]
    <3>1. CASE v = w
      BY <1>3, <1>5, <1>7, <2>1, <3>1
    <3>2. CASE v # w
      <4>1. run'[v] = run[v] /\ run[v].job \in Jobs
        BY <1>7, <2>1, <3>2 DEF IInv, TypeOK
      <4>2. run[v].job # j
        BY <1>5, <2>1, <3>2, <4>1
      <4> QED BY <1>3, <2>1, <4>1, <4>2 DEF IInv, ClaimsOK
    <3> QED BY <3>1, <3>2
  <2> QED BY <2>1 DEF ClaimsOK
<1> QED BY <1>6, <1>9, <1>10 DEF IInv

(* What the worker of a run may write: nothing, or, as long as it owns its claim, the
   end of that claim. *)
Ends(w) ==
  \/ job' = job
  \/ Owned(w) /\ job' = [job EXCEPT ![run[w].job] = Closed(@, "completed", run[w].id)]
  \/ Owned(w) /\ job' = [job EXCEPT ![run[w].job] = Failed(@, run[w].attempts)]

(* Under its claim, the worker's attempts and run are those of the row, so what it
   writes is sound. *)
LEMMA JobEnds ==
  ASSUME IInv, NEW w \in Workers, run[w].pc # "idle", Ends(w), job' # job
  PROVE  /\ run[w].job \in Jobs /\ job[run[w].job].status = "running"
         /\ \A k \in Jobs \ {run[w].job} : job'[k] = job[k]
         /\ job' = [k \in Jobs |-> job'[k]]
         /\ RowOK(job'[run[w].job], audit[run[w].job], spent[run[w].job])
         /\ job'[run[w].job].attempts = job[run[w].job].attempts
         /\ \/ job'[run[w].job].status = "completed"
            \/ job'[run[w].job].status = RetryState(job[run[w].job].attempts)
<1> DEFINE j == run[w].job
<1>1. /\ j \in Jobs /\ job \in [Jobs -> JobRow] /\ RowOK(job[j], audit[j], spent[j])
  BY DEF IInv, TypeOK, RowsOK
<1>2. Owned(w)
  BY DEF Ends
<1>3. /\ job[j].status = "running" /\ run[w].attempts = job[j].attempts
      /\ run[w].id = spent[j]
  BY <1>2 DEF Owned, IInv, ClaimsOK
<1> HIDE DEF j
<1>4. \/ job' = [job EXCEPT ![j] = Closed(@, "completed", spent[j])]
      \/ job' = [job EXCEPT ![j] = Failed(@, job[j].attempts)]
  BY <1>3 DEF Ends, j
<1>5. \/ job'[j] = Closed(job[j], "completed", spent[j])
      \/ job'[j] = Failed(job[j], job[j].attempts)
  BY <1>1, <1>4
<1>6. /\ \A k \in Jobs \ {j} : job'[k] = job[k]
      /\ job' = [k \in Jobs |-> job'[k]]
  BY <1>1, <1>4
<1>7. CASE job'[j] = Closed(job[j], "completed", spent[j])
  BY <1>1, <1>3, <1>6, <1>7, RowAnswered DEF j
<1>8. CASE job'[j] = Failed(job[j], job[j].attempts)
  BY <1>1, <1>3, <1>6, <1>8, RowFailed DEF j
<1> QED BY <1>5, <1>7, <1>8

LEMMA RunEndsSafe ==
  ASSUME IInv, NEW w \in Workers, run[w].pc # "idle", Ends(w), ProcessTypeOK',
         run' = [run EXCEPT ![w] = IdleRun] \/ run' = [run EXCEPT ![w].pc = "failing"],
         UNCHANGED <<audit, seen, spent>>
  PROVE  IInv'
<1>1. /\ run' \in [Workers -> RunRow]
      /\ \A v \in Workers : run'[v].pc # "idle" =>
           /\ run[v].pc # "idle" /\ run'[v].job = run[v].job
           /\ run'[v].attempts = run[v].attempts /\ run'[v].id = run[v].id
  BY RunStep
<1>2. ASSUME NEW k \in Jobs
      PROVE  /\ RowOK(job'[k], audit[k], spent[k])
             /\ job'[k].status # "running" \/ job'[k] = job[k]
  <2>1. CASE job' = job
    BY <2>1 DEF IInv, RowsOK
  <2>2. CASE job' # job /\ k = run[w].job
    <3>1. RetryState(job[k].attempts) # "running"
      BY DEF RetryState
    <3> QED BY <2>2, <3>1, JobEnds
  <2>3. CASE job' # job /\ k # run[w].job
    BY <2>3, JobEnds DEF IInv, RowsOK
  <2> QED BY <2>1, <2>2, <2>3
<1>3. job' \in [Jobs -> JobRow]
  <2>1. job' = [k \in Jobs |-> job'[k]]
    BY JobEnds DEF IInv, TypeOK
  <2>2. \A k \in Jobs : job'[k] \in JobRow
    BY <1>2 DEF RowOK
  <2> QED BY <2>1, <2>2
<1>4. RowsOK'
  BY <1>2 DEF RowsOK, RowOK
<1>5. TypeOK'
  BY <1>1, <1>3 DEF IInv, TypeOK
<1>6. ClaimsOK'
  BY <1>1, <1>2, ClaimsKept
<1> QED BY <1>4, <1>5, <1>6 DEF IInv

LEMMA WorkerEnds ==
  ASSUME IInv, NEW w \in Workers, Complete(w) \/ RunFails(w) \/ Fail(w)
  PROVE  Ends(w) /\ run[w].pc # "idle"
  BY DEF Complete, RunFails, Fail, Answered, Ends

LEMMA WorkerSafe ==
  ASSUME IInv, NEW w \in Workers,
         Complete(w) \/ RunFails(w) \/ Fail(w) \/ FailThrows(w)
  PROVE  IInv'
<1>1. Ends(w) /\ run[w].pc # "idle"
  BY WorkerEnds DEF FailThrows, Ends
<1>2. /\ run' = [run EXCEPT ![w] = IdleRun] \/ run' = [run EXCEPT ![w].pc = "failing"]
      /\ UNCHANGED <<lock, life, stopped, audit, seen, spent>>
  BY DEF Complete, RunFails, Fail, FailThrows, processVars
<1>3. ProcessTypeOK'
  BY <1>2 DEF IInv, TypeOK, ProcessTypeOK
<1> QED BY <1>1, <1>2, <1>3, RunEndsSafe

LEMMA CrashSafe ==
  ASSUME IInv, NEW w \in Workers, Crash(w)
  PROVE  IInv'
<1>1. /\ run' = [run EXCEPT ![w] = IdleRun] /\ UNCHANGED <<job, audit, seen, spent>>
      /\ run \in [Workers -> RunRow]
  BY DEF Crash, IInv, TypeOK
<1>2. ProcessTypeOK'
  BY ProcessTyped DEF IInv, TypeOK, Crash
<1>3. run' \in [Workers -> RunRow] /\ \A v \in Workers : run'[v].pc # "idle" => run'[v] = run[v]
  BY <1>1 DEF IdleRun, RunRow, MaxAttempts
<1>4. TypeOK' /\ RowsOK'
  BY <1>1, <1>2, <1>3 DEF IInv, TypeOK, RowsOK, RowOK
<1>5. ClaimsOK'
  BY <1>1, <1>3, ClaimsKept
<1> QED BY <1>4, <1>5 DEF IInv

LEMMA ProcessSafe ==
  ASSUME IInv, NEW w \in Workers,
         Start(w) \/ LoseLock(w) \/ Signal(w) \/ Leave(w), UNCHANGED jobVars
  PROVE  IInv'
<1>1. ProcessTypeOK'
  BY ProcessTyped DEF IInv, TypeOK, Signal, Leave
<1> QED BY <1>1 DEF IInv, TypeOK, RowsOK, RowOK, ClaimsOK, jobVars

LEMMA ReadSafe ==
  ASSUME IInv, NEW m \in Managers, NEW j \in Jobs, Read(m, j)
  PROVE  IInv'
<1>1. /\ UNCHANGED <<lock, life, stopped, job, audit, run, spent>>
      /\ seen' = [seen EXCEPT ![m] = [job |-> j, updated |-> job[j].updated]]
      /\ job[j].updated \in Nat
  BY DEF Read, processVars, IInv, TypeOK, JobRow
<1>2. TypeOK'
  BY <1>1 DEF IInv, TypeOK, ProcessTypeOK
<1> QED BY <1>1, <1>2 DEF IInv, RowsOK, RowOK, ClaimsOK

LEMMA RetryStep ==
  ASSUME IInv, NEW m \in Managers, Retry(m)
  PROVE  LET j == seen[m].job
         IN  /\ j \in Jobs /\ job[j].status = "failed"
             /\ job' = [job EXCEPT ![j] = Reopened(@)]
             /\ audit' = [audit EXCEPT ![j] = @ \cup {job[j].updated}]
             /\ UNCHANGED <<lock, life, stopped, run, seen, spent>>
  BY DEF Retry, Retryable, Matches, IInv, TypeOK, processVars

LEMMA RetrySafe ==
  ASSUME IInv, NEW m \in Managers, Retry(m)
  PROVE  IInv'
<1> DEFINE j == seen[m].job
           entry == job[j].updated
<1>1. /\ j \in Jobs /\ job[j].status = "failed"
      /\ job' = [job EXCEPT ![j] = Reopened(@)]
      /\ audit' = [audit EXCEPT ![j] = @ \cup {entry}]
      /\ UNCHANGED <<lock, life, stopped, run, seen, spent>>
  BY RetryStep
<1>2. /\ job \in [Jobs -> JobRow] /\ audit \in [Jobs -> SUBSET Nat]
      /\ spent \in [Jobs -> Nat]
  BY DEF IInv, TypeOK
<1> HIDE DEF j
<1>3. /\ job'[j] = Reopened(job[j]) /\ audit'[j] = audit[j] \cup {entry}
      /\ \A k \in Jobs \ {j} : job'[k] = job[k] /\ audit'[k] = audit[k]
      /\ job' = [k \in Jobs |-> job'[k]] /\ audit' = [k \in Jobs |-> audit'[k]]
  BY <1>1, <1>2
<1>4. RowOK(job'[j], audit'[j], spent[j]) /\ job'[j].status = "queued"
  BY <1>1, <1>3, RowReopened DEF IInv, RowsOK
<1>5. ASSUME NEW k \in Jobs
      PROVE  /\ RowOK(job'[k], audit'[k], spent'[k])
             /\ job'[k].status # "running" \/ (job'[k] = job[k] /\ spent'[k] = spent[k])
  BY <1>1, <1>3, <1>4 DEF IInv, RowsOK
<1>6. /\ job' \in [Jobs -> JobRow] /\ audit' \in [Jobs -> SUBSET Nat] /\ RowsOK'
  <2>1. \A k \in Jobs : job'[k] \in JobRow /\ audit'[k] \in SUBSET Nat
    BY <1>5 DEF RowOK
  <2> QED BY <1>3, <1>5, <2>1 DEF RowsOK, RowOK
<1>7. TypeOK'
  BY <1>1, <1>6 DEF IInv, TypeOK, ProcessTypeOK
<1>8. ClaimsOK'
  BY <1>1, <1>5, ClaimsKept
<1> QED BY <1>6, <1>7, <1>8 DEF IInv

LEMMA NextIInv == IInv /\ [Next]_vars => IInv'
<1> SUFFICES ASSUME IInv, [Next]_vars PROVE IInv'
  OBVIOUS
<1>1. CASE \E j \in Jobs : Enqueue(j)
  BY <1>1, EnqueueSafe
<1>2. CASE \E w \in Workers : (Start(w) /\ UNCHANGED jobVars) \/ Signal(w) \/ Leave(w)
  BY <1>2, ProcessSafe DEF Signal, Leave
<1>3. CASE \E w \in Workers : Recover(w)
  BY <1>3, RecoverSafe
<1>4. CASE \E w \in Workers : Complete(w) \/ RunFails(w) \/ Fail(w) \/ FailThrows(w)
  BY <1>4, WorkerSafe
<1>5. CASE \E w \in Workers, j \in Jobs : Claim(w, j) \/ ClaimUnanswered(w, j)
  BY <1>5, ClaimSafe
<1>6. CASE \E m \in Managers : Retry(m)
  BY <1>6, RetrySafe
<1>7. CASE \E m \in Managers, j \in Jobs : Read(m, j)
  BY <1>7, ReadSafe
<1>8. CASE \E w \in Workers : Crash(w)
  BY <1>8, CrashSafe
<1>9. CASE \E w \in Workers : LoseLock(w) /\ UNCHANGED jobVars
  BY <1>9, ProcessSafe
<1>10. CASE UNCHANGED vars
  BY <1>10 DEF vars, IInv, TypeOK, ProcessTypeOK, RowsOK, RowOK, ClaimsOK
<1> QED
  BY <1>1, <1>2, <1>3, <1>4, <1>5, <1>6, <1>7, <1>8, <1>9, <1>10 DEF Next, Work, Fault

LEMMA Invariance == Spec => []IInv
  BY InitIInv, NextIInv, PTL DEF Spec

-----------------------------------------------------------------------------
(* Every variable keeps its type; with it, no job is claimed a fourth time in a
   round (jobs.ts:28-39). *)
THEOREM TypeCorrect == Spec => []TypeOK
<1>1. IInv => TypeOK
  BY DEF IInv
<1> QED BY <1>1, Invariance, PTL

(* The runs of a job are three for each retry that a manager was granted and the
   attempts of the round, with any number of managers acting on old lists and any
   number of restarts (jobs.ts:28-77). *)
THEOREM RunsCorrect == Spec => []RunsAccounted
<1>1. IInv => RunsAccounted
  BY DEF IInv, RowsOK, RowOK, RunsAccounted
<1> QED BY <1>1, Invariance, PTL

(* A completed job shows the answer of its last run: a worker that was recovered from
   cannot overwrite it (jobs.ts:40-47). *)
THEOREM AnswerCorrect == Spec => []AnswerIsLast
<1>1. IInv => AnswerIsLast
  BY DEF IInv, RowsOK, RowOK, AnswerIsLast
<1> QED BY <1>1, Invariance, PTL

-----------------------------------------------------------------------------
(* The queue implements AnalysisPromise.                                    *)

LEMMA InitRefines == Init => Promise!Init
  BY DEF Init, Promise!Init, state, budget, StateOf, Claimable, MaxAttempts

(* A step that leaves the status and the attempts of every job alone, as the abstract
   view sees them, is a stutter. *)
LEMMA Stutters ==
  ASSUME \A j \in Jobs : /\ StateOf(job'[j].status) = StateOf(job[j].status)
                         /\ job'[j].attempts = job[j].attempts
  PROVE  UNCHANGED Promise!vars
  BY DEF Promise!vars, state, budget

(* A step of one job. *)
LEMMA OneJob ==
  ASSUME NEW j \in Jobs, \A k \in Jobs \ {j} : job'[k] = job[k]
  PROVE  /\ state' = [state EXCEPT ![j] = StateOf(job'[j].status)]
         /\ budget' = [budget EXCEPT ![j] = MaxAttempts - job'[j].attempts]
         /\ state[j] = StateOf(job[j].status) /\ budget[j] = MaxAttempts - job[j].attempts
  BY DEF state, budget

LEMMA RecoverRefines ==
  ASSUME IInv, NEW w \in Workers, Recover(w)
  PROVE  [Promise!Next]_(Promise!vars)
<1> DEFINE S == {j \in Jobs : job[j].status = "running" /\ job[j].attempts >= MaxAttempts}
<1>1. job' = [j \in Jobs |-> IF job[j].status = "running" THEN Failed(job[j], job[j].attempts)
                                                          ELSE job[j]]
  BY DEF Recover
<1>2. ASSUME NEW j \in Jobs
      PROVE  /\ job'[j].attempts = job[j].attempts
             /\ StateOf(job'[j].status) = IF j \in S THEN "givenUp" ELSE StateOf(job[j].status)
             /\ j \in S => StateOf(job[j].status) = "open" /\ job[j].attempts = MaxAttempts
  <2>1. job[j].attempts \in 0..3
    BY DEF IInv, TypeOK, JobRow, MaxAttempts
  <2>2. CASE job[j].status = "running"
    <3>1. /\ job'[j].status = RetryState(job[j].attempts)
          /\ job'[j].attempts = job[j].attempts
      BY <1>1, <2>2 DEF Failed, Closed
    <3> QED BY <2>1, <2>2, <3>1 DEF RetryState, StateOf, Claimable, MaxAttempts
  <2>3. CASE job[j].status # "running"
    BY <1>1, <2>3
  <2> QED BY <2>2, <2>3
<1> HIDE DEF S
<1>3. S \in SUBSET Jobs
  BY DEF S
<1>4. Promise!GiveUp(S)
  <2>1. \A j \in S : state[j] = "open" /\ budget[j] = 0
    BY <1>2, <1>3 DEF state, budget, MaxAttempts
  <2>2. state' = [j \in Jobs |-> IF j \in S THEN "givenUp" ELSE state[j]]
    BY <1>2 DEF state
  <2>3. UNCHANGED budget
    BY <1>2 DEF budget
  <2> QED BY <2>1, <2>2, <2>3 DEF Promise!GiveUp
<1> QED BY <1>3, <1>4 DEF Promise!Next

LEMMA ClaimRefines ==
  ASSUME IInv, NEW w \in Workers, NEW j \in Jobs, TakeClaim(w, j)
  PROVE  [Promise!Next]_(Promise!vars)
<1>1. /\ job \in [Jobs -> JobRow] /\ RowOK(job[j], audit[j], spent[j])
      /\ job[j].status \in Claimable
      /\ job' = [job EXCEPT ![j] = Claimed(@, w)]
  BY DEF IInv, TypeOK, RowsOK, TakeClaim
<1>2. job[j].attempts \in 0..3 /\ job[j].attempts < 3
  BY <1>1 DEF RowOK, JobRow, MaxAttempts
<1>3. /\ job'[j].status = "running" /\ job'[j].attempts = job[j].attempts + 1
      /\ \A k \in Jobs \ {j} : job'[k] = job[k]
  BY <1>1 DEF Claimed
<1>4. StateOf(job[j].status) = "open" /\ StateOf(job'[j].status) = "open"
  BY <1>1, <1>3 DEF StateOf
<1>5. UNCHANGED state
  BY <1>3, <1>4 DEF state
<1>6. state[j] = "open" /\ budget[j] > 0 /\ budget' = [budget EXCEPT ![j] = @ - 1]
  BY <1>2, <1>3, <1>4, OneJob DEF MaxAttempts
<1> QED BY <1>5, <1>6 DEF Promise!Next, Promise!Spend

LEMMA EndsRefines ==
  ASSUME IInv, NEW w \in Workers, run[w].pc # "idle", Ends(w)
  PROVE  [Promise!Next]_(Promise!vars)
<1> DEFINE j == run[w].job
<1>1. CASE job' = job
  BY <1>1, Stutters
<1>2. CASE job' # job
  <2>1. /\ j \in Jobs /\ job[j].status = "running"
        /\ \A k \in Jobs \ {j} : job'[k] = job[k]
        /\ job'[j].attempts = job[j].attempts
        /\ \/ job'[j].status = "completed"
           \/ job'[j].status = RetryState(job[j].attempts)
    BY <1>2, JobEnds
  <2> HIDE DEF j
  <2>2. job[j].attempts \in 1..3
    BY <2>1 DEF IInv, TypeOK, RowsOK, RowOK, JobRow, MaxAttempts
  <2>3. /\ state[j] = "open" /\ budget[j] = 3 - job[j].attempts /\ UNCHANGED budget
        /\ state' = [state EXCEPT ![j] = StateOf(job'[j].status)]
    <3>1. StateOf(job[j].status) = "open"
      BY <2>1 DEF StateOf
    <3>2. UNCHANGED budget
      BY <2>1 DEF budget
    <3> QED BY <2>1, <3>1, <3>2, OneJob DEF MaxAttempts
  <2>4. CASE job'[j].status = "completed"
    <3>1. StateOf(job'[j].status) = "answered"
      BY <2>4 DEF StateOf, Claimable
    <3>2. Promise!Answer(j)
      BY <2>2, <2>3, <3>1 DEF Promise!Answer, Promise!Move, MaxAttempts
    <3> QED BY <2>1, <3>2 DEF Promise!Next
  <2>5. CASE job'[j].status = RetryState(job[j].attempts) /\ job[j].attempts = 3
    <3>1. StateOf(job'[j].status) = "givenUp"
      BY <2>5 DEF RetryState, StateOf, Claimable, MaxAttempts
    <3>2. state' = [k \in Jobs |-> IF k \in {j} THEN "givenUp" ELSE state[k]]
      BY <2>1, <2>3, <3>1 DEF state
    <3>3. budget[j] = 0
      BY <2>3, <2>5
    <3>4. \A k \in {j} : state[k] = "open" /\ budget[k] = 0
      BY <2>3, <3>3
    <3>5. UNCHANGED budget
      BY <2>3
    <3>6. Promise!GiveUp({j})
      BY <3>2, <3>4, <3>5 DEF Promise!GiveUp
    <3> QED BY <2>1, <3>6 DEF Promise!Next
  <2>6. CASE job'[j].status = RetryState(job[j].attempts) /\ job[j].attempts < 3
    <3>1. StateOf(job'[j].status) = "open" /\ StateOf(job[j].status) = "open"
      BY <2>1, <2>2, <2>6 DEF RetryState, StateOf, Claimable, MaxAttempts
    <3> QED BY <2>1, <3>1, Stutters
  <2> QED BY <2>1, <2>2, <2>4, <2>5, <2>6
<1> QED BY <1>1, <1>2

LEMMA EnqueueRefines ==
  ASSUME IInv, NEW j \in Jobs, Enqueue(j)
  PROVE  [Promise!Next]_(Promise!vars)
<1>1. /\ job \in [Jobs -> JobRow] /\ job[j].status = "none"
      /\ job' = [job EXCEPT ![j].status = "queued"]
  BY DEF IInv, TypeOK, Enqueue
<1>2. /\ job'[j].status = "queued" /\ job'[j].attempts = job[j].attempts
      /\ \A k \in Jobs \ {j} : job'[k] = job[k]
  BY <1>1 DEF JobRow
<1>3. StateOf(job[j].status) = "none" /\ StateOf(job'[j].status) = "open"
  BY <1>1, <1>2 DEF StateOf, Claimable
<1>4. UNCHANGED budget
  BY <1>2 DEF budget
<1> QED BY <1>2, <1>3, <1>4, OneJob DEF Promise!Next, Promise!Request, Promise!Move

LEMMA RetryRefines ==
  ASSUME IInv, NEW m \in Managers, Retry(m)
  PROVE  [Promise!Next]_(Promise!vars)
<1> DEFINE j == seen[m].job
<1>1. /\ j \in Jobs /\ job[j].status = "failed" /\ job \in [Jobs -> JobRow]
      /\ job' = [job EXCEPT ![j] = Reopened(@)]
  BY RetryStep DEF IInv, TypeOK
<1> HIDE DEF j
<1>2. /\ job'[j].status = "queued" /\ job'[j].attempts = 0
      /\ \A k \in Jobs \ {j} : job'[k] = job[k]
  BY <1>1 DEF Reopened
<1>3. StateOf(job[j].status) = "givenUp" /\ StateOf(job'[j].status) = "open"
  BY <1>1, <1>2 DEF StateOf, Claimable
<1>4. MaxAttempts - job'[j].attempts = MaxAttempts
  BY <1>2 DEF MaxAttempts
<1>5. Promise!Reopen(j)
  BY <1>1, <1>2, <1>3, <1>4, OneJob DEF Promise!Reopen, Promise!Move
<1> QED BY <1>1, <1>5 DEF Promise!Next

LEMMA StepRefines == IInv /\ [Next]_vars => [Promise!Next]_(Promise!vars)
<1> SUFFICES ASSUME IInv, [Next]_vars PROVE [Promise!Next]_(Promise!vars)
  OBVIOUS
<1>1. CASE \E j \in Jobs : Enqueue(j)
  BY <1>1, EnqueueRefines
<1>2. CASE \E w \in Workers : Recover(w)
  BY <1>2, RecoverRefines
<1>3. CASE \E w \in Workers : Complete(w) \/ RunFails(w) \/ Fail(w)
  BY <1>3, WorkerEnds, EndsRefines
<1>4. CASE \E w \in Workers, j \in Jobs : Claim(w, j) \/ ClaimUnanswered(w, j)
  BY <1>4, ClaimRefines DEF Claim, ClaimUnanswered
<1>5. CASE \E m \in Managers : Retry(m)
  BY <1>5, RetryRefines
<1>6. CASE UNCHANGED job
  BY <1>6, Stutters
<1>7. UNCHANGED vars => UNCHANGED job
  BY DEF vars
<1>8. (\E w \in Workers : (Start(w) /\ UNCHANGED jobVars) \/ Signal(w) \/ Leave(w)
                           \/ FailThrows(w) \/ Crash(w) \/ (LoseLock(w) /\ UNCHANGED jobVars))
        => UNCHANGED job
  BY DEF jobVars, Signal, Leave, FailThrows, Crash
<1>9. (\E m \in Managers, j \in Jobs : Read(m, j)) => UNCHANGED job
  BY DEF Read
<1> QED
  BY <1>1, <1>2, <1>3, <1>4, <1>5, <1>6, <1>7, <1>8, <1>9 DEF Next, Work, Fault

(* The queue keeps its promise for every number of jobs, workers and managers: a
   request is given up only with its budget spent, and an answer is final. *)
THEOREM Refinement == Spec => KeepsPromise
  BY InitRefines, Invariance, StepRefines, PTL DEF Spec, KeepsPromise, Promise!Spec
=============================================================================
