------------------------- MODULE ChangeTasks_proofs -------------------------
(***************************************************************************)
(* Proofs about delegated change execution, for every set of orders, plans,*)
(* actors, keys, workers and requests in flight.                           *)
(***************************************************************************)
EXTENDS ChangeTasks, TLAPS

-----------------------------------------------------------------------------
(* The parts of the inductive invariant.                                    *)

(* A worker that has not yet counted a new attempt, and a task that can still be
   claimed, are below the limit; a verdict is set exactly when the run ends. *)
AttemptsLeft ==
  /\ \A c \in Changes : task[c].status \notin Terminal => task[c].attempts < MaxAttempts
  /\ \A w \in Workers :
       /\ worker[w].pc \in {"idle", "manager", "receipt", "plans"} =>
            worker[w].attempts < MaxAttempts
       /\ worker[w].verdict \in Claimable => worker[w].attempts < MaxAttempts
       /\ worker[w].pc = "finish" <=> worker[w].verdict # None

(* A worker only works on a task that was delegated. *)
JobsExist == \A w \in Workers : worker[w].pc # "idle" => task[Job(w)].status # "none"

TypeInv == TypeOK /\ AttemptsLeft /\ JobsExist

-----------------------------------------------------------------------------
LEMMA InitTypeInv == Init => TypeInv
  BY ChangesAssumption
  DEF Init, ChangesInit, TypeInv, TypeOK, ChangesTypeOK, AttemptsLeft, OrderRow, PlanRow,
      PlanStatus, TaskRow, TaskStatus, WorkerRow, Stages, IdleWorker, MaxAttempts,
      Claimable, Terminal, Workers, Keys, JobsExist

(* What an answered request carries is one of the service's replies. *)
LEMMA RefusalType == \A i : Refusal(i) \in Replies
  BY DEF Refusal, Replies

LEMMA PeopleTypes == ChangesTypeOK /\ People => ChangesTypeOK'
<1> SUFFICES ASSUME ChangesTypeOK, People PROVE ChangesTypeOK'
  OBVIOUS
<1> USE DEF ChangesTypeOK, businessVars
<1>1. ASSUME NEW a \in Actors, ChangeRole(a) PROVE ChangesTypeOK'
  BY <1>1 DEF ChangeRole
<1>2. ASSUME NEW o \in Orders, Mutate(o) PROVE ChangesTypeOK'
  <2>1. order' \in [Orders -> OrderRow]
    BY <1>2 DEF Mutate, OrderRow
  <2>2. outbox' \subseteq Orders \X Nat
    BY <1>2 DEF Mutate, OrderRow, Published
  <2> QED BY <1>2, <2>1, <2>2 DEF Mutate
<1>3. ASSUME NEW a \in Actors, NEW c \in Changes, NEW o \in Orders, Propose(a, c, o)
      PROVE ChangesTypeOK'
  BY <1>3 DEF Propose, PlanRow, PlanStatus, OrderRow
<1>4. ASSUME NEW a \in Actors, NEW c \in Changes, NEW d \in {"approved", "rejected"},
             Decide(a, c, d)
      PROVE ChangesTypeOK'
  BY <1>4 DEF Decide, PlanRow, PlanStatus
<1>5. ASSUME NEW i \in Calls, NEW a \in Actors, NEW c \in Changes, NEW k \in UserKeys,
             SendByUser(i, a, c, k)
      PROVE ChangesTypeOK'
  BY <1>5 DEF SendByUser, Send, CallRow, Keys
<1> QED BY <1>1, <1>2, <1>3, <1>4, <1>5 DEF People

(* An answer leaves a well-formed row, or frees the slot. *)
LEMMA AnswerType ==
  ASSUME ChangesTypeOK, NEW i \in Calls, call[i] # None, NEW code \in Replies, Answer(i, code)
  PROVE  call' \in [Calls -> CallRow \cup {None}]
  BY DEF ChangesTypeOK, Answer, CallRow

LEMMA ServiceTypes ==
  ASSUME ChangesTypeOK, NEW i \in Calls, Serve(i) \/ CallFails(i)
  PROVE  ChangesTypeOK'
<1> USE DEF businessVars
<1>1. CASE Authorise(i)
  <2>1. call' \in [Calls -> CallRow \cup {None}]
    <3>1. CASE call[i].actor \in managers
      BY <1>1, <3>1 DEF Authorise, CallRow, ChangesTypeOK
    <3>2. CASE call[i].actor \notin managers
      BY <1>1, <3>2, AnswerType DEF Authorise, Replies
    <3> QED BY <3>1, <3>2
  <2> QED BY <1>1, <2>1 DEF Authorise, ChangesTypeOK
<1>2. CASE Apply(i)
  <2> DEFINE c == call[i].change
  <2>1. call[i] \in CallRow /\ c \in Changes /\ plan[c].order \in Orders
    BY <1>2 DEF Apply, ChangesTypeOK, CallRow, CanApply
  <2>2. call' \in [Calls -> CallRow \cup {None}]
    BY <1>2, AnswerType DEF Apply, Replies
  <2>3. order' \in [Orders -> OrderRow]
    BY <1>2, <2>1 DEF Apply, ChangesTypeOK, OrderRow
  <2>4. /\ plan' \in [Changes -> PlanRow]
        /\ \A d \in Changes : plan'[d].status # "none" => plan'[d].order \in Orders
    BY <1>2, <2>1 DEF Apply, ChangesTypeOK, PlanRow, PlanStatus
  <2>5. mutations' \in [Keys -> MutationRow \cup {None}]
    BY <1>2, <2>1 DEF Apply, ChangesTypeOK, MutationRow, Fingerprint, CallRow
  <2>6. invocation' \in [Changes -> InvocationRow \cup {None}]
    BY <1>2, <2>1 DEF Apply, ChangesTypeOK, InvocationRow, OrderRow, CallRow
  <2>7. outbox' \subseteq Orders \X Nat
    BY <1>2, <2>1 DEF Apply, ChangesTypeOK, OrderRow, Published
  <2> QED BY <1>2, <2>2, <2>3, <2>4, <2>5, <2>6, <2>7 DEF Apply, ChangesTypeOK
<1>3. CASE Refuse(i)
  BY <1>3, AnswerType, RefusalType DEF Refuse, ChangesTypeOK
<1>4. CASE CallFails(i)
  BY <1>4, AnswerType DEF CallFails, ChangesTypeOK, Replies
<1> QED BY <1>1, <1>2, <1>3, <1>4 DEF Serve

(* A step of the service alone leaves the tasks as they are. *)
LEMMA ServicePart ==
  ASSUME TypeInv, ChangesTypeOK', UNCHANGED taskVars
  PROVE  TypeInv'
  BY DEF TypeInv, TypeOK, AttemptsLeft, JobsExist, Job, taskVars

(* Every verdict of the catch block is a status, and "unknown" only below the limit. *)
LEMMA ClassifyType ==
  ASSUME NEW code, NEW n \in 0..MaxAttempts
  PROVE  /\ Classify(code, n) \in {"failed", "needs_attention", "unknown"}
         /\ Classify(code, n) = "unknown" => n < MaxAttempts
  BY DEF Classify, MaxAttempts

LEMMA ForsakeType ==
  ASSUME ChangesTypeOK, NEW w, Forsake(w)
  PROVE  call' \in [Calls -> CallRow \cup {None}]
  BY DEF ChangesTypeOK, Forsake, CallRow

(* The worker part of the invariant, as one set of rows. *)
WorkerOK(row) ==
  /\ row \in WorkerRow
  /\ row.pc # "idle" => row.change \in Changes /\ task[row.change].status # "none"
  /\ row.pc \in {"idle", "manager", "receipt", "plans"} => row.attempts < MaxAttempts
  /\ row.verdict \in Claimable => row.attempts < MaxAttempts
  /\ row.pc = "finish" <=> row.verdict # None

LEMMA WorkerPart ==
  ASSUME TypeInv, NEW w \in Workers, NEW row, WorkerOK(row),
         worker' = [worker EXCEPT ![w] = row],
         UNCHANGED <<delegating, task, audit>>, ChangesTypeOK'
  PROVE  TypeInv'
  BY DEF TypeInv, TypeOK, AttemptsLeft, JobsExist, Job, WorkerOK

LEMMA VerdictFits ==
  ASSUME TypeInv, NEW w \in Workers, worker[w].pc # "idle",
         NEW v \in Claimable \cup Terminal,
         v \in Claimable => worker[w].attempts < MaxAttempts
  PROVE  WorkerOK([worker[w] EXCEPT !.pc = "finish", !.verdict = v])
  BY NoVerdictAssumption
  DEF TypeInv, TypeOK, JobsExist, Job, WorkerOK, WorkerRow, Stages, Claimable, Terminal

(* The task part of the invariant. *)
TaskOK(row) ==
  /\ row \in TaskRow
  /\ row.status # "none" => row.actor \in Actors
  /\ row.status \notin Terminal => row.attempts < MaxAttempts

LEMMA TaskPart ==
  ASSUME TypeInv, task' = [c \in Changes |-> task'[c]],
         \A c \in Changes : TaskOK(task'[c]) /\ (task[c].status # "none" => task'[c].status # "none"),
         UNCHANGED <<changesVars, audit, worker>>, delegating' \subseteq Changes \X Actors
  PROVE  TypeInv'
  BY DEF TypeInv, TypeOK, ChangesTypeOK, AttemptsLeft, JobsExist, Job, TaskOK, changesVars,
         businessVars

LEMMA TaskTypes ==
  ASSUME TypeInv,
         \/ \E a \in Actors, c \in Changes : CheckDelegation(a, c) \/ InsertTask(a, c)
         \/ \E w \in Workers : Sweep(w) \/ Run(w)
         \/ \E w \in Workers, c \in Changes : Claim(w, c)
         \/ \E w \in Workers : LookupFails(w) \/ Timeout(w) \/ Crash(w)
  PROVE  TypeInv'
<1> USE DEF changesVars, businessVars
<1>0. TypeOK /\ ChangesTypeOK /\ AttemptsLeft /\ JobsExist
  BY DEF TypeInv, TypeOK
<1>1. ASSUME NEW a \in Actors, NEW c \in Changes, CheckDelegation(a, c) PROVE TypeInv'
  BY <1>1 DEF CheckDelegation, TypeInv, TypeOK, ChangesTypeOK, AttemptsLeft, JobsExist, Job
<1>2. ASSUME NEW a \in Actors, NEW c \in Changes, InsertTask(a, c) PROVE TypeInv'
  <2>1. task' = [d \in Changes |-> task'[d]]
    BY <1>0, <1>2 DEF InsertTask, TypeOK
  <2>2. ASSUME NEW d \in Changes
        PROVE  TaskOK(task'[d]) /\ (task[d].status # "none" => task'[d].status # "none")
    <3>1. TaskOK(task[d]) /\ task[d] \in TaskRow
      BY <1>0 DEF TypeOK, AttemptsLeft, TaskOK
    <3>2. \/ task'[d] = task[d]
          \/ /\ task[d].status = "none"
             /\ task'[d] = [task[d] EXCEPT !.status = "awaiting_approval", !.actor = a]
      BY <1>0, <1>2 DEF InsertTask, TypeOK
    <3> QED BY <3>1, <3>2 DEF TaskOK, TaskRow, TaskStatus, Claimable, Terminal
  <2> QED BY <1>0, <1>2, <2>1, <2>2, TaskPart DEF InsertTask, TypeOK
<1>3. ASSUME NEW w \in Workers, Sweep(w) PROVE TypeInv'
  <2>1. task' = [d \in Changes |-> task'[d]]
    BY <1>3 DEF Sweep
  <2>2. ASSUME NEW d \in Changes
        PROVE  TaskOK(task'[d]) /\ (task[d].status # "none" => task'[d].status # "none")
    <3>1. TaskOK(task[d])
      BY <1>0 DEF TypeOK, AttemptsLeft, TaskOK
    <3>2. \/ task'[d] = task[d]
          \/ task[d].status = "running" /\ task'[d] = Expired(task[d])
      BY <1>3 DEF Sweep, Expirable
    <3> QED BY <3>1, <3>2 DEF TaskOK, TaskRow, TaskStatus, Expired, Claimable, Terminal
  <2> QED BY <1>0, <1>3, <2>1, <2>2, TaskPart DEF Sweep, TypeOK
<1>4. ASSUME NEW w \in Workers, NEW c \in Changes, Claim(w, c) PROVE TypeInv'
  <2>1. /\ task' \in [Changes -> TaskRow]
        /\ \A d \in Changes : /\ TaskOK(task'[d])
                              /\ task[d].status # "none" => task'[d].status # "none"
    BY <1>0, <1>4
    DEF Claim, TypeOK, AttemptsLeft, TaskOK, TaskRow, TaskStatus, Claimable, Terminal
  <2>2. WorkerOK([pc |-> "manager", change |-> c, attempts |-> task[c].attempts,
                  verdict |-> None])
    BY <1>0, <1>4, NoVerdictAssumption
    DEF Claim, TypeOK, AttemptsLeft, WorkerOK, WorkerRow, TaskRow, Stages, Claimable, Terminal
  <2> QED BY <1>0, <1>4, <2>1, <2>2
          DEF Claim, TaskOK, WorkerOK, TypeInv, TypeOK, ChangesTypeOK, AttemptsLeft, JobsExist, Job
<1>5. ASSUME NEW w \in Workers, Run(w) \/ LookupFails(w) \/ Timeout(w) \/ Crash(w) PROVE TypeInv'
  <2>0. /\ worker[w] \in WorkerRow
        /\ worker[w].pc # "idle" => Job(w) \in Changes /\ task[Job(w)].status # "none"
        /\ worker[w].pc \in {"manager", "receipt", "plans"} => worker[w].attempts < MaxAttempts
        /\ worker[w].pc # "finish" => worker[w].verdict = None
    BY <1>0 DEF TypeOK, AttemptsLeft, JobsExist, Job
  <2>1. ASSUME worker[w].pc # "idle", UNCHANGED <<delegating, task, audit>>, ChangesTypeOK',
               NEW v \in Claimable \cup Terminal,
               v \in Claimable => worker[w].attempts < MaxAttempts, Conclude(w, v)
        PROVE  TypeInv'
    BY <2>1, VerdictFits, WorkerPart DEF Conclude, TypeInv, TypeOK
  <2>2. ASSUME worker[w].pc # "idle", UNCHANGED <<delegating, task, audit>>, ChangesTypeOK',
               NEW code, Fail(w, code)
        PROVE  TypeInv'
    <3>1. worker[w].attempts \in 0..MaxAttempts
      BY <2>0 DEF WorkerRow
    <3> QED BY <2>1, <2>2, <3>1, ClassifyType DEF Fail, Claimable, Terminal
  <2>3. ASSUME worker[w].pc \in Stages \ {"idle", "finish"},
               UNCHANGED <<delegating, task, audit>>, ChangesTypeOK',
               NEW stage \in {"receipt", "plans", "await"},
               stage # "await" => worker[w].attempts < MaxAttempts, GoTo(w, stage)
        PROVE  TypeInv'
    <3>1. WorkerOK([worker[w] EXCEPT !.pc = stage])
      BY <2>0, <2>3, NoVerdictAssumption
      DEF WorkerOK, WorkerRow, Stages, Job, Claimable, Terminal
    <3> QED BY <2>3, <3>1, WorkerPart DEF GoTo
  <2>4. UNCHANGED <<managers, businessVars, call>> => ChangesTypeOK'
    BY <1>0 DEF ChangesTypeOK
  <2>5. CASE CheckManager(w)
    BY <2>0, <2>2, <2>3, <2>4, <2>5 DEF CheckManager, Stages
  <2>6. CASE ReadReceipt(w)
    BY <2>0, <2>1, <2>3, <2>4, <2>6 DEF ReadReceipt, Stages, Claimable, Terminal
  <2>7. CASE ReadPlan(w)
    <3>1. ASSUME worker' = [worker EXCEPT ![w].pc = "apply", ![w].attempts = @ + 1]
          PROVE  TypeInv'
      <4> DEFINE row == [worker[w] EXCEPT !.pc = "apply", !.attempts = @ + 1]
      <4>1. WorkerOK(row)
        <5>1. worker[w].pc = "plans" /\ worker[w].verdict = None
          BY <2>0, <2>7 DEF ReadPlan
        <5>2. worker[w].attempts + 1 \in 0..MaxAttempts
          BY <2>0, <5>1 DEF WorkerRow, MaxAttempts
        <5>3. /\ row \in WorkerRow
              /\ row.pc = "apply" /\ row.change = Job(w) /\ row.verdict = None
          BY <2>0, <5>1, <5>2 DEF WorkerRow, Job, Stages
        <5>4. Job(w) \in Changes /\ task[Job(w)].status # "none"
          BY <2>0, <5>1
        <5> HIDE DEF row
        <5> QED BY <5>3, <5>4, NoVerdictAssumption DEF WorkerOK
      <4>2. worker' = [worker EXCEPT ![w] = row]
        BY <2>0, <3>1 DEF WorkerRow
      <4> QED BY <2>4, <2>7, <4>1, <4>2, WorkerPart DEF ReadPlan
    <3> QED BY <2>0, <2>1, <2>4, <2>7, <3>1 DEF ReadPlan, Claimable, Terminal
  <2>8. CASE SendApply(w)
    <3>1. PICK i \in Calls : Send(i, w, task[Job(w)].actor, Job(w), TaskKey(Job(w)))
      BY <2>8 DEF SendApply
    <3>2. ChangesTypeOK'
      <4>1. Job(w) \in Changes /\ worker[w].pc = "apply"
        BY <2>0, <2>8 DEF SendApply
      <4>2. task[Job(w)].actor \in Actors
        BY <1>0, <2>0, <4>1 DEF TypeOK
      <4> QED BY <1>0, <2>8, <3>1, <4>1, <4>2
              DEF SendApply, Send, ChangesTypeOK, CallRow, TaskKey, Keys, Workers
    <3> QED BY <2>3, <2>8, <3>2 DEF SendApply, Stages
  <2>9. CASE \E i \in Calls : ReceiveAnswer(w, i)
    <3>1. ChangesTypeOK'
      BY <1>0, <2>9 DEF ReceiveAnswer, ChangesTypeOK
    <3> QED BY <2>1, <2>2, <2>9, <3>1 DEF ReceiveAnswer, Claimable, Terminal
  <2>10. CASE Finish(w)
    <3>1. WorkerOK(IdleWorker)
      BY DEF WorkerOK, IdleWorker, WorkerRow, Stages, MaxAttempts, Claimable, Terminal
    <3>2. Job(w) \in Changes /\ worker[w].verdict \in Claimable \cup Terminal
      BY <1>0, <2>0, <2>10, ChangesAssumption DEF Finish, WorkerRow, AttemptsLeft
    <3>3. audit' \in [Changes -> SUBSET (Claimable \cup Terminal)]
      BY <1>0, <2>10, <3>2 DEF Finish, TypeOK
    <3>4. /\ task' \in [Changes -> TaskRow]
          /\ \A d \in Changes : /\ TaskOK(task'[d])
                                /\ task[d].status # "none" => task'[d].status # "none"
      <4>1. worker[w].attempts \in 0..MaxAttempts
        BY <2>0 DEF WorkerRow
      <4>2. worker[w].verdict \in Claimable => worker[w].attempts < MaxAttempts
        BY <1>0 DEF AttemptsLeft
      <4>3. CASE Owned(w)
        <5> DEFINE row == [task[Job(w)] EXCEPT !.status = worker[w].verdict, !.token = None,
                                               !.attempts = worker[w].attempts]
        <5>1. task' = [task EXCEPT ![Job(w)] = row]
          BY <2>10, <4>3 DEF Finish
        <5>2. task[Job(w)] \in TaskRow /\ task[Job(w)].actor \in Actors
          BY <1>0, <2>0, <2>10 DEF TypeOK, Finish
        <5>3. TaskOK(row) /\ row.status # "none"
          BY <3>2, <4>1, <4>2, <5>2 DEF TaskOK, TaskRow, TaskStatus, Claimable, Terminal
        <5>4. \A d \in Changes : TaskOK(task[d])
          BY <1>0 DEF TypeOK, TaskOK, AttemptsLeft
        <5> HIDE DEF row
        <5> QED BY <1>0, <3>2, <5>1, <5>3, <5>4 DEF TypeOK, TaskOK
      <4>4. CASE ~Owned(w)
        BY <1>0, <2>10, <4>4 DEF Finish, TypeOK, TaskOK, AttemptsLeft
      <4> QED BY <4>3, <4>4
    <3> QED BY <1>0, <2>10, <3>1, <3>3, <3>4
            DEF Finish, WorkerOK, TaskOK, TypeInv, TypeOK, ChangesTypeOK, AttemptsLeft, JobsExist,
                Job
  <2>11. CASE LookupFails(w)
    BY <2>2, <2>4, <2>11 DEF LookupFails
  <2>12. CASE Timeout(w)
    BY <1>0, <2>2, <2>12, ForsakeType DEF Timeout, ChangesTypeOK
  <2>13. CASE Crash(w)
    <3>1. WorkerOK(IdleWorker)
      BY DEF WorkerOK, IdleWorker, WorkerRow, Stages, MaxAttempts, Claimable, Terminal
    <3> QED BY <1>0, <2>13, <3>1, ForsakeType, WorkerPart DEF Crash, ChangesTypeOK
  <2> QED BY <1>5, <2>5, <2>6, <2>7, <2>8, <2>9, <2>10, <2>11, <2>12, <2>13 DEF Run
<1> QED BY <1>1, <1>2, <1>3, <1>4, <1>5

LEMMA NextTypeInv == TypeInv /\ [Next]_vars => TypeInv'
<1> SUFFICES ASSUME TypeInv, [Next]_vars PROVE TypeInv'
  OBVIOUS
<1>0. ChangesTypeOK
  BY DEF TypeInv, TypeOK
<1>1. CASE Next
  <2>1. CASE People /\ UNCHANGED taskVars
    BY <1>0, <2>1, PeopleTypes, ServicePart
  <2>2. ASSUME NEW i \in Calls, Serve(i) \/ CallFails(i), UNCHANGED taskVars PROVE TypeInv'
    BY <1>0, <2>2, ServiceTypes, ServicePart
  <2> QED BY <1>1, <2>1, <2>2, TaskTypes DEF Next, Fault
<1>2. CASE UNCHANGED vars
  BY <1>2 DEF vars, TypeInv, TypeOK, ChangesTypeOK, AttemptsLeft, JobsExist, Job
<1> QED BY <1>1, <1>2

(* Every reachable state is well typed, and no task is tried more than MaxAttempts
   times by the worker's own count. *)
THEOREM TypeCorrect == Spec => []TypeOK
<1>1. TypeInv => TypeOK
  BY DEF TypeInv
<1> QED BY <1>1, InitTypeInv, NextTypeInv, PTL DEF Spec

-----------------------------------------------------------------------------
(* The business tables.                                                     *)

BusinessInv == LedgerAgrees /\ KeysNameOneExecution /\ OutboxComplete

(* The steps that write a business table, and those that write none. *)
BusinessStep ==
  \/ UNCHANGED businessVars
  \/ \E o \in Orders : Mutate(o)
  \/ \E a \in Actors, c \in Changes, o \in Orders : Propose(a, c, o)
  \/ \E a \in Actors, c \in Changes, d \in {"approved", "rejected"} : Decide(a, c, d)
  \/ \E i \in Calls : Apply(i)

LEMMA PeopleSteps == People => BusinessStep
  BY DEF People, ChangeRole, SendByUser, businessVars, BusinessStep

LEMMA ServiceSteps ==
  ASSUME NEW i \in Calls, Serve(i) \/ CallFails(i)
  PROVE  BusinessStep
  BY DEF Serve, Authorise, Refuse, CallFails, businessVars, BusinessStep

(* No worker writes one. *)
LEMMA BusinessSteps == [Next]_vars => BusinessStep
<1> SUFFICES ASSUME [Next]_vars, ~(People \/ \E i \in Calls : Serve(i) \/ CallFails(i))
             PROVE  UNCHANGED businessVars
  BY PeopleSteps, ServiceSteps DEF BusinessStep
<1> USE DEF changesVars, businessVars
<1>1. ASSUME NEW a \in Actors, NEW c \in Changes, CheckDelegation(a, c) \/ InsertTask(a, c)
      PROVE  UNCHANGED businessVars
  BY <1>1 DEF CheckDelegation, InsertTask
<1>2. ASSUME NEW w \in Workers, Sweep(w) \/ Run(w) PROVE UNCHANGED businessVars
  BY <1>2 DEF Sweep, Run, CheckManager, ReadReceipt, ReadPlan, SendApply, Finish, ReceiveAnswer
<1>3. ASSUME NEW w \in Workers, NEW c \in Changes, Claim(w, c) PROVE UNCHANGED businessVars
  BY <1>3 DEF Claim
<1>4. ASSUME NEW w \in Workers, LookupFails(w) \/ Timeout(w) \/ Crash(w)
      PROVE  UNCHANGED businessVars
  BY <1>4 DEF LookupFails, Timeout, Crash
<1>5. CASE UNCHANGED vars
  BY <1>5 DEF vars
<1> QED BY <1>1, <1>2, <1>3, <1>4, <1>5 DEF Next, Fault

(* What an apply finds and writes. *)
LEMMA ApplyFacts ==
  ASSUME ChangesTypeOK, NEW i \in Calls, Apply(i)
  PROVE  /\ call[i].change \in Changes /\ call[i].key \in Keys /\ call[i].actor \in Actors
         /\ plan[call[i].change].status = "approved"
         /\ plan[call[i].change].order \in Orders
         /\ order[plan[call[i].change].order].version = plan[call[i].change].sourceVersion
         /\ mutations[call[i].key] = None
         /\ Fingerprint(i) \in MutationRow
  BY DEF Apply, CanApply, AtSource, ChangesTypeOK, CallRow, Fingerprint,
         MutationRow

LEMMA InitBusinessInv == ChangesInit => BusinessInv
  BY DEF ChangesInit, BusinessInv, LedgerAgrees, KeysNameOneExecution, OutboxComplete

LEMMA NextLedger == ChangesTypeOK /\ LedgerAgrees /\ BusinessStep => LedgerAgrees'
<1> SUFFICES ASSUME ChangesTypeOK, LedgerAgrees, BusinessStep PROVE LedgerAgrees'
  OBVIOUS
<1>0. /\ order \in [Orders -> OrderRow] /\ plan \in [Changes -> PlanRow]
      /\ invocation \in [Changes -> InvocationRow \cup {None}]
  BY DEF ChangesTypeOK
<1>1. CASE UNCHANGED businessVars
  BY <1>1 DEF LedgerAgrees, businessVars
<1>2. ASSUME NEW o \in Orders, Mutate(o) PROVE LedgerAgrees'
  BY <1>0, <1>2 DEF Mutate, LedgerAgrees, OrderRow
<1>3. ASSUME NEW a \in Actors, NEW c \in Changes, NEW o \in Orders, Propose(a, c, o)
      PROVE LedgerAgrees'
  BY <1>0, <1>3 DEF Propose, LedgerAgrees, PlanRow
<1>4. ASSUME NEW a \in Actors, NEW c \in Changes, NEW d \in {"approved", "rejected"},
             Decide(a, c, d)
      PROVE LedgerAgrees'
  BY <1>0, <1>4 DEF Decide, LedgerAgrees, PlanRow
<1>5. ASSUME NEW i \in Calls, Apply(i) PROVE LedgerAgrees'
  <2> DEFINE c == call[i].change
             o == plan[c].order
             v == plan[c].sourceVersion + 1
  <2>1. c \in Changes /\ o \in Orders /\ plan[c].status = "approved"
    BY <1>5, ApplyFacts
  <2>2. /\ order' = [order EXCEPT ![o] = [version |-> v, approved |-> @.approved \cup {<<c, v>>}]]
        /\ plan' = [plan EXCEPT ![c].status = "applied"]
        /\ invocation' = [invocation EXCEPT ![c] = [key |-> call[i].key, version |-> v]]
    BY <1>5, ApplyFacts DEF Apply
  <2>3. [key |-> call[i].key, version |-> v] # None
    BY <1>0, <1>5, <2>1, ApplyFacts, NoRowAssumption DEF InvocationRow, PlanRow
  <2>4. ASSUME NEW d \in Changes
        PROVE  IF plan'[d].status = "applied"
                 THEN invocation'[d] # None /\ invocation'[d].version = plan'[d].sourceVersion + 1
                 ELSE invocation'[d] = None
    BY <1>0, <2>1, <2>2, <2>3 DEF LedgerAgrees, PlanRow
  <2>5. ASSUME NEW p \in Orders
        PROVE  order'[p].approved = {<<d, plan'[d].sourceVersion + 1>> : d \in
                 {e \in Changes : plan'[e].status = "applied" /\ plan'[e].order = p}}
    <3>1. \A d \in Changes : /\ plan'[d].sourceVersion = plan[d].sourceVersion
                             /\ plan'[d].order = plan[d].order
                             /\ plan'[d].status = IF d = c THEN "applied" ELSE plan[d].status
      BY <1>0, <2>1, <2>2 DEF PlanRow
    <3>2. order'[p].approved = IF p = o THEN order[p].approved \cup {<<c, v>>}
                               ELSE order[p].approved
      BY <1>0, <2>1, <2>2 DEF OrderRow
    <3>3. order[p].approved = {<<d, plan[d].sourceVersion + 1>> : d \in
                 {e \in Changes : plan[e].status = "applied" /\ plan[e].order = p}}
      BY DEF LedgerAgrees
    <3> QED BY <2>1, <3>1, <3>2, <3>3
  <2> QED BY <2>4, <2>5 DEF LedgerAgrees
<1> QED BY <1>1, <1>2, <1>3, <1>4, <1>5 DEF BusinessStep

LEMMA NextKeys == ChangesTypeOK /\ BusinessInv /\ BusinessStep => KeysNameOneExecution'
<1> SUFFICES ASSUME ChangesTypeOK, BusinessInv, BusinessStep PROVE KeysNameOneExecution'
  OBVIOUS
<1> USE DEF BusinessInv
<1>1. CASE UNCHANGED businessVars
  BY <1>1 DEF KeysNameOneExecution, businessVars
<1>2. CASE UNCHANGED <<mutations, invocation>>
  BY <1>2 DEF KeysNameOneExecution
<1>3. ASSUME NEW i \in Calls, Apply(i) PROVE KeysNameOneExecution'
  <2> DEFINE c == call[i].change
             k == call[i].key
  <2>1. /\ c \in Changes /\ k \in Keys /\ mutations[k] = None
        /\ Fingerprint(i) # None /\ Fingerprint(i).change = c
    BY <1>3, ApplyFacts, NoRowAssumption DEF Fingerprint
  <2>2. invocation[c] = None
    BY <1>3, ApplyFacts DEF LedgerAgrees
  <2>3. mutations \in [Keys -> MutationRow \cup {None}]
    BY DEF ChangesTypeOK
  <2>4. invocation \in [Changes -> InvocationRow \cup {None}]
    BY DEF ChangesTypeOK
  <2>5. /\ invocation'[c] # None /\ invocation'[c].key = k
        /\ \A d \in Changes \ {c} : invocation'[d] = invocation[d]
    <3>1. [key |-> k, version |-> order[plan[c].order].version + 1] \in InvocationRow
      BY <1>3, ApplyFacts DEF ChangesTypeOK, OrderRow, InvocationRow
    <3> QED BY <1>3, <2>1, <2>4, <3>1, NoRowAssumption DEF Apply
  <2>6. /\ mutations'[k] = Fingerprint(i)
        /\ \A j \in Keys \ {k} : mutations'[j] = mutations[j]
    BY <1>3, <2>1, <2>3 DEF Apply
  <2>7. ASSUME NEW d \in Changes, invocation'[d] # None
        PROVE  mutations'[invocation'[d].key] # None /\ mutations'[invocation'[d].key].change = d
    <3>1. CASE d = c
      BY <2>1, <2>5, <2>6, <3>1
    <3>2. CASE d # c
      <4>1. invocation[d] # None /\ invocation[d].key \in Keys
        BY <2>4, <2>5, <2>7, <3>2 DEF InvocationRow
      <4> QED BY <2>1, <2>5, <2>6, <3>2, <4>1 DEF KeysNameOneExecution
    <3> QED BY <3>1, <3>2
  <2>8. ASSUME NEW j \in Keys, mutations'[j] # None
        PROVE  invocation'[mutations'[j].change] # None /\ invocation'[mutations'[j].change].key = j
    <3>1. CASE j = k
      BY <2>1, <2>5, <2>6, <3>1
    <3>2. CASE j # k
      <4>1. mutations[j] # None /\ mutations[j].change \in Changes
        BY <2>3, <2>6, <2>8, <3>2 DEF MutationRow
      <4> QED BY <2>2, <2>5, <2>6, <3>2, <4>1 DEF KeysNameOneExecution
    <3> QED BY <3>1, <3>2
  <2> QED BY <2>7, <2>8 DEF KeysNameOneExecution
<1> QED BY <1>1, <1>2, <1>3 DEF BusinessStep, Mutate, Propose, Decide

LEMMA NextOutbox == ChangesTypeOK /\ OutboxComplete /\ BusinessStep => OutboxComplete'
<1> SUFFICES ASSUME ChangesTypeOK, OutboxComplete, BusinessStep PROVE OutboxComplete'
  OBVIOUS
<1>0. order \in [Orders -> OrderRow]
  BY DEF ChangesTypeOK
<1>1. ASSUME NEW o \in Orders, NEW v, v = order[o].version + 1,
             \A p \in Orders : order'[p].version = IF p = o THEN v ELSE order[p].version,
             outbox' = outbox \cup Published(o, v)
      PROVE  OutboxComplete'
  <2>1. 2..v = (2..order[o].version) \cup {v}
    BY <1>0, <1>1 DEF OrderRow
  <2> QED BY <1>0, <1>1, <2>1 DEF OutboxComplete, OrderRow, Published
<1>2. CASE UNCHANGED businessVars
  BY <1>2 DEF OutboxComplete, businessVars
<1>3. ASSUME NEW o \in Orders, Mutate(o) PROVE OutboxComplete'
  BY <1>0, <1>1, <1>3 DEF Mutate, OrderRow
<1>4. CASE UNCHANGED <<order, outbox>>
  BY <1>4 DEF OutboxComplete
<1>5. ASSUME NEW i \in Calls, Apply(i) PROVE OutboxComplete'
  BY <1>0, <1>1, <1>5, ApplyFacts DEF Apply, OrderRow
<1> QED BY <1>2, <1>3, <1>4, <1>5 DEF BusinessStep, Propose, Decide

LEMMA NextBusinessInv == ChangesTypeOK /\ BusinessInv /\ BusinessStep => BusinessInv'
  BY NextLedger, NextKeys, NextOutbox DEF BusinessInv

(* The service on its own keeps its tables together, whoever calls it: no theorem about the
   tables needs to know what a worker does (changes.ts). *)
THEOREM ServiceCorrect ==
  ChangesSpec => [](LedgerAgrees /\ KeysNameOneExecution /\ OutboxComplete)
<1>1. ChangesInit => ChangesTypeOK /\ BusinessInv
  BY InitBusinessInv
  DEF ChangesInit, ChangesTypeOK, OrderRow, PlanRow, PlanStatus
<1>2. ChangesTypeOK /\ BusinessInv /\ [ChangesNext]_changesVars => (ChangesTypeOK /\ BusinessInv)'
  <2> SUFFICES ASSUME ChangesTypeOK, BusinessInv, [ChangesNext]_changesVars
               PROVE  ChangesTypeOK' /\ BusinessInv'
    OBVIOUS
  <2>1. ChangesTypeOK'
    <3>1. CASE UNCHANGED changesVars
      BY <3>1 DEF changesVars, businessVars, ChangesTypeOK
    <3> QED BY <3>1, PeopleTypes, ServiceTypes DEF ChangesNext
  <2>2. BusinessStep
    <3>1. UNCHANGED changesVars => BusinessStep
      BY DEF changesVars, BusinessStep
    <3> QED BY <3>1, PeopleSteps, ServiceSteps DEF ChangesNext
  <2> QED BY <2>1, <2>2, NextBusinessInv
<1>3. BusinessInv => LedgerAgrees /\ KeysNameOneExecution /\ OutboxComplete
  BY DEF BusinessInv
<1> QED BY <1>1, <1>2, <1>3, PTL DEF ChangesSpec

LEMMA InitBusiness == Init => BusinessInv
  BY InitBusinessInv DEF Init

LEMMA NextBusiness == TypeInv /\ BusinessInv /\ [Next]_vars => BusinessInv'
  BY NextBusinessInv, BusinessSteps DEF TypeInv, TypeOK

(* The order, the plan and the receipt agree for any number of workers, requests in
   flight and competing plans: a change is applied at most once, on the version it
   was decided for. *)
THEOREM LedgerCorrect == Spec => []LedgerAgrees
<1>1. BusinessInv => LedgerAgrees
  BY DEF BusinessInv
<1> QED BY <1>1, InitTypeInv, NextTypeInv, InitBusiness, NextBusiness, PTL DEF Spec

(* No idempotency key is ever answered with another change's receipt. *)
THEOREM KeysCorrect == Spec => []KeysNameOneExecution
<1>1. BusinessInv => KeysNameOneExecution
  BY DEF BusinessInv
<1> QED BY <1>1, InitTypeInv, NextTypeInv, InitBusiness, NextBusiness, PTL DEF Spec

(* Every committed version of an order is announced, and nothing else. *)
THEOREM OutboxCorrect == Spec => []OutboxComplete
<1>1. BusinessInv => OutboxComplete
  BY DEF BusinessInv
<1> QED BY <1>1, InitTypeInv, NextTypeInv, InitBusiness, NextBusiness, PTL DEF Spec

-----------------------------------------------------------------------------
(* What workers, requests and tasks claim about the plan.                   *)

Tried == {"approved", "applied"}

(* A worker waits for at most one request, for its own job, and a request was
   answered "completed" only when its change is applied. *)
CallsHonest ==
  /\ \A i \in Calls : call[i] # None =>
       /\ call[i].stage = "replied" /\ call[i].reply = "completed" =>
            plan[call[i].change].status = "applied"
       /\ call[i].client # None =>
            worker[call[i].client].pc = "await" /\ Job(call[i].client) = call[i].change
  /\ \A i, j \in Calls :
       call[i] # None /\ call[j] # None /\ call[i].client = call[j].client
         /\ call[i].client # None => i = j

HonestRow(status, attempts, planStatus) ==
  /\ status = "succeeded" => planStatus = "applied"
  /\ status = "rejected" => planStatus = "rejected"
  /\ status = "awaiting_approval" => attempts = 0
  /\ attempts > 0 => planStatus \in Tried

WorkersHonest ==
  \A w \in Workers : worker[w].pc # "idle" =>
    HonestRow(worker[w].verdict, worker[w].attempts, plan[Job(w)].status)
TasksHonest == \A c \in Changes :
  /\ HonestRow(task[c].status, task[c].attempts, plan[c].status)
  /\ task[c].status = "none" => task[c].attempts = 0

(* The owner of a claim has counted at least what the row shows. *)
Fenced ==
  \A w \in Workers : worker[w].pc # "idle" /\ Owned(w) =>
    worker[w].attempts >= task[Job(w)].attempts

(* A decision is final, and so is an execution. *)
LEMMA PlanStable ==
  ASSUME TypeInv, [Next]_vars, NEW c \in Changes
  PROVE  /\ plan[c].status = "applied" => plan'[c].status = "applied"
         /\ plan[c].status = "rejected" => plan'[c].status = "rejected"
         /\ plan[c].status \in Tried => plan'[c].status \in Tried
<1>0. plan \in [Changes -> PlanRow]
  BY DEF TypeInv, TypeOK, ChangesTypeOK
<1>1. CASE UNCHANGED businessVars
  BY <1>1 DEF businessVars
<1>2. ASSUME NEW i \in Calls, Apply(i)
      PROVE  \A d \in Changes : plan'[d].status = IF d = call[i].change THEN "applied"
                                                  ELSE plan[d].status
  BY <1>0, <1>2, ApplyFacts DEF Apply, PlanRow, TypeInv, TypeOK
<1>3. CASE \E i \in Calls : Apply(i)
  BY <1>2, <1>3, ApplyFacts DEF Tried, TypeInv, TypeOK
<1> QED BY <1>0, <1>1, <1>3, BusinessSteps DEF BusinessStep, Mutate, Propose, Decide, PlanRow, Tried

(* A claim about the plan that holds now holds after any step. *)
LEMMA HonestStays ==
  ASSUME TypeInv, [Next]_vars, NEW c \in Changes, NEW s, NEW n, HonestRow(s, n, plan[c].status)
  PROVE  HonestRow(s, n, plan'[c].status)
  BY PlanStable DEF HonestRow

LEMMA InitHonest == Init => CallsHonest /\ WorkersHonest /\ TasksHonest /\ Fenced
  BY DEF Init, ChangesInit, CallsHonest, WorkersHonest, TasksHonest, Fenced, HonestRow,
         IdleWorker, Tried

(* A row answered "completed" is backed by an applied plan. *)
LEMMA RefusalCompleted ==
  ASSUME TypeInv, BusinessInv, NEW i \in Calls, Refuse(i), Refusal(i) = "completed"
  PROVE  plan[call[i].change].status = "applied"
<1>1. call[i] \in CallRow /\ call[i].change \in Changes /\ call[i].key \in Keys
  BY DEF Refuse, TypeInv, TypeOK, ChangesTypeOK, CallRow
<1>2. mutations[call[i].key] = Fingerprint(i)
  BY DEF Refusal
<1>3. Fingerprint(i) # None /\ Fingerprint(i).change = call[i].change
  BY <1>1, NoRowAssumption DEF Fingerprint, MutationRow, CallRow
<1>4. invocation[call[i].change] # None
  BY <1>1, <1>2, <1>3 DEF BusinessInv, KeysNameOneExecution
<1> QED BY <1>1, <1>4 DEF BusinessInv, LedgerAgrees

LEMMA ServeCalls ==
  ASSUME TypeInv, BusinessInv, CallsHonest, NEW i \in Calls, Serve(i) \/ CallFails(i),
         UNCHANGED taskVars, [Next]_vars
  PROVE  CallsHonest'
<1>0. call \in [Calls -> CallRow \cup {None}] /\ call[i] # None /\ call[i] \in CallRow
  BY DEF TypeInv, TypeOK, ChangesTypeOK, Serve, Authorise, Apply, Refuse, CallFails
<1>1. ASSUME NEW code, Answer(i, code), code = "completed" => plan'[call[i].change].status = "applied"
      PROVE  CallsHonest'
  <2>1. \A j \in Calls \ {i} : call'[j] = call[j]
    BY <1>0, <1>1 DEF Answer
  <2>2. \/ call'[i] = None
        \/ call'[i] = [call[i] EXCEPT !.stage = "replied", !.reply = code]
    BY <1>0, <1>1 DEF Answer
  <2>3. \A j \in Calls : call'[j] # None =>
          /\ call[j] # None /\ call[j] \in CallRow
          /\ call'[j].client = call[j].client /\ call'[j].change = call[j].change
    <3>1. ASSUME call'[i] # None PROVE call'[i].client = call[i].client /\ call'[i].change = call[i].change
      BY <1>0, <2>2, <3>1 DEF CallRow
    <3>2. ASSUME NEW j \in Calls \ {i} PROVE call'[j] = call[j] /\ (call[j] # None => call[j] \in CallRow)
      BY <1>0, <2>1
    <3> QED BY <1>0, <3>1, <3>2
  <2>4. call'[i] # None => call'[i].reply = code
    BY <1>0, <2>2 DEF CallRow
  <2>5. ASSUME NEW j \in Calls, call'[j] # None, call'[j].stage = "replied",
               call'[j].reply = "completed"
        PROVE  plan'[call'[j].change].status = "applied"
    <3>1. CASE j = i
      BY <1>1, <2>3, <2>4, <2>5, <3>1
    <3>2. CASE j # i
      <4>1. call[j].change \in Changes /\ plan[call[j].change].status = "applied"
        BY <2>1, <2>3, <2>5, <3>2 DEF CallsHonest, CallRow
      <4> QED BY <2>3, <2>5, <4>1, PlanStable
    <3> QED BY <3>1, <3>2
  <2>6. UNCHANGED worker
    BY DEF taskVars
  <2> QED BY <2>3, <2>5, <2>6 DEF CallsHonest, Job
<1>2. CASE Authorise(i) /\ call[i].actor \in managers
  <2>1. \A j \in Calls : /\ call'[j] # None => call[j] # None
                         /\ j # i => call'[j] = call[j]
        /\ call'[i] = [call[i] EXCEPT !.stage = "authorised"]
    BY <1>0, <1>2 DEF Authorise
  <2>2. call'[i].stage = "authorised" /\ call'[i].client = call[i].client
        /\ call'[i].change = call[i].change
    BY <1>0, <2>1 DEF CallRow
  <2>3. UNCHANGED <<plan, worker>>
    BY <1>2 DEF Authorise, businessVars, taskVars
  <2> QED BY <1>0, <2>1, <2>2, <2>3 DEF CallsHonest, Job
<1>3. CASE Authorise(i) /\ call[i].actor \notin managers
  BY <1>1, <1>3 DEF Authorise
<1>4. CASE Apply(i)
  <2>1. plan'[call[i].change].status = "applied"
    BY <1>4, ApplyFacts DEF Apply, TypeInv, TypeOK, ChangesTypeOK, PlanRow
  <2> QED BY <1>1, <1>4, <2>1 DEF Apply
<1>5. CASE Refuse(i)
  BY <1>1, <1>5, RefusalCompleted DEF Refuse, businessVars
<1>6. CASE CallFails(i)
  BY <1>1, <1>6 DEF CallFails
<1> QED BY <1>2, <1>3, <1>4, <1>5, <1>6 DEF Serve

(* Requests kept or freed by a step that leaves their clients waiting. *)
LEMMA KeptCalls ==
  ASSUME TypeInv, CallsHonest, [Next]_vars,
         \A j \in Calls : call'[j] # None =>
           /\ call[j] # None
           /\ call'[j].stage = call[j].stage /\ call'[j].reply = call[j].reply
           /\ call'[j].change = call[j].change
           /\ call'[j].client # None =>
                call'[j].client = call[j].client /\ worker'[call[j].client] = worker[call[j].client]
  PROVE  CallsHonest'
<1>1. \A j \in Calls : call[j] # None => call[j].change \in Changes
  BY DEF TypeInv, TypeOK, ChangesTypeOK, CallRow
<1>2. ASSUME NEW j \in Calls, call'[j] # None, call'[j].stage = "replied",
             call'[j].reply = "completed"
      PROVE  plan'[call'[j].change].status = "applied"
  BY <1>1, <1>2, PlanStable DEF CallsHonest
<1> QED BY <1>2 DEF CallsHonest, Job

(* A new request of a client that was not waiting. *)
LEMMA SentCalls ==
  ASSUME TypeInv, CallsHonest, [Next]_vars,
         NEW i \in Calls, NEW w \in Clients \cup {None}, NEW a \in Actors, NEW c \in Changes,
         NEW k \in Keys, Send(i, w, a, c, k),
         \A v \in Workers \ {w} : worker'[v] = worker[v],
         w # None => /\ worker[w].pc # "await"
                     /\ worker'[w].pc = "await" /\ worker'[w].change = c
  PROVE  CallsHonest'
<1>0. call \in [Calls -> CallRow \cup {None}] /\ call[i] = None
  BY DEF TypeInv, TypeOK, ChangesTypeOK, Send
<1>1. \A j \in Calls \ {i} : call'[j] = call[j]
  BY <1>0 DEF Send
<1>2. call'[i].stage = "sent" /\ call'[i].client = w /\ call'[i].change = c
  BY <1>0 DEF Send
<1>3. ASSUME NEW j \in Calls \ {i}, call[j] # None, call[j].client # None
      PROVE  /\ call[j].client # w /\ worker'[call[j].client] = worker[call[j].client]
  <2>1. call[j].client \in Workers /\ worker[call[j].client].pc = "await"
    BY <1>0, <1>3 DEF CallsHonest, CallRow, Workers
  <2> QED BY <1>3, <2>1
<1>4. ASSUME NEW j \in Calls \ {i}, call[j] # None, call[j].stage = "replied",
             call[j].reply = "completed"
      PROVE  plan'[call[j].change].status = "applied"
  <2>1. call[j].change \in Changes
    BY <1>0, <1>4 DEF CallRow
  <2> QED BY <1>4, <2>1, PlanStable DEF CallsHonest
<1>5. ASSUME NEW j \in Calls, call'[j] # None
      PROVE  /\ call'[j].stage = "replied" /\ call'[j].reply = "completed" =>
                  plan'[call'[j].change].status = "applied"
             /\ call'[j].client # None =>
                  worker'[call'[j].client].pc = "await"
                  /\ worker'[call'[j].client].change = call'[j].change
  <2>1. CASE j = i
    BY <1>2, <2>1
  <2>2. CASE j # i
    BY <1>1, <1>3, <1>4, <1>5, <2>2 DEF CallsHonest, Job
  <2> QED BY <2>1, <2>2
<1>6. ASSUME NEW j \in Calls, NEW h \in Calls, call'[j] # None, call'[h] # None,
             call'[j].client = call'[h].client, call'[j].client # None
      PROVE  j = h
  BY <1>1, <1>2, <1>3, <1>6 DEF CallsHonest
<1> QED BY <1>5, <1>6 DEF CallsHonest, Job

LEMMA PeopleCalls ==
  ASSUME TypeInv, CallsHonest, People, UNCHANGED taskVars, [Next]_vars
  PROVE  CallsHonest'
<1>1. CASE UNCHANGED call
  BY <1>1, KeptCalls DEF taskVars
<1>2. ASSUME NEW i \in Calls, NEW a \in Actors, NEW c \in Changes, NEW k \in UserKeys,
             SendByUser(i, a, c, k)
      PROVE  CallsHonest'
  BY <1>2, SentCalls DEF SendByUser, taskVars, Keys
<1> QED BY <1>1, <1>2 DEF People, ChangeRole, Mutate, Propose, Decide

(* A step of one worker that sends and receives nothing. *)
LEMMA QuietCalls ==
  ASSUME TypeInv, CallsHonest, [Next]_vars, UNCHANGED call,
         NEW w \in Workers, worker[w].pc # "await",
         \A v \in Workers \ {w} : worker'[v] = worker[v]
  PROVE  CallsHonest'
<1>1. ASSUME NEW j \in Calls, call[j] # None, call[j].client # None
      PROVE  worker'[call[j].client] = worker[call[j].client]
  <2>1. call[j].client \in Workers /\ worker[call[j].client].pc = "await"
    BY <1>1 DEF CallsHonest, TypeInv, TypeOK, ChangesTypeOK, CallRow, Workers
  <2> QED BY <2>1
<1> QED BY <1>1, KeptCalls

(* A worker that stops waiting frees its requests or cuts them loose. *)
LEMMA ForsakenCalls ==
  ASSUME TypeInv, CallsHonest, [Next]_vars, NEW w \in Workers, Forsake(w),
         \A v \in Workers \ {w} : worker'[v] = worker[v]
  PROVE  CallsHonest'
<1>0. call \in [Calls -> CallRow \cup {None}]
  BY DEF TypeInv, TypeOK, ChangesTypeOK
<1>1. ASSUME NEW j \in Calls, call'[j] # None
      PROVE  /\ call[j] # None
             /\ call'[j].stage = call[j].stage /\ call'[j].reply = call[j].reply
             /\ call'[j].change = call[j].change
             /\ call'[j].client # None =>
                  call'[j].client = call[j].client /\ worker'[call[j].client] = worker[call[j].client]
  <2>1. call[j] # None /\ call[j] \in CallRow
    BY <1>0, <1>1 DEF Forsake
  <2>2. CASE call[j].client # w
    BY <2>1, <2>2 DEF Forsake, CallRow, Workers
  <2>3. CASE call[j].client = w
    BY <1>1, <2>1, <2>3 DEF Forsake, CallRow
  <2> QED BY <2>2, <2>3
<1> QED BY <1>1, KeptCalls

LEMMA ReceivedCalls ==
  ASSUME TypeInv, CallsHonest, [Next]_vars, NEW w \in Workers, NEW i \in Calls,
         ReceiveAnswer(w, i)
  PROVE  CallsHonest'
<1>0. worker \in [Workers -> WorkerRow] /\ call \in [Calls -> CallRow \cup {None}]
  BY DEF TypeInv, TypeOK, ChangesTypeOK
<1>1. call'[i] = None /\ \A j \in Calls \ {i} : call'[j] = call[j]
  BY <1>0 DEF ReceiveAnswer
<1>2. \A v \in Workers \ {w} : worker'[v] = worker[v]
  BY <1>0 DEF ReceiveAnswer, Conclude, Fail
<1>3. ASSUME NEW j \in Calls, call'[j] # None
      PROVE  /\ call[j] # None /\ call'[j] = call[j]
             /\ call[j].client # None => worker'[call[j].client] = worker[call[j].client]
  <2>1. j # i /\ call'[j] = call[j] /\ call[j] # None
    BY <1>1, <1>3
  <2>2. call[j].client # w
    BY <2>1, ChangesAssumption DEF ReceiveAnswer, CallsHonest, Workers
  <2>3. call[j].client \in Workers \cup {None}
    BY <1>0, <2>1 DEF CallRow, Workers
  <2> QED BY <1>2, <2>1, <2>2, <2>3
<1> QED BY <1>3, KeptCalls

LEMMA WorkerCalls ==
  ASSUME TypeInv, CallsHonest, [Next]_vars, NEW w \in Workers,
         \/ Sweep(w) \/ Run(w) \/ LookupFails(w) \/ Timeout(w) \/ Crash(w)
         \/ \E c \in Changes : Claim(w, c)
  PROVE  CallsHonest'
<1>0. worker \in [Workers -> WorkerRow]
  BY DEF TypeInv, TypeOK
<1> USE DEF changesVars
<1>1. CASE Sweep(w)
  BY <1>1, KeptCalls DEF Sweep
<1>2. ASSUME NEW c \in Changes, Claim(w, c) PROVE CallsHonest'
  BY <1>0, <1>2, QuietCalls DEF Claim
<1>3. CASE CheckManager(w)
  BY <1>0, <1>3, QuietCalls DEF CheckManager, GoTo, Fail, Conclude
<1>4. CASE ReadReceipt(w)
  BY <1>0, <1>4, QuietCalls DEF ReadReceipt, GoTo, Conclude
<1>5. CASE ReadPlan(w)
  BY <1>0, <1>5, QuietCalls DEF ReadPlan, Conclude
<1>6. CASE Finish(w)
  BY <1>0, <1>6, QuietCalls DEF Finish
<1>7. CASE LookupFails(w)
  BY <1>0, <1>7, QuietCalls DEF LookupFails, Fail, Conclude
<1>8. CASE Timeout(w)
  BY <1>0, <1>8, ForsakenCalls DEF Timeout, Fail, Conclude
<1>9. CASE Crash(w)
  BY <1>0, <1>9, ForsakenCalls DEF Crash
<1>10. ASSUME NEW i \in Calls, ReceiveAnswer(w, i) PROVE CallsHonest'
  BY <1>10, ReceivedCalls
<1>11. CASE SendApply(w)
  <2>1. Job(w) \in Changes /\ task[Job(w)].actor \in Actors
    BY <1>11 DEF SendApply, TypeInv, TypeOK, JobsExist, Job
  <2>2. TaskKey(Job(w)) \in Keys /\ w \in Clients
    BY <2>1 DEF TaskKey, Keys, Workers
  <2>3. /\ \A v \in Workers \ {w} : worker'[v] = worker[v]
        /\ worker[w].pc # "await" /\ worker'[w].pc = "await" /\ worker'[w].change = Job(w)
    BY <1>0, <1>11 DEF SendApply, GoTo, Job, WorkerRow
  <2> QED BY <1>11, <2>1, <2>2, <2>3, SentCalls DEF SendApply
<1> QED BY <1>1, <1>2, <1>3, <1>4, <1>5, <1>6, <1>7, <1>8, <1>9, <1>10, <1>11 DEF Run

LEMMA NextCalls == TypeInv /\ BusinessInv /\ CallsHonest /\ [Next]_vars => CallsHonest'
<1> SUFFICES ASSUME TypeInv, BusinessInv, CallsHonest, [Next]_vars PROVE CallsHonest'
  OBVIOUS
<1>1. CASE UNCHANGED <<call, worker>>
  BY <1>1, KeptCalls
<1>2. CASE UNCHANGED vars
  BY <1>1, <1>2 DEF vars
<1>3. ASSUME NEW a \in Actors, NEW c \in Changes, CheckDelegation(a, c) \/ InsertTask(a, c)
      PROVE  CallsHonest'
  BY <1>1, <1>3 DEF CheckDelegation, InsertTask, changesVars
<1> QED BY <1>2, <1>3, PeopleCalls, ServeCalls, WorkerCalls DEF Next, Fault

-----------------------------------------------------------------------------
(* What a worker that ends a run says, and what a task shows.               *)

HonestInv == TypeInv /\ BusinessInv /\ CallsHonest /\ WorkersHonest

(* The steps of a worker that leave the others alone. *)
WorkerStep(w) ==
  \/ Run(w) \/ LookupFails(w) \/ Timeout(w) \/ Crash(w)
  \/ \E c \in Changes : Claim(w, c)

(* Each step of the system is a step of at most one worker. *)
LEMMA OneWorkerMoves ==
  ASSUME TypeInv, [Next]_vars
  PROVE  \/ UNCHANGED worker
         \/ \E w \in Workers : WorkerStep(w) /\ \A v \in Workers \ {w} : worker'[v] = worker[v]
<1>0. worker \in [Workers -> WorkerRow]
  BY DEF TypeInv, TypeOK
<1>1. ASSUME NEW w \in Workers, WorkerStep(w)
      PROVE  \A v \in Workers \ {w} : worker'[v] = worker[v]
  <2>1. CASE \E x \in WorkerRow : worker' = [worker EXCEPT ![w] = x]
    BY <1>0, <2>1
  <2> QED BY <1>0, <1>1 DEF WorkerStep, Run, CheckManager, ReadReceipt, ReadPlan, SendApply,
       ReceiveAnswer, Finish, LookupFails, Timeout, Crash, Claim, GoTo, Conclude, Fail
<1> QED BY <1>1 DEF Next, Fault, WorkerStep, CheckDelegation, InsertTask, Sweep, vars, taskVars

(* A verdict that claims nothing about the plan. *)
LEMMA SafeVerdict ==
  ASSUME NEW p, NEW s, NEW r, NEW n, HonestRow(s, n, p),
         r \notin {"succeeded", "rejected", "awaiting_approval"}
  PROVE  HonestRow(r, n, p)
  BY DEF HonestRow

LEMMA ClassifySafe ==
  \A code, n : Classify(code, n) \in {"failed", "needs_attention", "unknown"}
  BY DEF Classify

(* The worker that moved says only what holds. *)
LEMMA MoverHonest ==
  ASSUME HonestInv, TasksHonest, [Next]_vars, NEW w \in Workers, WorkerStep(w),
         worker'[w].pc # "idle"
  PROVE  HonestRow(worker'[w].verdict, worker'[w].attempts, plan'[worker'[w].change].status)
<1> DEFINE c == worker[w].change
           n == worker[w].attempts
<1> USE DEF HonestInv
<1>0. worker \in [Workers -> WorkerRow] /\ worker[w] \in WorkerRow
  BY DEF TypeInv, TypeOK
<1>1. None \notin {"succeeded", "rejected", "awaiting_approval"}
  BY NoVerdictAssumption DEF Claimable, Terminal
<1>2. ASSUME NEW d \in Changes, Claim(w, d)
      PROVE  HonestRow(worker'[w].verdict, worker'[w].attempts, plan'[worker'[w].change].status)
  <2>1. /\ worker'[w].verdict = None /\ worker'[w].attempts = task[d].attempts
        /\ worker'[w].change = d
    BY <1>0, <1>2 DEF Claim
  <2>2. HonestRow(None, task[d].attempts, plan[d].status)
    BY <1>1, SafeVerdict DEF TasksHonest
  <2> QED BY <2>1, <2>2, HonestStays
<1>3. ASSUME ~ \E d \in Changes : Claim(w, d)
      PROVE  /\ worker[w].pc # "idle" /\ c \in Changes /\ HonestRow(worker[w].verdict, n, plan[c].status)
             /\ worker'[w].change = c
  <2>1. worker[w].pc # "idle" /\ worker'[w].change = c
    BY <1>0, <1>3 DEF WorkerStep, Run, CheckManager, ReadReceipt, ReadPlan, SendApply,
       ReceiveAnswer, Finish, LookupFails, Timeout, Crash, GoTo, Conclude, Fail, IdleWorker,
       WorkerRow
  <2> QED BY <2>1 DEF TypeInv, TypeOK, WorkersHonest, Job
<1>4. ASSUME NEW stage, GoTo(w, stage), ~ \E d \in Changes : Claim(w, d)
      PROVE  HonestRow(worker'[w].verdict, worker'[w].attempts, plan'[worker'[w].change].status)
  <2>1. worker'[w].verdict = worker[w].verdict /\ worker'[w].attempts = n
    BY <1>0, <1>4 DEF GoTo, WorkerRow
  <2> QED BY <1>3, <1>4, <2>1, HonestStays
<1>5. ASSUME NEW v, Conclude(w, v), ~ \E d \in Changes : Claim(w, d), HonestRow(v, n, plan[c].status)
      PROVE  HonestRow(worker'[w].verdict, worker'[w].attempts, plan'[worker'[w].change].status)
  <2>1. worker'[w].verdict = v /\ worker'[w].attempts = n
    BY <1>0, <1>5 DEF Conclude, WorkerRow
  <2> QED BY <1>3, <1>5, <2>1, HonestStays
<1>6. ASSUME NEW code, Fail(w, code), ~ \E d \in Changes : Claim(w, d)
      PROVE  HonestRow(worker'[w].verdict, worker'[w].attempts, plan'[worker'[w].change].status)
  BY <1>3, <1>5, <1>6, SafeVerdict, ClassifySafe DEF Fail
<1>7. CASE \E d \in Changes : Claim(w, d)
  BY <1>2, <1>7
<1>8. ASSUME ~ \E d \in Changes : Claim(w, d)
      PROVE  HonestRow(worker'[w].verdict, worker'[w].attempts, plan'[worker'[w].change].status)
  <2>1. CASE CheckManager(w)
    BY <1>4, <1>6, <1>8, <2>1 DEF CheckManager
  <2>2. CASE ReadReceipt(w)
    <3>1. CASE GoTo(w, "plans")
      BY <1>4, <1>8, <3>1
    <3>2. CASE invocation[c] # None /\ Conclude(w, "succeeded")
      <4>1. plan[c].status = "applied"
        BY <1>3, <1>8, <3>2 DEF BusinessInv, LedgerAgrees
      <4>2. HonestRow("succeeded", n, plan[c].status)
        BY <1>3, <1>8, <4>1 DEF HonestRow
      <4> QED BY <1>5, <1>8, <3>2, <4>2
    <3> QED BY <2>2, <3>1, <3>2 DEF ReadReceipt, Job
  <2>3. CASE ReadPlan(w)
    <3>1. CASE plan[c].status = "rejected" /\ Conclude(w, "rejected")
      BY <1>3, <1>5, <1>8, <3>1 DEF HonestRow
    <3>2. CASE plan[c].status = "proposed" /\ Conclude(w, "awaiting_approval")
      <4>1. n \in Nat /\ ~(n > 0)
        BY <1>0, <1>3, <1>8, <3>2 DEF HonestRow, Tried, WorkerRow
      <4>2. HonestRow("awaiting_approval", n, plan[c].status)
        BY <1>3, <1>8, <4>1 DEF HonestRow
      <4> QED BY <1>5, <1>8, <3>2, <4>2
    <3>3. CASE plan[c].status = "applied" /\ Conclude(w, "succeeded")
      BY <1>3, <1>5, <1>8, <3>3 DEF HonestRow
    <3>4. CASE /\ plan[c].status = "approved"
               /\ worker' = [worker EXCEPT ![w].pc = "apply", ![w].attempts = @ + 1]
      <4>1. worker'[w].verdict = worker[w].verdict
        BY <1>0, <3>4 DEF WorkerRow
      <4>2. worker[w].verdict = None
        BY <2>3 DEF ReadPlan, TypeInv, AttemptsLeft
      <4>3. HonestRow(None, worker'[w].attempts, plan[c].status)
        BY <1>1, <3>4 DEF HonestRow, Tried
      <4> QED BY <1>3, <1>8, <4>1, <4>2, <4>3, HonestStays
    <3> QED BY <2>3, <3>1, <3>2, <3>3, <3>4 DEF ReadPlan, Job
  <2>4. CASE SendApply(w)
    BY <1>4, <1>8, <2>4 DEF SendApply
  <2>5. ASSUME NEW i \in Calls, ReceiveAnswer(w, i)
        PROVE  HonestRow(worker'[w].verdict, worker'[w].attempts, plan'[worker'[w].change].status)
    <3>1. CASE Accepted(call[i].reply) /\ Conclude(w, "succeeded")
      <4>1. w # None
        BY ChangesAssumption DEF Workers
      <4>2. call[i].change = c /\ plan[call[i].change].status = "applied"
        BY <2>5, <3>1, <4>1 DEF ReceiveAnswer, Accepted, CallsHonest, Job
      <4>3. HonestRow("succeeded", n, plan[c].status)
        BY <1>3, <1>8, <4>2 DEF HonestRow
      <4> QED BY <1>5, <1>8, <3>1, <4>3
    <3>2. CASE Fail(w, call[i].reply)
      BY <1>6, <1>8, <3>2
    <3> QED BY <2>5, <3>1, <3>2 DEF ReceiveAnswer
  <2>6. CASE Finish(w) \/ Crash(w)
    BY <1>0, <2>6 DEF Finish, Crash, IdleWorker
  <2>7. CASE LookupFails(w) \/ Timeout(w)
    BY <1>6, <1>8, <2>7 DEF LookupFails, Timeout
  <2> QED BY <1>8, <2>1, <2>2, <2>3, <2>4, <2>5, <2>6, <2>7 DEF WorkerStep, Run
<1> QED BY <1>7, <1>8

LEMMA NextWorkersHonest == HonestInv /\ TasksHonest /\ [Next]_vars => WorkersHonest'
<1> SUFFICES ASSUME HonestInv, TasksHonest, [Next]_vars, NEW w \in Workers,
                    worker'[w].pc # "idle"
             PROVE  HonestRow(worker'[w].verdict, worker'[w].attempts, plan'[worker'[w].change].status)
  BY DEF WorkersHonest, Job
<1>1. CASE worker'[w] = worker[w]
  BY <1>1, HonestStays DEF HonestInv, WorkersHonest, TypeInv, TypeOK, Job
<1>2. CASE WorkerStep(w)
  BY <1>2, MoverHonest
<1> QED BY <1>1, <1>2, OneWorkerMoves DEF HonestInv

(* The steps that write a task row. *)
LEMMA TaskSteps ==
  ASSUME [Next]_vars
  PROVE  \/ UNCHANGED <<task, audit>>
         \/ \E a \in Actors, c \in Changes : InsertTask(a, c)
         \/ \E w \in Workers : Sweep(w)
         \/ \E w \in Workers, c \in Changes : Claim(w, c)
         \/ \E w \in Workers : Finish(w) /\ Owned(w)
<1> USE DEF taskVars
<1>1. ASSUME NEW a \in Actors, NEW c \in Changes, CheckDelegation(a, c)
      PROVE  UNCHANGED <<task, audit>>
  BY <1>1 DEF CheckDelegation
<1>2. ASSUME NEW w \in Workers, Run(w)
      PROVE  UNCHANGED <<task, audit>> \/ (Finish(w) /\ Owned(w))
  BY <1>2 DEF Run, CheckManager, ReadReceipt, ReadPlan, SendApply, Finish, ReceiveAnswer
<1>3. CASE Fault
  BY <1>3 DEF Fault, LookupFails, Timeout, Crash
<1>4. CASE UNCHANGED vars
  BY <1>4 DEF vars
<1> QED BY <1>1, <1>2, <1>3, <1>4 DEF Next

(* What a claim's owner writes, and what it found. *)
LEMMA FinishFacts ==
  ASSUME TypeInv, NEW w \in Workers, Finish(w), Owned(w)
  PROVE  /\ Job(w) \in Changes /\ task[Job(w)].status = "running"
         /\ worker[w].verdict \in Claimable \cup Terminal
         /\ \A c \in Changes \ {Job(w)} : task'[c] = task[c] /\ audit'[c] = audit[c]
         /\ task'[Job(w)].status = worker[w].verdict /\ task'[Job(w)].token = None
         /\ task'[Job(w)].attempts = worker[w].attempts
         /\ audit'[Job(w)] = audit[Job(w)] \cup {worker[w].verdict}
<1>1. /\ worker \in [Workers -> WorkerRow] /\ task \in [Changes -> TaskRow]
      /\ audit \in [Changes -> SUBSET (Claimable \cup Terminal)]
  BY DEF TypeInv, TypeOK
<1>2. Job(w) \in Changes /\ task[Job(w)].status = "running"
  BY DEF Finish, Owned, TypeInv, TypeOK, Job
<1>3. worker[w].verdict \in Claimable \cup Terminal
  BY <1>1 DEF Finish, TypeInv, AttemptsLeft, WorkerRow
<1> DEFINE row == [task[Job(w)] EXCEPT !.status = worker[w].verdict, !.token = None,
                                       !.attempts = worker[w].attempts]
<1>4. /\ task' = [task EXCEPT ![Job(w)] = row]
      /\ audit' = [audit EXCEPT ![Job(w)] = @ \cup {worker[w].verdict}]
  BY DEF Finish
<1>5. /\ row.status = worker[w].verdict /\ row.token = None
      /\ row.attempts = worker[w].attempts
  BY <1>1, <1>2 DEF TaskRow
<1> HIDE DEF row
<1> QED BY <1>1, <1>2, <1>3, <1>4, <1>5

LEMMA ClaimFacts ==
  ASSUME TypeInv, NEW w \in Workers, NEW c \in Changes, Claim(w, c)
  PROVE  /\ task[c].status \in Claimable
         /\ \A d \in Changes : task'[d].attempts = task[d].attempts
         /\ \A d \in Changes \ {c} : task'[d] = task[d]
         /\ task'[c].status = "running" /\ task'[c].token = w /\ UNCHANGED audit
  BY DEF Claim, TypeInv, TypeOK, TaskRow

LEMMA SweepFacts ==
  ASSUME TypeInv, NEW w \in Workers, Sweep(w), NEW c \in Changes
  PROVE  /\ task'[c].attempts = task[c].attempts
         /\ \/ task'[c] = task[c]
            \/ task[c].status = "running" /\ task'[c].status = "unknown" /\ task'[c].token = None
         /\ UNCHANGED audit
<1>1. task[c] \in TaskRow
  BY DEF TypeInv, TypeOK
<1>2. /\ Expired(task[c]).status = "unknown" /\ Expired(task[c]).token = None
      /\ Expired(task[c]).attempts = task[c].attempts
  BY <1>1 DEF Expired, TaskRow
<1>3. PICK expired \in SUBSET Expirable :
        task' = [d \in Changes |-> IF d \in expired THEN Expired(task[d]) ELSE task[d]]
  BY DEF Sweep
<1>4. c \in expired => task[c].status = "running"
  BY <1>3 DEF Expirable
<1> QED BY <1>2, <1>3, <1>4 DEF Sweep

LEMMA InsertFacts ==
  ASSUME TypeInv, NEW a \in Actors, NEW c \in Changes, InsertTask(a, c), NEW d \in Changes
  PROVE  /\ task'[d].attempts = task[d].attempts
         /\ \/ task'[d] = task[d]
            \/ task[d].status = "none" /\ task'[d].status = "awaiting_approval"
         /\ UNCHANGED audit
  BY DEF InsertTask, TypeInv, TypeOK, TaskRow

LEMMA NextTasksHonest == HonestInv /\ TasksHonest /\ [Next]_vars => TasksHonest'
<1> SUFFICES ASSUME HonestInv, TasksHonest, [Next]_vars, NEW c \in Changes
             PROVE  /\ HonestRow(task'[c].status, task'[c].attempts, plan'[c].status)
                    /\ task'[c].status = "none" => task'[c].attempts = 0
  BY DEF TasksHonest
<1> USE DEF HonestInv
<1>0. /\ HonestRow(task[c].status, task[c].attempts, plan'[c].status)
      /\ task[c].status = "none" => task[c].attempts = 0
  BY HonestStays DEF TasksHonest
<1>1. CASE task'[c] = task[c]
  BY <1>0, <1>1
<1>2. CASE \E a \in Actors, d \in Changes : InsertTask(a, d)
  BY <1>0, <1>2, InsertFacts DEF HonestRow
<1>3. CASE \E w \in Workers : Sweep(w)
  BY <1>0, <1>3, SweepFacts DEF HonestRow
<1>4. CASE \E w \in Workers, d \in Changes : Claim(w, d)
  BY <1>0, <1>4, ClaimFacts DEF HonestRow
<1>5. ASSUME NEW w \in Workers, Finish(w), Owned(w), c = Job(w)
      PROVE  /\ HonestRow(task'[c].status, task'[c].attempts, plan'[c].status)
             /\ task'[c].status # "none"
  <2>1. HonestRow(worker[w].verdict, worker[w].attempts, plan[c].status)
    BY <1>5 DEF Finish, WorkersHonest
  <2> QED BY <1>5, <2>1, FinishFacts, HonestStays DEF Claimable, Terminal
<1> QED BY <1>1, <1>2, <1>3, <1>4, <1>5, TaskSteps, FinishFacts

(* What a worker owns after a step of another, it owned before. *)
LEMMA NextFenced == TypeInv /\ Fenced /\ [Next]_vars => Fenced'
<1> SUFFICES ASSUME TypeInv, Fenced, [Next]_vars, NEW w \in Workers, worker'[w].pc # "idle",
                    task'[worker'[w].change].status = "running",
                    task'[worker'[w].change].token = w
             PROVE  worker'[w].attempts >= task'[worker'[w].change].attempts
  BY DEF Fenced, Owned, Job
<1>0. /\ worker \in [Workers -> WorkerRow] /\ worker' \in [Workers -> WorkerRow]
      /\ task \in [Changes -> TaskRow] /\ task' \in [Changes -> TaskRow]
      /\ worker'[w].change \in Changes
  BY NextTypeInv DEF TypeInv, TypeOK
<1> DEFINE c == worker'[w].change
<1>1. ASSUME NEW d \in Changes, Claim(w, d)
      PROVE  worker'[w].attempts >= task'[c].attempts
  <2>1. c = d /\ worker'[w].attempts = task[d].attempts
    BY <1>0, <1>1 DEF Claim
  <2> QED BY <1>0, <1>1, <2>1, ClaimFacts DEF TaskRow
<1>2. ASSUME ~ \E d \in Changes : Claim(w, d)
      PROVE  worker'[w].attempts >= task'[c].attempts
  <2>1. /\ worker[w].pc # "idle" /\ worker[w].change = c
        /\ worker'[w].attempts >= worker[w].attempts
    <3>1. CASE worker'[w] = worker[w]
      BY <1>0, <3>1 DEF WorkerRow, MaxAttempts
    <3>2. CASE WorkerStep(w)
      BY <1>0, <1>2, <3>2 DEF WorkerStep, Run, CheckManager, ReadReceipt, ReadPlan, SendApply,
         ReceiveAnswer, Finish, LookupFails, Timeout, Crash, GoTo, Conclude, Fail, IdleWorker,
         WorkerRow, MaxAttempts
    <3> QED BY <3>1, <3>2, OneWorkerMoves
  <2>2. /\ task[c].status = "running" /\ task[c].token = w
        /\ task'[c].attempts = task[c].attempts
    <3>1. CASE UNCHANGED <<task, audit>>
      BY <3>1
    <3>2. CASE \E a \in Actors, d \in Changes : InsertTask(a, d)
      BY <1>0, <3>2, InsertFacts
    <3>3. CASE \E v \in Workers : Sweep(v)
      BY <1>0, <3>3, SweepFacts
    <3>4. ASSUME NEW v \in Workers, NEW d \in Changes, Claim(v, d)
          PROVE  task'[c] = task[c]
      BY <1>0, <1>2, <3>4, ClaimFacts
    <3>5. ASSUME NEW v \in Workers, Finish(v), Owned(v)
          PROVE  task'[c] = task[c]
      BY <1>0, <3>5, FinishFacts, ChangesAssumption DEF Workers
    <3> QED BY <3>1, <3>2, <3>3, <3>4, <3>5, TaskSteps
  <2>3. worker[w].attempts >= task[c].attempts
    BY <2>1, <2>2 DEF Fenced, Owned, Job
  <2>4. worker'[w].attempts \in Int /\ worker[w].attempts \in Int /\ task[c].attempts \in Int
    BY <1>0 DEF WorkerRow, TaskRow, MaxAttempts
  <2> QED BY <2>1, <2>2, <2>3, <2>4
<1> QED BY <1>1, <1>2

LEMMA NextAudit == TypeInv /\ AuditAgrees /\ [Next]_vars => AuditAgrees'
<1> SUFFICES ASSUME TypeInv, AuditAgrees, [Next]_vars, NEW c \in Changes
             PROVE  audit'[c] \cap Terminal =
                      IF task'[c].status \in Terminal THEN {task'[c].status} ELSE {}
  BY DEF AuditAgrees
<1>0. audit[c] \cap Terminal = IF task[c].status \in Terminal THEN {task[c].status} ELSE {}
  BY DEF AuditAgrees
<1> USE DEF Terminal, Claimable
<1>1. CASE task'[c] = task[c] /\ audit'[c] = audit[c]
  BY <1>0, <1>1
<1>2. CASE \E a \in Actors, d \in Changes : InsertTask(a, d)
  BY <1>0, <1>2, InsertFacts
<1>3. CASE \E w \in Workers : Sweep(w)
  BY <1>0, <1>3, SweepFacts
<1>4. CASE \E w \in Workers, d \in Changes : Claim(w, d)
  BY <1>0, <1>4, ClaimFacts
<1>5. ASSUME NEW w \in Workers, Finish(w), Owned(w), c = Job(w)
      PROVE  audit'[c] \cap Terminal =
               IF task'[c].status \in Terminal THEN {task'[c].status} ELSE {}
  BY <1>0, <1>5, FinishFacts
<1> QED BY <1>1, <1>2, <1>3, <1>4, <1>5, TaskSteps, FinishFacts

-----------------------------------------------------------------------------
(* The inductive invariant and what follows from it.                        *)

IInv == HonestInv /\ TasksHonest /\ Fenced /\ AuditAgrees

LEMMA InitIInv == Init => IInv
  BY InitTypeInv, InitBusiness, InitHonest
  DEF IInv, HonestInv, AuditAgrees, Init, Terminal

LEMMA NextIInv == IInv /\ [Next]_vars => IInv'
  BY NextTypeInv, NextBusiness, NextCalls, NextWorkersHonest, NextTasksHonest, NextFenced,
     NextAudit DEF IInv, HonestInv

LEMMA Invariance == Spec => []IInv
  BY InitIInv, NextIInv, PTL DEF Spec

(* A task shows one final verdict, and its audit that verdict alone. *)
THEOREM AuditCorrect == Spec => []AuditAgrees
<1>1. IInv => AuditAgrees
  BY DEF IInv
<1> QED BY <1>1, Invariance, PTL

(* A task that waits for an approval was never attempted. *)
THEOREM AwaitingCorrect == Spec => []AwaitingIsUntried
<1>1. IInv => AwaitingIsUntried
  BY DEF IInv, TasksHonest, HonestRow, AwaitingIsUntried
<1> QED BY <1>1, Invariance, PTL

(* No claimant, however late, takes back a written attempt. *)
THEOREM AttemptsCorrect == Spec => AttemptsMonotone
<1>1. ASSUME IInv, [Next]_vars, NEW c \in Changes
      PROVE  task'[c].attempts >= task[c].attempts
  <2>0. TypeInv /\ task[c].attempts \in Nat
    BY <1>1 DEF IInv, HonestInv, TypeInv, TypeOK, TaskRow, MaxAttempts
  <2>1. CASE task'[c].attempts = task[c].attempts
    BY <2>0, <2>1
  <2>2. ASSUME NEW w \in Workers, Finish(w), Owned(w), c = Job(w)
        PROVE  task'[c].attempts >= task[c].attempts
    BY <1>1, <2>0, <2>2, FinishFacts DEF IInv, Fenced, Finish
  <2> QED BY <1>1, <2>0, <2>1, <2>2, TaskSteps, InsertFacts, SweepFacts, ClaimFacts, FinishFacts
<1>2. IInv /\ [Next]_vars => [\A c \in Changes : task'[c].attempts >= task[c].attempts]_vars
  BY <1>1
<1> QED BY <1>2, Invariance, PTL DEF Spec, AttemptsMonotone

-----------------------------------------------------------------------------
(* Refinement: delegated execution implements ChangeOutcome.                *)

LEMMA InitRefines == Init => Outcome!Init
  BY DEF Init, ChangesInit, Outcome!Init, effect, verdict, Terminal

(* The tables of the business service settle one plan or none. *)
LEMMA EffectSteps ==
  ASSUME TypeInv, [Next]_vars
  PROVE  \/ effect' = effect
         \/ /\ UNCHANGED <<task, audit>>
            /\ \E c \in Changes, e \in {"rejected", "applied"} : Outcome!Settle(c, e)
<1>0. plan \in [Changes -> PlanRow]
  BY DEF TypeInv, TypeOK, ChangesTypeOK
<1>1. ASSUME NEW c \in Changes, NEW e \in {"rejected", "applied"}, UNCHANGED task,
             plan[c].status \notin {"rejected", "applied"},
             plan' = [plan EXCEPT ![c].status = e]
      PROVE  Outcome!Settle(c, e)
  <2>1. effect[c] = "pending"
    BY <1>1 DEF effect
  <2>2. effect' = [effect EXCEPT ![c] = e]
    BY <1>0, <1>1 DEF effect, PlanRow
  <2>3. verdict' = verdict
    BY <1>1 DEF verdict
  <2> QED BY <2>1, <2>2, <2>3 DEF Outcome!Settle
<1>2. CASE UNCHANGED plan
  BY <1>2 DEF effect
<1>3. ASSUME NEW a \in Actors, NEW c \in Changes, NEW o \in Orders, Propose(a, c, o)
      PROVE  effect' = effect
  BY <1>0, <1>3 DEF Propose, effect, PlanRow
<1>4. ASSUME NEW a \in Actors, NEW c \in Changes, Decide(a, c, "approved")
      PROVE  effect' = effect
  BY <1>0, <1>4 DEF Decide, effect, PlanRow
<1>5. UNCHANGED <<task, audit>> \/ effect' = effect
  <2>1. CASE UNCHANGED taskVars
    BY <2>1 DEF taskVars
  <2>2. CASE UNCHANGED vars
    BY <1>2, <2>2 DEF vars
  <2>3. CASE UNCHANGED changesVars
    BY <1>2, <2>3 DEF changesVars, businessVars
  <2>4. CASE UNCHANGED businessVars
    BY <1>2, <2>4 DEF businessVars
  <2> QED BY <2>1, <2>2, <2>3, <2>4 DEF Next, Fault, CheckDelegation, InsertTask, Sweep, Run, Claim,
       CheckManager, ReadReceipt, ReadPlan, SendApply, ReceiveAnswer, Finish, LookupFails, Timeout,
       Crash
<1>6. ASSUME NEW a \in Actors, NEW c \in Changes, Decide(a, c, "rejected"),
             UNCHANGED <<task, audit>>
      PROVE  Outcome!Settle(c, "rejected")
  BY <1>1, <1>6 DEF Decide
<1>7. ASSUME NEW i \in Calls, Apply(i), UNCHANGED <<task, audit>>
      PROVE  call[i].change \in Changes /\ Outcome!Settle(call[i].change, "applied")
  BY <1>1, <1>7, ApplyFacts DEF Apply, TypeInv, TypeOK
<1>8. CASE UNCHANGED businessVars \/ \E o \in Orders : Mutate(o)
  BY <1>2, <1>8 DEF businessVars, Mutate
<1>9. ASSUME NEW a \in Actors, NEW c \in Changes, NEW d \in {"approved", "rejected"},
             Decide(a, c, d)
      PROVE  \/ effect' = effect
             \/ UNCHANGED <<task, audit>> /\ Outcome!Settle(c, "rejected")
  BY <1>4, <1>5, <1>6, <1>9
<1>10. ASSUME NEW i \in Calls, Apply(i)
      PROVE  \/ effect' = effect
             \/ UNCHANGED <<task, audit>> /\ Outcome!Settle(call[i].change, "applied")
  BY <1>5, <1>7, <1>10
<1>11. ASSUME NEW i \in Calls, Apply(i) PROVE call[i].change \in Changes
  BY <1>11, ApplyFacts DEF TypeInv, TypeOK
<1> QED BY <1>3, <1>8, <1>9, <1>10, <1>11, BusinessSteps DEF BusinessStep

(* Tasks report one verdict or none, and never more than what happened. *)
LEMMA VerdictSteps ==
  ASSUME IInv, [Next]_vars
  PROVE  \/ verdict' = verdict
         \/ /\ UNCHANGED plan
            /\ \E c \in Changes, v \in Terminal : Outcome!Report(c, v)
<1> USE DEF IInv, HonestInv
<1>1. CASE \A c \in Changes : task'[c].status = task[c].status
                              \/ {task[c].status, task'[c].status} \cap Terminal = {}
  BY <1>1 DEF verdict
<1>2. CASE UNCHANGED <<task, audit>>
  BY <1>1, <1>2
<1>3. CASE \E a \in Actors, d \in Changes : InsertTask(a, d)
  <2>1. \A c \in Changes : task'[c].status = task[c].status
                           \/ {task[c].status, task'[c].status} \cap Terminal = {}
    BY <1>3, InsertFacts DEF Terminal
  <2> QED BY <1>1, <2>1
<1>4. CASE \E w \in Workers : Sweep(w)
  <2>1. \A c \in Changes : task'[c].status = task[c].status
                           \/ {task[c].status, task'[c].status} \cap Terminal = {}
    BY <1>4, SweepFacts DEF Terminal
  <2> QED BY <1>1, <2>1
<1>5. CASE \E w \in Workers, d \in Changes : Claim(w, d)
  <2>1. \A c \in Changes : task'[c].status = task[c].status
                           \/ {task[c].status, task'[c].status} \cap Terminal = {}
    BY <1>5, ClaimFacts DEF Terminal, Claimable
  <2> QED BY <1>1, <2>1
<1>6. ASSUME NEW w \in Workers, Finish(w), Owned(w)
      PROVE  \/ verdict' = verdict
             \/ /\ UNCHANGED plan
                /\ \E c \in Changes, v \in Terminal : Outcome!Report(c, v)
  <2> DEFINE c == Job(w)
             v == worker[w].verdict
  <2>1. CASE v \notin Terminal
    <3>1. \A d \in Changes : task'[d].status = task[d].status
                             \/ {task[d].status, task'[d].status} \cap Terminal = {}
      BY <1>6, <2>1, FinishFacts DEF Terminal
    <3> QED BY <1>1, <3>1
  <2>2. CASE v \in Terminal
    <3>1. c \in Changes /\ UNCHANGED plan /\ verdict[c] = "open"
      BY <1>6, FinishFacts DEF verdict, Terminal, Finish, changesVars, businessVars
    <3>2. verdict' = [verdict EXCEPT ![c] = v]
      BY <1>6, <2>2, FinishFacts DEF verdict
    <3>3. HonestRow(v, worker[w].attempts, plan[c].status)
      BY <1>6 DEF Finish, WorkersHonest
    <3>4. /\ v = "succeeded" => effect[c] = "applied"
          /\ v = "rejected" => effect[c] = "rejected"
      BY <3>1, <3>3 DEF HonestRow, effect
    <3>5. effect' = effect
      BY <3>1 DEF effect
    <3> QED BY <2>2, <3>1, <3>2, <3>4, <3>5 DEF Outcome!Report
  <2> QED BY <2>1, <2>2
<1> QED BY <1>2, <1>3, <1>4, <1>5, <1>6, TaskSteps

(* Delegated execution, with any number of workers that crash, time out and are
   fenced, implements ChangeOutcome: a plan settles once, a task reaches at most one
   verdict, and success is claimed only of a change that was applied. *)
THEOREM Refinement == Spec => KeepsOutcome
<1>1. IInv /\ [Next]_vars => [Outcome!Next]_(Outcome!vars)
  <2> SUFFICES ASSUME IInv, [Next]_vars PROVE Outcome!Next \/ UNCHANGED <<effect, verdict>>
    BY DEF Outcome!vars
  <2>1. UNCHANGED plan => effect' = effect
    BY DEF effect
  <2>2. UNCHANGED <<task, audit>> => verdict' = verdict
    BY DEF verdict
  <2>3. Terminal = Outcome!Verdicts \ {"open"}
    BY DEF Terminal, Outcome!Verdicts
  <2>4. {"rejected", "applied"} = Outcome!Effects \ {"pending"}
    BY DEF Outcome!Effects
  <2> QED BY <2>1, <2>2, <2>3, <2>4, EffectSteps, VerdictSteps DEF IInv, HonestInv, Outcome!Next
<1> QED BY <1>1, InitRefines, Invariance, PTL DEF Spec, KeepsOutcome, Outcome!Spec
=============================================================================
