# TLA+ models of ZhiXingAgent

ZhiXingAgent lets agents and people work on the sampling orders of an audio
laboratory. A **business service** (`src/apps/soundlab-api`) owns the orders. A
**platform** (`src/apps/zhixing-api`, `src/apps/zhixing-worker`) sits beside it with a
database of its own: it polls the service's events, has a model analyse them, patrols the
orders, tells people through WeCom, and executes approved changes on behalf of managers.
The two meet only over HTTP, so every effect that crosses the border can be lost, late
or repeated; the worker is one process that may die at any line. That border and that
process are what these models are about.

Everything is translated from the TypeScript sources. `PROJECT.json` maps every
definition to its lines, lists the runs with their properties, one mutant for each
property (a plausible bug that the property catches), the hazards and the theorems.

## 1. Inventory

| part | state | operations | hard behaviour | module |
|---|---|---|---|---|
| Order changes, `soundlab-api/changes.ts`, `authorization.ts` | `orders`, `change_plans`, `mutations`, `change_invocations`, `outbox` | propose, decide, apply, look up a receipt | two plans for one version; one key for two changes; an answer that is lost after the commit; roles read from another process | `SampleChanges` |
| Delegated execution, `zhixing-worker/change-tasks.ts` | `change_tasks`, `change_task_audit`, locals of `runChangeTask` | delegate, sweep, claim, check, look up, apply, record | retry of what was already done; a late claimant; crash between send and record | `ChangeTasks`, promise `ChangeOutcome` |
| Event outbox and polling, `store.ts`, `/events`, `event-poll.ts` | `outbox.sequence`, `worker_cursor`, `activity`, `analysis_jobs` | publish, read a page, store an event | sequence order against commit order; overlapping pollers; a cursor that is adopted once | `EventFeed`, promise `EventLog` |
| Analysis queue, `jobs.ts`, `analysisLoop` | `analysis_jobs`, `analysis_retry_audit` | enqueue, claim, complete, fail, recover, retry | late model results; restarts that use up runs; two managers with old lists | `AnalysisJobs`, promise `AnalysisPromise` |
| Notification outbox, `notifications.ts`, `wecom-send.ts` | `notification_outbox`, `notification_audit`, the call on the wire | enqueue, claim, send, record, recover | a message that cannot be recalled, with an answer that may never come | `Notifications` |
| Worker process, `zhixing-worker/server.ts` | advisory lock, `stopped` | start, recover, run, stop, die | the lock is freed before its holder knows | `WorkerProcess` (under analysis, notifications and chat) |
| Order domain, `domain.ts`, `project.ts`, `store.ts` | `orders.data`, `mutations`, `outbox` | feedback, assign, accept, return, configure, create | versions and keys shared by all operations; pages that are old; evidence of an earlier round | `Orders` |
| Library and attachments, `store.ts`, `attachments.ts` | `project_templates`, `project_template_audit`, `sampling_attachments` | save, delete, create from a batch, upload | the same keys and versions again | `Orders` |
| Schedule, validation, `schedule.ts`, `project-validation.ts` | none | evaluate, validate | recursion over dependencies; off-by-one in working days; parts that are unknown | `Schedule` (under `Orders`) |
| Exceptions, `zhixing-api/exceptions.ts` | `platform_exceptions`, `exception_sources`, `exception_mutations`, the page each member looks at | reconcile, list, transition | observations that arrive late; decisions made on old pages; roles read before the lock | `Exceptions` |
| Patrol, `zhixing-worker/patrol.ts` | policy, issue states, inbox, escalations, locals of `runPatrol` | save a policy, patrol | a commit inside a transaction that rolls back; a row lock lost without notice | `Patrol` |
| Chat, `chat.ts`, `zhixing-api/chat-tools.ts` | `chat_messages`, calls of the order tool | enqueue, run, read orders, recover | claims without a token; tool calls that outlive the run that made them | `Chat`, promise `ChatPromise` |
| Members, `members.ts` | `tenant_members` | save, resolve | two managers take each other the role | `Members` |
| Channel feedback, `channel.ts` | `channel_events`, two connection pools | receive | a foreign call inside a transaction; connections that wait for each other; an event that comes again with another body | `Channel` |
| Settings and installations | versioned rows, keys, audit | read, save | versions and keys | not modelled (section 7) |
| Gateway, sessions, WeCom identity, adapters, model runtime, web, scripts, harness | | | stateless, I/O or third-party | not modelled (section 7) |

How they interact: a business transaction appends to the outbox (`SampleChanges.Apply`,
`EventFeed.InsertRow`); the poller stores an event, its analysis job and its cursor in one
platform transaction (`EventFeed.Store`); the analysis loop works off the jobs; a patrol
writes notifications, which the main loop sends. A manager delegates a plan, and the
main loop applies it through the service. A question goes to the model, whose tool reads the
orders through the platform while it runs. A channel event is a call of the service's feedback
route, made while the platform holds a connection and the lock of the event; business and
platform both ask the member directory who somebody is. All loops share one process and one
lock.

What makes each part correct, in a sentence:

- *changes*: a change executes at most once, on the version it was decided for, and order,
  plan, receipt, key and event never disagree;
- *delegated execution*: one final verdict, never "succeeded" or "rejected" of a plan that
  is not, and never lost to a late claimant;
- *feed*: each tenant sees its log in order, nothing skipped, whatever fails elsewhere;
- *analysis*: given up only with its runs spent; the answer shown is that of the last run;
- *notifications*: nobody is told twice, and the recorded status is true;
- *exceptions*: an exception known to be current agrees with its order, is closed only when
  the issue is gone, and a decision on it finds what the person who made it was shown;
- *orders*: a key writes once, whatever it is used for; a node that was accepted had been
  reported complete in its present round on the page its manager saw; dates of recovery are
  fresh, and a forecast is feasible and hides nothing;
- *assistant*: a question is put to the model at most once, its end is final, and an answer
  shows every order it rests on;
- *members and channel*: a tenant keeps a manager; an event has one effect, however often it is
  delivered, and a refusal can be relied on;
- *patrol*: every issue of the scope is reminded of each day, and what nobody resolves is
  escalated when its time is up, not before, whatever patrols failed on the way.

## 2. Modules

```
 SampleChanges <--EXTENDS-- ChangeTasks --refines--> ChangeOutcome
 EventFeed                              --refines--> EventLog
 WorkerProcess <--EXTENDS-- AnalysisJobs --refines--> AnalysisPromise
               <--EXTENDS-- Chat         --refines--> ChatPromise
               <--EXTENDS-- Notifications
 Exceptions    <--EXTENDS-- Patrol
 Schedule      <--EXTENDS-- Orders
 Members       <--EXTENDS-- Channel
 X_proofs EXTENDS X, TLAPS      MCX EXTENDS X, TLC (instances for the model checker)
```

**SampleChanges.** One tenant. Every handler takes the tenant's advisory lock first
(`changes.ts:30`, `store.ts:48`), so a transaction is one action: `Propose`, `Decide`,
`Apply`, and `Mutate` for every other handler that raises an order's version and appends
its event. Not atomic is the HTTP request around an apply: it is sent (`Send`), its actor
is looked up in the member directory (`Authorise`, which answers FORBIDDEN when the
directory cannot be read, `authorization.ts:9`), it commits or is refused, and its answer
waits in `call` until someone reads it or nobody does. Due date, cost and reason of a plan
are guarded by a trigger and stand behind its identity.

**ChangeTasks.** `runChangeTask` between two awaits is one action: `Sweep`, `Claim`,
`CheckManager`, `ReadReceipt`, `ReadPlan`, `SendApply`, `ReceiveAnswer`, `Finish`.
`Timeout`, `LookupFails` and `Crash` may happen in between while the request travels on.
Any number of workers run all the time, which contains the overlap that a lost lock
allows. Branches of the code that no state reaches (a plan that vanished, a snapshot of
another version) are left out: the rows are immutable and never deleted.

**EventFeed.** An event is its position in `outbox.sequence`, a counter that all tenants
share and that a rollback does not give back. `Begin` takes the tenant lock, `InsertRow`
draws a position, `Commit` makes the rows visible. `ReadCursor`, `Fetch`, `Store` and
`EndPoll` are the poll; `PollFails` drops the rest of a page at any point. The retired
shared cursor is adopted as in `event-poll.ts:9`.

**WorkerProcess.** `Start` takes the lock, `BeginLoops` follows the recovery statements,
`LoseLock` frees the lock in the database, `Stop` is the process learning of it or of a
signal, `Exit` and `Die` end it. It is extended by the modules whose rows are recovered.

**AnalysisJobs.** `Claim`, `Complete`, `Fail`, `Recover` and `Retry` are the statements of
`jobs.ts` with their WHERE clauses; `RunFails` is the catch block of the loop, also when the
result was committed and only the answer of the statement was lost. A retry carries the
`updated_at` that its manager saw (`seen`), which must be that of the row (`Matches`). `audit` is
the failures that were seen and granted a retry, by that `updated_at`; `spent` is a history
variable. `RunsAccounted` relates the two: a failure that was seen grants three runs once,
whoever asks for them and how often.

**Notifications.** The call has a life of its own: `Post` puts it on the `wire`, WeCom
delivers or rejects it (external), and its caller hears of it (`Reply`), times out
(`Timeout`), or is dead. `delivered` is what people received.

**Exceptions.** Reconciliation and transition take the tenant's lock first
(`exceptions.ts:12`), so each is one action. `facts` is the business service: the version
of an order and the issues that its schedule gives on the `day`. `Listing` is what a patrol
is told, version, day and issues read together; `ReconcileExceptions` takes it when it may
be old, compares it with `source` (line 21) and opens, reopens or clears the records.
`ListExceptions` shows a member all records and takes no lock. A decision is made on such a
`page`, of whatever age: `TransitionException` checks the key, who may, that the record still has
the version on the page (`Expected`, the `expectedVersion` of line 35), its status and its
evidence. The answer of a transition shows its record as a list read next would. The role of the
caller is arbitrary: it is read before the lock and may have changed since. Under a key it is kept
who decided, and on which record. `DecisionsAsSeen` is what the version is for: an accepted
decision finds status, owner and evidence as its actor saw them.

**Patrol.** A patrol is one transaction that holds its policy's row (`holder`, FOR UPDATE
SKIP LOCKED). Its uncommitted rows are `draft`; `Commit` makes them `ledger`. Between
`Begin`, `List`, `Reconcile`, the turns of the loop (`Examine`) and `Commit` everybody else
moves. `Reconcile` commits on another connection; `Rollback` and `ReconcileUnanswered`
undo the rest and leave that. `LoseRow` ends the transaction in the database while the
worker waits for an answer and does not know it, so that a second patrol overlaps with a
late reconciliation of the first; later the next statement tells it (`GiveUp`).
`Scopes` are the lists of orders that a policy may have, also of orders that do not exist.

**Schedule.** `Finish` is `evaluateSchedule` as a recursive function of the set `visiting`, and
`NodeEnd` is what `finish` does for one node with what it returned for the others:
`Boundaries` are the days a node may start after, `Workday` and `WorkEnd` count working days
of the calendar, `Forecast` and `Risk` are made of the finishes. `Valid` is
`validateProject`: it visits the paths of the dependencies as the code does, so that the
recursion of `Finish` ends is a consequence to be proved and no assumption. Its limits of 366
holidays and 365 days for a node are kept, because the search of 3660 days in `workday` rests on
the first. The maps `done` only spare visits and are left out, which is proved
(`FinishEquation`).

**Orders.** Every handler runs in one transaction that takes the tenant's lock, looks at the
key, then at the version, and writes order, key and event together, so it is one action:
`Create` (one project or a batch), `Configure`, `Feedback`, `Assign`, `Accept`, `Return`,
`Attach`, and the parts of a change plan that share the keys (`Propose`, and `ApplyChange`, which
gives the order the due date of the plan, any of `Dues`).
`SaveTemplate` and `DeleteTemplate` are the library. A request was decided on some version
(`expected`), which need not be the present one. Of a row in `mutations` the writes that its
result tells of are kept. `seen` in an acceptance, and the round and version of a report, are
history.

**Chat.** `Ask`, `Claim`, `Invoke`, `Complete`, `Fail` and `Recover` are the statements of
`chat.ts` and of the start of the worker. A tool call lives apart from its run: `Admit` checks
that the question is still running, `Store` keeps the order as evidence under the same
condition, and the model may have taken the answer (`Receive`) or given up.

**Members.** `saveMember` between its read of the directory and its commit is two steps
(`save` holds what it is about to write), because what must be shown is that the lock of the
tenant makes them one.

**Channel.** A delivery passes `Connect`, `Lock`, `Call` and `Commit`; `GiveUp` is the deadline
of the call or its failure, and `Crash` the end of the platform, after which the call goes on.
In the service the call asks the directory (`AskMembers`, which needs a connection of a pool
of its own), and is then refused, found under its key, rejected or executed. `effects` is
history.

### Abstractions

- Time: due rows may be claimed at any moment, a claim may expire at any moment, a
  deadline may pass at any moment. `updated_at` in the analysis queue is a counter.
- A claim token is the claiming worker: a process has one claim of a kind, and every claim
  of its past life is ended (sweep, recovery) before it makes another on that row.
- Tenants are kept apart by every statement; the feed, where they share a counter and a
  loop, has two of them, the other modules one.
- A patrol may run at any moment of any day: of its policy the scope is kept, and whether it is
  `enabled`, its `weekdays`, the hours of its window (`isPatrolWindow`, `patrol.ts:10`) and its
  interval are left out. For safety that is more than the code does. The liveness properties are
  therefore of a policy that is enabled and whose window comes again every day: one that is
  switched off, or a day outside its weekdays, notices and escalates nothing. The recipients of
  messages are left out too, and `escalationAfterHours` is counted in days.
- In `Orders` and `Schedule` a day is a number. Owners and who may do what are left out there
  (any person may be entitled; `SampleChanges` has the rights), and so are names, weights and
  the contents of files and templates. One limit, `FileLimit`, stands for the number and the
  size of the attachments. Risk and forecast are those the list computes, which are also what
  people and patrols see.
- In `Channel` all events come from one person, and all bodies are written for the version the
  order has at first.
- The model is enabled, the scenario is installed, the sender is configured. In
  `AnalysisJobs` a manager keeps the role.

## 3. Runs

| run | instance | asks | distinct states |
|---|---|---|---|
| `business` | 1 order, 2 plans, 2 managers, 2 keys, 2 requests, version <= 2 | `LedgerAgrees`, `KeysNameOneExecution`, `OutboxComplete` | with symmetry, seconds |
| `tasks` | 1 change, 2 workers, 2 requests, 1 key of a person, version <= 2 | `AuditAgrees`, `AwaitingIsUntried`, `AttemptsMonotone`, `KeepsOutcome` | with symmetry, a minute |
| `tasks_live` | as before, 1 request, nobody else applies, no symmetry | `ClaimsEnd`, `DecidedTasksSettle` | 250,572 |
| `failed_executed` | 1 worker, 1 request | `FailedDidNotExecute`: **violated** | stops at the trace |
| `feed` | 2 tenants, 2 transactions, 2 pollers, pages of 2, 3 positions | `NoEventSkipped`, `CursorAdvances`, `KeepsLog`, `EveryEventArrives` | 48,009 |
| `analysis` | 1 job, 2 workers, 2 managers, 2 granted retries | `RunsAccounted`, `AnswerIsLast`, `KeepsPromise`, `JobsSettle` | 567,024 |
| `notifications` | 1 notification, 2 workers | `DeliveredOnce`, `StatusTellsTruth`, `AuditBalanced`, `NotesSettle` | 6,192 |
| `patrol` | 1 order, 1 issue, 2 workers, 2 keys, symmetry | `EvidenceTrue`, `ClosedOnEvidence`, `EscalationsEarned`, `SourceAdvances`, `DecisionsAsSeen` | 564,021 |
| `patrol_live` | 1 worker, 1 key, 2 policies, no symmetry | `OrdersNoticed`, `UnresolvedEscalate` | 52,699 |
| `chat` | 1 question, 2 workers, 2 tool calls | `AnswersShowEvidence`, `KeepsPromise`, `QuestionsEnd` | 60,968 |
| `channel` | 2 deliveries of 1 event, 2 bodies, 2 connections and 1 for the directory, 2 people, 2 saves | `ManagerRemains`, `OneEffectPerEvent`, `RefusedForGood`, `DeliveriesSettle` | 611,810 |
| `orders` | 2 orders of 2 nodes, 1 template, 4 writes, symmetry | `EveryWriteHasItsKey`, `AcceptanceEarned`, `RecoveryEvidenceFresh`, `ForecastFeasible`, `RiskHonest` | 573,337 |

The type invariants are not in this table: they are proved (`TypeCorrect` in each `_proofs`
module, as a theorem for all instances).

Why the bounds are enough. Every conflict in this code is between two actors: a claimant and
its successor, two plans, two managers, two pollers, a transaction and a reader. The
rows of different changes, jobs and notifications meet in no statement but the sweep and
the recovery, which treat each row alone; the proofs of section 5 cover any number of
them. `MaxAttempts` is the code's own 3, never reduced. `MaxVersion` lets an order move
on once between proposal and apply. Three positions with pages of two leave room for a gap
of a rollback inside a page and between pages. `MaxSequence` only keeps the run finite.
`MaxRetries` is two granted retries: one that is in order, and one that an old list must
not get, after its failure was retried and failed again. The two patrol runs have two versions of
an order (`MaxSource`), two days (`MaxDay`, with an escalation after one) and one saved policy
(`MaxPolicy`; in `patrol_live` two, so that the scope is changed under a patrol): enough for an issue that goes, with the day or with the version, and comes
back as a second episode, for a listing that is old in either way, and for an exception
that outlives its evidence. In `patrol` one member with two keys stands for two people: what
matters is that a page is older than a decision made since, by that member or by a patrol. A
policy has the empty list, which is all orders, or names an order that does not exist. In `chat` the tool calls
of one question meet their own run, its replacement's recovery and each other. In `channel`
the two deliveries differ in their bodies or repeat one another, each holds a connection while
the service's read of the directory waits for one, and two saves are what a race of two managers
needs; a member is written twice at most (`MaxMemberVersion`). In `orders` four writes
(`MaxKeys`) are enough for a report, a return, a second round and its acceptance, or for
a project that is created, configured and worked on; an instance has every graph of dependencies
of two nodes, cyclic ones included, reports that are complete, nearly complete (rounded up to
100 %), blocked with a date of the material, and open with an expectation of the owner, a calendar
of five days with a holiday, and work that is planned for later. An initial order is in the
middle of its work, as the seeds are; an applied plan makes it due before its work can be done, or long
after (`Dues`). The theorems hold for every value of all these.

Deadlock is checked in every run but two: in `channel` every delivery and save is made once,
and in `orders` the keys of the instance run out, so both really end. That no delivery of
`channel` gets stuck before is `DeliveriesSettle`.

### What `failed_executed` shows

A worker applies an approved plan; the service commits, the answer is lost, the task goes
to `unknown`. At the next run the manager has lost the role, or the service cannot read
the directory while the receipt is looked up: FORBIDDEN. `change-tasks.ts:33` makes this
`failed`, which is final, although the change was executed under the task's key. The design
(`docs/superpowers/specs/2026-09-07-soundlab-agent-platform-design.md:68`) says that after a
timeout the state of the call is queried before anything is decided and that an undecidable
result goes to verification; `ChangePanel.tsx:18` shows `failed` as "执行失败". The promise
that does hold is `ChangeOutcome`: `failed` says nothing about the plan there.

## 4. Fairness

Safety properties do not depend on fairness, and the theorems state them of `Spec`, which has none.
Progress assumes what the code arranges:

- **ChangeTasks**: weak fairness of each worker's next step and sweep (the loop of
  `server.ts:72-74` never ends and every await has a deadline), of the service's requests,
  and strong fairness of claiming each task, because `ORDER BY next_run_at` with the
  fifteen-second delay starves nobody. `ClaimsEnd` holds under crashes for ever.
  `DecidedTasksSettle` assumes that faults stop at some time and that from then on a run
  ends within its claim (a run makes four calls of five seconds at most, a claim lasts two
  minutes).
- **EventFeed**: weak fairness of a poll's steps and strong fairness of visiting each tenant.
  `EveryEventArrives` assumes only that the polls of that tenant stop failing: the polls of
  the other may fail for ever.
- **AnalysisJobs, Notifications**: weak fairness of the worker's steps and of the start of a
  worker (`deployment-runbook.md:28`: a process manager restarts it), strong fairness of
  claiming each row. `JobsSettle` and `NotesSettle` assume that faults stop, and for a row
  that a fault left claimed by nobody, that a worker is started again. That is a statement
  about the code and not a convenience: nothing but the recovery at a start ends such a
  claim, and `diagnostics.ts` shows it as an alert after fifteen minutes.
- **Chat**: as the other queues of the worker. `QuestionsEnd` assumes that faults stop, and for
  a question that a fault left running, that a worker is started again: nothing else ends it.
- **Channel**: weak fairness of each delivery's own steps (connections and locks are granted in
  turn, a call has a deadline of five seconds) and of a directory read that was begun. Nothing
  is assumed of the business service, and `GiveUp` is not fair while a delivery waits for a
  connection, for that wait has no deadline. It is the directory's own pool (`members.ts:6`)
  that makes `DeliveriesSettle` hold; the mutant with one pool blocks.
- **Orders** has no liveness: nothing happens there by itself.
- **Patrol**: weak fairness of the calendar and of each worker's next step (the loop runs for
  ever and each of its calls ends), strong fairness of beginning a patrol, because a policy's
  row is free between patrols and the loop comes back to it. People, changes of orders and
  policies are free to happen or not. `OrdersNoticed` and `UnresolvedEscalate` assume that
  failures stop at some time. A failure is a fault that undoes something (`Failure`): a
  rollback with nothing to undo is the same step as a commit.

A model run is assumed to end (`runTimeoutMs`). Each premise was checked to be satisfiable:
with its conclusion replaced by FALSE, TLC finds a behaviour that meets it.

## 5. Proofs

`tlapm` checks every step. The theorems hold for every set of orders, plans, members, keys,
workers, requests, tenants, jobs, notifications, questions, deliveries, nodes and templates,
all projects and reports, and every value of the bounds, from the named assumptions of the
modules (`ChangesAssumption`, `NoVerdictAssumption`, `FeedAssumption`, `WorkersAssumption`,
`JobsAssumption`, `ExceptionsAssumption`, `PatrolAssumption`, `ChatAssumption`,
`MembersAssumption`, `ChannelAssumption`, `NodesAssumption`, `OrdersAssumption`): "nobody" is
not a member of a set, nor are the names of refusals, orders and templates have different ids,
the bounds are natural numbers, the managers are finitely many, the nodes of an order are
finitely many and not none (`project-validation.ts:13`), "no date" is not a number, days are
natural numbers and there is one, due dates are days, and projects and reports have the shape of
their types.

- **ChangeTasks_proofs.** `TypeCorrect`; of the business tables, `ServiceCorrect` for the service
  on its own (what the run `business` checks) and `LedgerCorrect`, `KeysCorrect` and
  `OutboxCorrect` for the service with its workers. All four come from one argument: a
  `BusinessStep` is all that writes a table, no worker takes one but through `Apply`, and an
  apply writes order, plan, receipt, key and event at once, where `CanApply` excludes every key
  and change that has a row. The
  properties of tasks need more: `AttemptsLeft` and `JobsExist` (a worker in the middle of a
  run still has an attempt to spend, on a task that was delegated), `CallsHonest` (an answer
  "completed" in flight belongs to a change that is applied, and at most one request is
  waited for), `WorkersHonest` (a verdict "succeeded" or "rejected" in a worker's locals is
  true of the plan, and a worker that counted an attempt has a plan that is approved or
  applied), `TasksHonest` (the same of the rows), and `Fenced` (the owner of a claim has
  counted at least the attempts its row shows). With them `AuditCorrect`,
  `AwaitingCorrect`, `AttemptsCorrect`, and `Refinement`: execution implements `ChangeOutcome`.
- **EventFeed_proofs.** The invariant says that a tenant with no lock holder has no row in
  the making (`Locked`), that rows in the making are above every committed row, cursor and
  page of their tenant (`Ordered`), that what a cursor has passed is stored (`Stored`), and
  that a page under way holds every committed event between its start and its end (`Polling`).
  It gives `NothingSkipped`, `CursorCorrect` and `Refinement` to `EventLog`. It is `Free`, the
  lock of `store.ts:48`, that makes `Ordered` inductive; the mutant without it loses events.
- **AnalysisJobs_proofs.** `RowOK` counts runs, granted failures and attempts of one job
  together: attempts below the limit when claimable, the limit when failed, granted failures older
  than the row, so that a retry which matches the row (`Matches`) is of a new one. `ClaimsOK` says that a worker that still
  owns its claim holds the attempts and the run of the row. `TypeCorrect`,
  `RunsCorrect`, `AnswerCorrect`, and `Refinement` to `AnalysisPromise`.
- **Notifications_proofs.** The invariant of a notification: nothing was sent while it may
  still be claimed (`Untouched`), one worker holds it (`OneWorker`) with at most one call
  (`OneCall`), what that worker has heard is what happened (`Knowledge`), and "sent" was
  delivered (`SentDelivered`), with the audit balanced (`AuditBalanced`). `TypeCorrect`,
  `DeliveredAtMostOnce`, `StatusTrue`, `AuditCorrect`.
- **Patrol_proofs.** `RowsOK` says of a record which status goes with which evidence;
  `ListsTrue` that what a patrol carries was true at its version and day, and `SourcesOK`
  that no observation is of the future: together they make `EvidenceTrue` inductive although
  a list may be arbitrarily old when it is reconciled. `PagesOK` says that what a member was shown
  is the record, or has a lower version: whatever writes a record raises its version (`Newer`), so that
  equal versions are equal records, which is what `DecisionsCorrect` needs. `Earned`, for the committed rows and
  for the draft alike, with `DaysOK` and `TodoOK` for the locals, carries the escalations over
  commits, rollbacks and lost rows. `TypeCorrect`, `EvidenceCorrect`, `ClosedCorrect`,
  `DecisionsCorrect`, `EscalationsCorrect`, `SourcesCorrect`.
- **Chat_proofs.** A question that was not claimed has no evidence and was not put to the model
  (`Untouched`), one worker at most has it in its hands, even after a restart failed its row (`OneWorker`),
  what a run or a call has heard of is kept (`RunsOK`, `CallsOK`). It is the condition "still running"
  of each statement, and that no question is queued twice, which stand in for the token that a
  claim lacks. `TypeCorrect`, `EvidenceCorrect`, and `Refinement` to `ChatPromise`.
- **Channel_proofs.** Of the members: one save is between its read and its commit (`OneSave`),
  and what it will write leaves a manager (`SavesKeep`). Of the deliveries: the receipt of an
  event and its effect are the same thing (`ReceiptsTrue`), what is recorded or answered is an
  effect (`RecordsTrue`, `RowTrue`), and who is told that the order moved on has no receipt and
  will get none, for the order does not move back (`Grows`). `TypeCorrect`, `ManagerCorrect`,
  `EffectsCorrect`, `RefusalsCorrect`.
- **Orders_proofs.** `Keyed`: no two keys tell of one write, the library's keys tell of
  exactly the rows of its audit, and the orders' of exactly the versions that were announced, none
  of them above the order's. `WorkOK`: a node that is reported complete has a newest report that
  says so in its present round, an accepted one has it since before the version its manager saw,
  and its dates are those of recent reports. `FilesOK`: files came before the acceptance. The
  lemmas on sequences say what a report that is put in front of the others does to "newest"
  and "recent". `PlansOK`: an order that has a calendar was validated, for only `Create` and
  `Configure` write calendar, dependencies and durations, and everything else leaves them
  (`SamePlan`). `TypeCorrect`, `KeysCorrect`, `AcceptanceCorrect`, `EvidenceCorrect`, and from
  `PlansOK` with what follows `ForecastCorrect` and `RiskCorrect`.

What the functions of `Schedule` compute is proved in the same module, for every finite set of
nodes and every calendar. Induction has no rule here, so each argument is made about a least
counterexample (`LeastNumber`), or about a largest set of nodes being visited (`Outermost`); that
a recursive function exists at all and solves its equation is the lemma `Recursion`, along a
rank: the number of working days for `WorkEnd`, the number of nodes outside `visiting` for `Visit` and
`Finish`.

- `WorkdayFound`: of 367 weeks one has its weekday free when there are 366 holidays at most
  (pigeonholes), so `workday` returns, and returns the first working day.
- `VisitFindsCycles`: the paths that `validateProject` walks find every cycle, and nothing else is
  refused as one. `FinishDefined`: so evaluating a validated project never throws.
- `FinishEquation`: what `finish` returns of a node does not depend on the path that led to it
  (`PathFree`), so that remembering it in `done` changes nothing.
- `EarliestEnd`: the end of a node is feasible and no earlier day is. Feasible means that there are as
  many working days as the rest of the work takes between it and the day of the
  evaluation, the planned start, the material, and the day after each dependency, and that the
  owner expects nothing later. `ForecastCorrect` is its first half, in all reachable states.
- `ForecastGrows`: as long as an order does not change, the days that pass make its forecast no
  earlier and its risk no smaller.

Only model-checked: everything about liveness (`ClaimsEnd`, `DecidedTasksSettle`,
`EveryEventArrives`, `JobsSettle`, `NotesSettle`, `OrdersNoticed`, `UnresolvedEscalate`,
`QuestionsEnd`, `DeliveriesSettle`), which the prover does not treat, and the one statement that
does not hold, `FailedDidNotExecute`.

## 6. State of the plan

All components whose operations interact are modelled, in this order: SampleChanges, ChangeTasks,
EventFeed, WorkerProcess, AnalysisJobs, Notifications, Exceptions, Patrol, Chat, Members with
Channel, Schedule with Orders. Every safety property and every refinement of a passing run is
proved. What could be added:

1. an abstract specification for Patrol (episodes and their escalations) and its refinement;
2. the composition of EventFeed with Orders: transactions of several statements that publish the
   rows which Orders writes in one step (the lock they share makes them one, which EventFeed
   checks for the rows it has);
3. a model of the attempts of `ChangeTasks` that counts the requests that were really sent.

## 7. Not modelled, and why

- **Runtime settings, installations**: one versioned row each, read and written under a lock with
  a key, of the shape that `Members` (a lock around a read and a write) and
  `Orders.SaveTemplate` (key, then version, then row and audit) have; a copy of those models
  would say nothing new. What other parts see of them is that the
  model may be switched off: for safety a claim may be put off for ever in `Chat` and
  `AnalysisJobs`, and their liveness assumes that it is on.
- **Sessions and passwords, signatures and decryption of the channels, parsing of model output,
  contents of attachments**: computation on data with no interaction of several steps.
- **The gateway and the adapters**: they pass a call on, and the ways in which a call can fail are
  actions of the modules that make it.
- **Migrations**: one transaction under one lock, run by hand before the services start.
- **The web workbench, the scripts, and the vendored harness** under
  `src/apps/zhixing-harness/upstream`: user interface, command lines and third-party code. The
  harness is nearly all of the repository's lines: of its 350,000, the program itself has some two
  thousand, and they are what the modules stand for.

Exposed, and promised by nobody, so that no property is about them:

- a role is read before the transaction that it guards (`exceptions.ts:30`), so a person whose role
  is taken away in between still acts once; `Exceptions` lets anybody act and its properties hold
  all the same;
- the attempt of a delegated change is counted in memory (`change-tasks.ts:30`): a crash after the
  request was sent leaves the old count;
- a deleted template starts again at version 1 (`store.ts:116`), so a list from before the deletion
  may pass the version check;
- past the year 9999 dates no longer sort as text (`schedule.ts:3`); days are numbers in `Schedule`.

`PROJECT.json` says of every part whether it is modelled, partly or not.

## 8. Running

```
tlc -workers 2 -config MCChangeTasks.cfg MCChangeTasks
tlapm ChangeTasks_proofs.tla
```
