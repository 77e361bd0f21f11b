------------------------------- MODULE Orders -------------------------------
(***************************************************************************)
(* The orders of the sample business service and the library of templates  *)
(* (src/apps/soundlab-api/store.ts, domain.ts, project.ts, attachments.ts).*)
(*                                                                         *)
(* A project is created, configured, worked on, accepted or returned node  *)
(* by node.  Every write names the version it was decided on and carries a *)
(* key; all of them, whatever they write, keep their keys in one table.    *)
(* Every transaction takes the lock of the tenant, so it is one step; what *)
(* its request was decided on may be any earlier version.  Requests that   *)
(* are refused, and those that find their own key and are answered from it,*)
(* change nothing and are left out.                                        *)
(*                                                                         *)
(* Who may do what is read from the directory before the transaction (see  *)
(* SampleChanges): any person may be entitled, and owners are left out.    *)
(***************************************************************************)
EXTENDS Sequences, Schedule

CONSTANTS
  OrderIds,   \* order ids
  Templates,  \* template ids
  Projects,   \* project inputs
  Reports,    \* contents of a feedback
  Days,       \* days on which a node may be accepted; the last one is today
  Dues,       \* due dates that a change may give an order
  FileLimit,  \* attachments of an order
  MaxKeys,    \* bound: idempotency keys, and with them writes of any kind
  MaxVersion  \* bound: writes of an order

DateOrNone == Nat \cup {None}

Calendar == [weekdays: SUBSET (0..6), holidays: SUBSET Nat]

ProjectRow ==
  [due: Nat, calendar: Calendar,
   node: [Nodes -> [dependencies: SUBSET Nodes, duration: Nat, planned: DateOrNone]]]

ReportRow ==
  [completed: Nat, total: Nat \ {0}, blocked: BOOLEAN, expected: DateOrNone, eta: DateOrNone]

Statuses == {"not_started", "in_progress", "blocked", "reported_complete", "rework", "accepted"}

NodeRow ==
  [status: Statuses, percent: Int, expected: DateOrNone, eta: DateOrNone, rounds: Nat,
   acceptance: [at: Days, sourceVersion: Nat, seen: Nat] \cup {None},
   dependencies: (SUBSET Nodes) \cup {None}, duration: DateOrNone, planned: DateOrNone]

FeedbackRow == [node: Nodes, report: Reports, round: Nat, version: Nat]

OrderRow ==
  [version: Nat, due: Nat, calendar: Calendar \cup {None}, feedback: Seq(FeedbackRow),
   node: [Nodes -> NodeRow]]

(* What a key may tell of: a version of an order, or a change of a template. *)
Writes == (OrderIds \cup Templates) \X (Nat \ {0})

ASSUME OrdersAssumption ==
  /\ OrderIds \cap Templates = {}
  /\ Projects \subseteq ProjectRow
  /\ Reports \subseteq ReportRow
  /\ Dues \subseteq Nat
  /\ Days \subseteq Nat /\ IsFiniteSet(Days) /\ Days # {}
  /\ None \notin OrderRow \cup [writes: SUBSET Writes]
  /\ MaxVersion \in Nat \ {0} /\ MaxKeys \in Nat /\ FileLimit \in Nat

VARIABLES
  order,      \* orders.data, or None
  file,       \* sampling_attachments
  template,   \* version of each project_templates row, or None
  audit,      \* project_template_audit: <<before, after>>, by template
  mutations,  \* by key: the <<object, version>> pairs that the result tells of, or None
  outbox      \* <<order, version>> rows

vars == <<order, file, template, audit, mutations, outbox>>

(* Keys are numbered in the order in which they are first used. *)
Keys == 1..MaxKeys

TypeOK ==
  /\ order \in [OrderIds -> OrderRow \cup {None}]
  /\ file \subseteq [order: OrderIds, node: Nodes, version: Nat]
  /\ template \in [Templates -> Nat \cup {None}]
  /\ audit \in [Templates -> Seq((Nat \cup {None}) \X (Nat \cup {None}))]
  /\ mutations \in [Keys -> [writes: SUBSET Writes] \cup {None}]
  /\ outbox \subseteq OrderIds \X (1..MaxVersion)

(* createOrders: a demo order, in the middle of its work and not yet configured. *)
SeedNode(status, percent) ==
  [status |-> status, percent |-> percent, expected |-> None, eta |-> None, rounds |-> 0,
   acceptance |-> None, dependencies |-> None, duration |-> None, planned |-> None]

Seed(m, done) ==
  [version |-> 1, due |-> 6, calendar |-> None, feedback |-> <<>>,
   node |-> [n \in Nodes |-> IF n = m THEN SeedNode("in_progress", 40)
                             ELSE IF n \in done THEN SeedNode("accepted", 100)
                             ELSE SeedNode("not_started", 0)]]

Seeds == {Seed(m, done) : m \in Nodes, done \in SUBSET Nodes}

Init ==
  /\ order \in [OrderIds -> Seeds \cup {None}]
  /\ Cardinality({o \in OrderIds : order[o] # None}) <= 1
  /\ file = {}
  /\ template = [t \in Templates |-> None]
  /\ audit = [t \in Templates |-> <<>>]
  /\ mutations = [k \in Keys |-> None]
  /\ outbox = {}

-----------------------------------------------------------------------------
(* One transaction.                                                         *)

KeyFree_Always(k) == TRUE

(* No row in mutations under this key, whoever used it and for what. *)
KeyFree(k) == mutations[k] = None

Current_Any(o, expected) == order[o] # None /\ expected <= order[o].version

(* checked: VERSION_CONFLICT unless the request was decided on this very version. *)
Current(o, expected) == order[o] # None /\ expected = order[o].version

(* The rows that tell of a write of these orders. *)
Record(k, writes) ==
  /\ mutations' = [mutations EXCEPT ![k] = [writes |-> writes]]
  /\ outbox' = outbox \cup writes

(* UPDATE orders, INSERT INTO mutations and outbox. *)
Update(o, k, row) ==
  LET version == order[o].version + 1
  IN  /\ version <= MaxVersion
      /\ order' = [order EXCEPT ![o] = [row EXCEPT !.version = version]]
      /\ Record(k, {<<o, version>>})
      /\ UNCHANGED <<template, audit>>

-----------------------------------------------------------------------------
(* store.ts: projects.                                                      *)

(* newProject: only the configuration is taken from the input. *)
NewOrder(p) ==
  [version |-> 1, due |-> p.due, calendar |-> p.calendar, feedback |-> <<>>,
   node |-> [n \in Nodes |->
     [SeedNode("not_started", 0) EXCEPT !.dependencies = p.node[n].dependencies,
        !.duration = p.node[n].duration, !.planned = p.node[n].planned]]]

(* createProject, and createProjectBatch for several: one order that exists already,
   and none is created. *)
Create(input, k) ==
  /\ \A o \in DOMAIN input : order[o] = None /\ Valid(input[o])
  /\ order' = [o \in OrderIds |-> IF o \in DOMAIN input THEN NewOrder(input[o]) ELSE order[o]]
  /\ Record(k, (DOMAIN input) \X {1})
  /\ UNCHANGED <<file, template, audit>>

(* configureProject: the state of the work stays, and what is omitted is cleared. *)
Reconfigured(row, p) ==
  [row EXCEPT !.calendar = p.calendar,
     !.node = [n \in Nodes |-> [row.node[n] EXCEPT !.dependencies = p.node[n].dependencies,
                 !.duration = p.node[n].duration, !.planned = p.node[n].planned]]]

Configure(o, p, k) ==
  /\ Valid(p)
  /\ Update(o, k, Reconfigured(order[o], p))
  /\ UNCHANGED file

-----------------------------------------------------------------------------
(* domain.ts: the life of a node.                                           *)

Open(o, n) == order[o].node[n].status # "accepted"

(* Math.round(completed / total * 100) *)
Percent(r) == (200 * r.completed + r.total) \div (2 * r.total)

StatusAfter(r) ==
  IF r.blocked THEN "blocked"
  ELSE IF r.completed = r.total THEN "reported_complete" ELSE "in_progress"

Kept_Always(r, value) == value

(* A newly reported blocker cannot reuse recovery evidence from an earlier report. *)
Kept(r, value) == IF r.blocked THEN None ELSE value

Evidence(r, given, value) == IF given # None THEN given ELSE Kept(r, value)

(* applyFeedback; the newest report is the first one. *)
Feedback(o, n, r, k) ==
  LET row == order[o].node[n]
  IN  /\ Open(o, n)
      /\ Update(o, k,
           [order[o] EXCEPT
              !.node[n] = [row EXCEPT !.percent = Percent(r), !.status = StatusAfter(r),
                             !.expected = Evidence(r, r.expected, row.expected),
                             !.eta = Evidence(r, r.eta, row.eta)],
              !.feedback = <<[node |-> n, report |-> r, round |-> row.rounds,
                              version |-> order[o].version + 1]>> \o @])
      /\ UNCHANGED file

(* assignOwner *)
Assign(o, k) == Update(o, k, order[o]) /\ UNCHANGED file

(* NODE_NOT_READY *)
Ready(row) == row.status = "reported_complete" /\ row.percent = 100

(* acceptNode; "seen", the version that the manager saw, is a history variable. *)
Accept(o, n, day, expected, k) ==
  /\ Open(o, n)
  /\ Ready(order[o].node[n])
  /\ Update(o, k, [order[o] EXCEPT !.node[n].status = "accepted",
       !.node[n].acceptance = [at |-> day, sourceVersion |-> order[o].version, seen |-> expected]])
  /\ UNCHANGED file

Returned(row) ==
  [row EXCEPT !.status = "rework", !.percent = 0, !.rounds = @ + 1, !.expected = None,
              !.eta = None]

(* returnNode *)
Return(o, n, k) ==
  /\ order[o].node[n].status = "reported_complete"
  /\ Update(o, k, [order[o] EXCEPT !.node[n] = Returned(@)])
  /\ UNCHANGED file

(* uploadAttachment *)
Attach(o, n, k) ==
  /\ Open(o, n)
  /\ Cardinality({f \in file : f.order = o}) < FileLimit
  /\ file' = file \cup {[order |-> o, node |-> n, version |-> order[o].version]}
  /\ Update(o, k, order[o])

-----------------------------------------------------------------------------
(* changes.ts: the part of a change plan that keeps keys and writes orders.  *)

(* proposeChange keeps a result that tells of no write. *)
Propose(k) ==
  /\ mutations' = [mutations EXCEPT ![k] = [writes |-> {}]]
  /\ UNCHANGED <<order, file, template, audit, outbox>>

(* applyChange: the order is due when the approved plan says; SampleChanges tells when a
   plan may be applied. *)
ApplyChange(o, due, k) == Update(o, k, [order[o] EXCEPT !.due = due]) /\ UNCHANGED file

-----------------------------------------------------------------------------
(* store.ts: the library of templates.                                      *)

(* libraryMutation *)
LibraryMutation(t, k, after) ==
  /\ template' = [template EXCEPT ![t] = after]
  /\ audit' = [audit EXCEPT ![t] = Append(@, <<template[t], after>>)]
  /\ mutations' = [mutations EXCEPT ![k] = [writes |-> {<<t, Len(audit[t]) + 1>>}]]
  /\ UNCHANGED <<order, file, outbox>>

(* saveProjectTemplate: a template that is new, or whose current version is named. *)
SaveTemplate(t, p, expected, k) ==
  /\ Valid(p)
  /\ expected = template[t]
  /\ LibraryMutation(t, k, IF template[t] = None THEN 1 ELSE template[t] + 1)

DeleteTemplate(t, expected, k) ==
  /\ template[t] # None
  /\ expected = template[t]
  /\ LibraryMutation(t, k, None)

-----------------------------------------------------------------------------
(* The handlers of one order, each of which was asked for at version "expected". *)
Write(o, expected, k) ==
  \/ \E p \in Projects : Configure(o, p, k)
  \/ \E n \in Nodes :
       \/ \E r \in Reports : Feedback(o, n, r, k)
       \/ \E day \in Days : Accept(o, n, day, expected, k)
       \/ Return(o, n, k)
       \/ Attach(o, n, k)
  \/ Assign(o, k)
  \/ Propose(k)
  \/ \E due \in Dues : ApplyChange(o, due, k)

(* Requests come with a key that was used before, or with a new one; every handler looks
   at the key first, and then at the version of what it is about to write. *)
Next ==
  \E k \in {l \in Keys : \A i \in 1..(l - 1) : mutations[i] # None} :
    /\ KeyFree(k)
    /\ \/ \E S \in SUBSET OrderIds \ {{}} : \E input \in [S -> Projects] : Create(input, k)
       \/ \E o \in OrderIds, expected \in 1..MaxVersion :
            Current(o, expected) /\ Write(o, expected, k)
       \/ \E t \in Templates, expected \in (1..MaxVersion) \cup {None} :
            \/ \E p \in Projects : SaveTemplate(t, p, expected, k)
            \/ DeleteTemplate(t, expected, k)

Spec == Init /\ [][Next]_vars
-----------------------------------------------------------------------------
(* Properties.                                                              *)

Told == UNION {mutations[k].writes : k \in {l \in Keys : mutations[l] # None}}
Today == Max(Days)
Existing == {o \in OrderIds : order[o] # None}

(* The i-th report is the newest one of the node. *)
Newest(feedback, n, i) ==
  feedback[i].node = n /\ \A j \in 1..(i - 1) : feedback[j].node # n

(* It belongs to this round of the node, and no blocker was reported since. *)
Recent(feedback, n, round, i) ==
  /\ feedback[i].node = n
  /\ feedback[i].round = round
  /\ \A j \in 1..(i - 1) : feedback[j].node = n => ~feedback[j].report.blocked

(* Every write of an order or of the library is told of under one key, which tells of
   nothing else, and every version of an order is announced: a request that is repeated,
   or a key that is used for something else, writes nothing (store.ts:49-60). *)
EveryWriteHasItsKey ==
  /\ \A k, l \in Keys :
       k # l /\ mutations[k] # None /\ mutations[l] # None =>
         mutations[k].writes \cap mutations[l].writes = {}
  /\ outbox = Told \cap (OrderIds \X (1..MaxVersion))
  /\ \A o \in Existing : \A v \in 2..order[o].version : <<o, v>> \in outbox
  /\ \A o \in OrderIds, v \in 1..MaxVersion :
       <<o, v>> \in outbox => order[o] # None /\ v <= order[o].version
  /\ \A t \in Templates, i \in Keys : <<t, i>> \in Told <=> i <= Len(audit[t])

(* A node that was accepted had been reported complete, without a blocker and since it was
   last returned, before the manager looked at it, and nothing was added to it afterwards
   (domain.ts acceptNode, attachments.ts:50). *)
AcceptanceEarned ==
  \A o \in Existing, n \in Nodes :
    LET row == order[o].node[n]
        feedback == order[o].feedback
    IN  row.status = "accepted" /\ row.acceptance # None =>
          /\ \E i \in DOMAIN feedback :
               /\ Newest(feedback, n, i)
               /\ feedback[i].report.completed = feedback[i].report.total
               /\ ~feedback[i].report.blocked
               /\ feedback[i].round = row.rounds
               /\ feedback[i].version <= row.acceptance.seen
          /\ \A f \in file : f.order = o /\ f.node = n => f.version < row.acceptance.seen

(* The date on which a node is expected to recover was given in its present round, and
   no blocker was reported since (domain.ts:37-38). *)
RecoveryEvidenceFresh ==
  \A o \in Existing, n \in Nodes :
    LET row == order[o].node[n]
        feedback == order[o].feedback
        recent == {i \in DOMAIN feedback : Recent(feedback, n, row.rounds, i)}
    IN  /\ row.expected # None => \E i \in recent : feedback[i].report.expected = row.expected
        /\ row.eta # None => \E i \in recent : feedback[i].report.eta = row.eta

(* Every order can be forecast, each node has a date or none yet, and what is forecast is
   feasible: the work that remains of a node fits into the working days after the day of the evaluation,
   its dependencies, its planned start and its material, and the owner's own expectation
   is kept (schedule.ts:30-34, project-validation.ts:20). *)
ForecastFeasible ==
  \A o \in Existing : \A ends \in {Finish(order[o], Today)} :
    /\ ends \in [Nodes -> Nat \cup {None}]
    /\ LET working(from, to) ==
             Cardinality({day \in from..to : Working(order[o].calendar, day)})
       IN  \A n \in Nodes :
             LET row == order[o].node[n]
                 fits(from) == working(from, ends[n]) >= Remaining(row)
             IN  row.status # "accepted" /\ ends[n] # None =>
                   /\ Working(order[o].calendar, ends[n])
                   /\ fits(Today)
                   /\ \A date \in Given({row.planned, row.eta}) : fits(date)
                   /\ \A date \in Given({row.expected}) : date <= ends[n]
                   /\ \A d \in row.dependencies : order[o].node[d].status # "accepted" =>
                        ends[d] # None /\ fits(ends[d] + 1)

(* An order without a risk has a forecast, which its due date allows, and for every node a
   date; a forecast covers all the work that is left, and a late one is a risk
   (schedule.ts:41-45). *)
RiskHonest ==
  \A o \in Existing : \A ends \in {Finish(order[o], Today)} :
    LET forecast == Forecast(order[o], ends)
        risk == Risk(order[o], ends)
    IN  /\ risk = "normal" =>
             forecast # None /\ \A n \in Nodes : ends[n] # None /\ ends[n] <= order[o].due
        /\ forecast # None =>
             /\ \A n \in Unfinished(order[o]) : ends[n] # None /\ ends[n] <= forecast
             /\ forecast > order[o].due => risk = "risk"
=============================================================================
