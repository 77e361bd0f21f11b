----------------------------- MODULE Exceptions -----------------------------
(***************************************************************************)
(* The exceptions of one tenant (src/apps/zhixing-api/exceptions.ts): one  *)
(* record for each issue that a patrol ever found in an order.  A patrol   *)
(* reconciles the records with what it lists; people work on them.  Both   *)
(* take the tenant's advisory lock first (line 12), so a transaction is    *)
(* one action.                                                             *)
(*                                                                         *)
(* The issues of an order are a function of its version and of the day     *)
(* (soundlab-api/schedule.ts, scenario-soundlab/patrol.ts): the order      *)
(* changes, or the calendar does.                                          *)
(***************************************************************************)
EXTENDS Integers, FiniteSets

CONSTANTS
  Objects,       \* orders
  Issues,        \* issue keys of an order
  Members,       \* enabled members, who own and work on exceptions
  MutationKeys,  \* idempotency keys
  None,          \* no value
  MaxSource,     \* bound: versions of an order
  MaxDay         \* bound: days

VARIABLES
  facts,     \* the business service: version and issues of each order
  day,       \* the calendar day both services see
  source,    \* exception_sources: the newest observation reconciled
  exc,       \* platform_exceptions
  mutation,  \* exception_mutations: who decided under each key, and on which record
  page       \* the records that each member was last shown

businessVars == <<facts, day>>
exceptionVars == <<source, exc, mutation, page>>

Statuses == {"open", "in_progress", "resolved", "closed"}
Roles == {"manager", "member"}

ASSUME ExceptionsAssumption ==
  /\ MaxSource \in Nat \ {0}
  /\ MaxDay \in Nat
  /\ None \notin Members \cup Statuses
  /\ None \notin [version : Int, day : Int, issues : SUBSET Issues]
  /\ None \notin [actor : Members, object : Objects, issue : Issues]

Observation == [version: 1..MaxSource, day: 0..MaxDay, issues: SUBSET Issues]
Record == [status: {"none"} \cup Statuses, clear: BOOLEAN, version: Nat,
           owner: Members \cup {None}]
Decision == [actor: Members, object: Objects, issue: Issues]

NoRecord == [status |-> "none", clear |-> FALSE, version |-> 0, owner |-> None]

ExceptionsTypeOK ==
  /\ facts \in [Objects -> [version: 1..MaxSource, issues: SUBSET Issues]]
  /\ day \in 0..MaxDay
  /\ source \in [Objects -> [version: 0..MaxSource, day: 0..MaxDay]]
  /\ exc \in [Objects -> [Issues -> Record]]
  /\ mutation \in [MutationKeys -> Decision \cup {None}]
  /\ page \in [Members -> [Objects -> [Issues -> Record]]]

ExceptionsInit ==
  /\ facts \in [Objects -> [version: {1}, issues: SUBSET Issues]]
  /\ day = 0
  /\ source = [o \in Objects |-> [version |-> 0, day |-> 0]]
  /\ exc = [o \in Objects |-> [k \in Issues |-> NoRecord]]
  /\ mutation = [x \in MutationKeys |-> None]
  /\ page = [m \in Members |-> exc]

-----------------------------------------------------------------------------
(* The business service.                                                    *)

(* A handler of the order raises its version; its issues may come and go. *)
Change(o) ==
  /\ facts[o].version < MaxSource
  /\ \E issues \in SUBSET Issues :
       facts' = [facts EXCEPT ![o] = [version |-> @.version + 1, issues |-> issues]]
  /\ UNCHANGED day

(* Midnight: a forecast moves, with it the risk of an order nobody touched. *)
NextDay ==
  /\ day < MaxDay
  /\ day' = day + 1
  /\ \E issues \in [Objects -> SUBSET Issues] :
       facts' = [o \in Objects |-> [facts[o] EXCEPT !.issues = issues[o]]]

(* What a listing of the orders says of one of them (patrol.ts:8-11). *)
Listing(o) == [version |-> facts[o].version, day |-> day, issues |-> facts[o].issues]

-----------------------------------------------------------------------------
(* reconcileExceptions.                                                     *)

Seen_StaysClosed(row, owner) ==
  IF row.status = "none"
    THEN [status |-> "open", clear |-> FALSE, version |-> 1, owner |-> owner]
    ELSE [row EXCEPT !.clear = FALSE, !.version = @ + 1]

(* The issue is there: a new record, or newer evidence, which opens a closed one. *)
Seen(row, owner) ==
  IF row.status = "none"
    THEN [status |-> "open", clear |-> FALSE, version |-> 1, owner |-> owner]
    ELSE [row EXCEPT !.clear = FALSE, !.version = @ + 1,
                     !.status = IF @ = "closed" THEN "open" ELSE @]

(* The issue is gone: the record waits for a person to finish it. *)
Cleared(row) ==
  IF row.status = "none" \/ row.clear
    THEN row
    ELSE [row EXCEPT !.clear = TRUE, !.version = @ + 1]

Reconciled(rows, issues, owner) ==
  [k \in Issues |-> IF k \in issues THEN Seen(rows[k], owner[k]) ELSE Cleared(rows[k])]

Skipped_Older(last, obs) == last.version > obs.version

Skipped_Version(last, obs) == last.version >= obs.version

(* An observation of an older version or an earlier day, or one that is known. *)
Skipped(last, obs) ==
  \/ last.version > obs.version
  \/ obs.day < last.day
  \/ last.version = obs.version /\ last.day = obs.day

(* The transaction: every listed order that is not skipped.  An issue carries the
   owner of its node. *)
ReconcileExceptions(list) ==
  LET taken == {o \in Objects : list[o] # None /\ ~Skipped(source[o], list[o])}
  IN  /\ source' = [o \in Objects |->
                      IF o \in taken
                        THEN [version |-> list[o].version, day |-> list[o].day]
                        ELSE source[o]]
      /\ \E owner \in [Issues -> Members] :
           exc' = [o \in Objects |->
                     IF o \in taken
                       THEN Reconciled(exc[o], list[o].issues, owner)
                       ELSE exc[o]]
      /\ UNCHANGED <<mutation, page>>

-----------------------------------------------------------------------------
(* listExceptions and transitionException.                                  *)

(* The list takes no lock: it is old as soon as anybody else writes. *)
ListExceptions(m) ==
  /\ page' = [page EXCEPT ![m] = exc]
  /\ UNCHANGED <<source, exc, mutation>>

(* r is a request: who asks, and the status and the owner asked for, if any. *)
Permitted(r, role, row) ==
  \/ role = "manager"
  \/ r.owner = None /\ r.actor = row.owner /\ r.status # "closed"

Allowed(status) ==
  CASE status = "open" -> {"in_progress", "resolved"}
    [] status = "in_progress" -> {"resolved"}
    [] status = "resolved" -> {"in_progress", "closed"}
    [] OTHER -> {}

(* INVALID_TRANSITION and SOURCE_NOT_CLEAR. *)
Legal(r, row) ==
  /\ row.status # "closed"
  /\ r.status # None => r.status \in Allowed(row.status)
  /\ r.status = "closed" => row.clear

(* A field that the request leaves out keeps its value. *)
Given(value, default) == IF value = None THEN default ELSE value

Moved(row, r) ==
  [row EXCEPT !.status = Given(r.status, @), !.owner = Given(r.owner, @),
              !.version = @ + 1]

Expected_Any(row, seen) == TRUE

(* expectedVersion is the version on the page the request was made from. *)
Expected(row, seen) == row.version = seen.version

(* The role was read before the lock was taken, so any role may be.  A key that was used
   before gets its old answer or a refusal, which changes nothing. *)
TransitionException(key, o, k, r, role) ==
  LET row == exc[o][k]
      seen == page[r.actor][o][k]
  IN  /\ mutation[key] = None
      /\ seen.version > 0
      /\ row.status # "none"
      /\ ~(r.status = None /\ r.owner = None)
      /\ Permitted(r, role, row)
      /\ Expected(row, seen)
      /\ Legal(r, row)
      /\ exc' = [exc EXCEPT ![o][k] = Moved(@, r)]
      /\ mutation' = [mutation EXCEPT ![key] = [actor |-> r.actor, object |-> o, issue |-> k]]
      /\ UNCHANGED <<source, page>>

Requests == [actor: Members, status: Statuses \cup {None}, owner: Members \cup {None}]

Transition ==
  \E key \in MutationKeys, o \in Objects, k \in Issues, r \in Requests, role \in Roles :
    TransitionException(key, o, k, r, role)

-----------------------------------------------------------------------------
(* Properties.                                                              *)

(* Where the exceptions know the order as it is today, they agree with it: evidence
   is outstanding for exactly the issues it has, whatever was listed late, listed in
   part or worked on meanwhile (exceptions.ts:21-25, patrol.ts:23). *)
EvidenceTrue ==
  \A o \in Objects :
    (source[o].version = facts[o].version /\ source[o].day = day) =>
      {k \in Issues : exc[o][k].status # "none" /\ ~exc[o][k].clear} = facts[o].issues

(* Nothing stays closed while the newest evidence says the issue is there: closing
   needs clear evidence, and new evidence reopens (exceptions.ts:23,36). *)
ClosedOnEvidence ==
  \A o \in Objects, k \in Issues : exc[o][k].status = "closed" => exc[o][k].clear

(* A person decides on the record they saw: a request that is accepted finds it as the
   page of its actor shows it, status, evidence and owner, whatever other people and
   late patrols did since the page was read (exceptions.ts:21-25,28,35-37). *)
DecidedAsSeen(before, after, records) ==
  \A x \in MutationKeys : before[x] = None /\ after[x] # None =>
    LET d == after[x] IN page[d.actor][d.object][d.issue] = records[d.object][d.issue]

(* What was reconciled is never replaced by an older observation (exceptions.ts:21). *)
SourceNeverGoesBack(before, after) ==
  \A o \in Objects : before[o].version <= after[o].version /\ before[o].day <= after[o].day
=============================================================================
