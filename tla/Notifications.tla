--------------------------- MODULE Notifications ---------------------------
(***************************************************************************)
(* The notification outbox (src/apps/zhixing-worker/notifications.ts) and  *)
(* the WeCom sender it drives (src/apps/zhixing-api/wecom-send.ts).        *)
(*                                                                         *)
(* A worker claims a row, calls WeCom and records the result.  A refusal   *)
(* is tried again; a call whose effect is not known is left to a person.   *)
(* The request may be delivered long after its sender stopped waiting, or  *)
(* died.                                                                   *)
(*                                                                         *)
(* Time is not modelled: a due row may be claimed at any moment.  The      *)
(* claim token is the claiming worker (see AnalysisJobs).                  *)
(***************************************************************************)
EXTENDS Integers, FiniteSets, WorkerProcess

CONSTANTS
  Notes  \* dedupe keys of notifications

VARIABLES
  note,      \* notification_outbox
  audit,     \* notification_audit: how many rows of each event
  run,       \* local variables of dispatchNotification in each process
  wire,      \* calls on their way to WeCom: <<note, attempt>>
  delivered  \* messages the recipient got: <<note, attempt>>

noteVars == <<note, audit, run, wire, delivered>>
vars == <<lock, life, stopped, note, audit, run, wire, delivered>>

MaxAttempts == 3
Results == {"sent", "failed", "unknown"}
Events == Results \cup {"claimed", "recovered_unknown"}

NoteRow == [status: {"none", "pending", "sending", "skipped"} \cup Results,
            attempts: 0..MaxAttempts, token: Workers \cup {None}]
RunRow == [pc: {"idle", "token", "waiting", "record"}, note: Notes \cup {None},
           attempt: 0..MaxAttempts, result: Results \cup {None}]
IdleRun == [pc |-> "idle", note |-> None, attempt |-> 0, result |-> None]

(* No result is told apart from every result. *)
ASSUME ResultAssumption == None \notin Results

TypeOK ==
  /\ ProcessTypeOK
  /\ note \in [Notes -> NoteRow]
  /\ audit \in [Notes -> [Events -> Nat]]
  /\ run \in [Workers -> RunRow]
  /\ \A w \in Workers : run[w].pc # "idle" => run[w].note \in Notes
  /\ wire \subseteq Notes \X (1..MaxAttempts)
  /\ delivered \subseteq Notes \X (1..MaxAttempts)

Init ==
  /\ ProcessInit
  /\ note = [n \in Notes |-> [status |-> "none", attempts |-> 0, token |-> None]]
  /\ audit = [n \in Notes |-> [e \in Events |-> 0]]
  /\ run = [w \in Workers |-> IdleRun]
  /\ wire = {}
  /\ delivered = {}

Logged(rows, event) == [rows EXCEPT ![event] = @ + 1]
Audited(n, event) == [audit EXCEPT ![n] = Logged(@, event)]

(* The claim ends with a result. *)
Closed(row, result) == [row EXCEPT !.status = result, !.token = None]

-----------------------------------------------------------------------------
(* The outbox's statements.                                                 *)

(* enqueueNotification: ON CONFLICT DO NOTHING; without exactly one recorded
   recipient the row is kept but never sent. *)
Enqueue(n) ==
  /\ note[n].status = "none"
  /\ \E status \in {"pending", "skipped"} : note' = [note EXCEPT ![n].status = status]
  /\ UNCHANGED <<processVars, audit, run, wire, delivered>>

Recovered_Retry == "pending"

(* What recoverNotifications makes of a row that was being sent. *)
Recovered == "unknown"

Recover(w) ==
  LET sending == {n \in Notes : note[n].status = "sending"}
  IN  /\ BeginLoops(w)
      /\ note' = [n \in Notes |->
                    IF n \in sending THEN Closed(note[n], Recovered) ELSE note[n]]
      /\ audit' = [n \in Notes |->
                     IF n \in sending THEN Logged(audit[n], "recovered_unknown") ELSE audit[n]]
      /\ UNCHANGED <<run, wire, delivered>>

Due_Pending(n) == note[n].status = "pending" /\ note[n].attempts < MaxAttempts

(* status IN ('pending','failed') AND attempts<3 *)
Due(n) == note[n].status \in {"pending", "failed"} /\ note[n].attempts < MaxAttempts

Claimed(row, w) == [status |-> "sending", attempts |-> row.attempts + 1, token |-> w]

TakeClaim(w, n) ==
  /\ life[w] = "up" /\ ~stopped[w]
  /\ run[w].pc = "idle"
  /\ Due(n)
  /\ note' = [note EXCEPT ![n] = Claimed(@, w)]
  /\ audit' = Audited(n, "claimed")
  /\ UNCHANGED <<processVars, wire, delivered>>

Claim(w, n) ==
  /\ TakeClaim(w, n)
  /\ run' = [run EXCEPT ![w] = [pc |-> "token", note |-> n, attempt |-> note[n].attempts + 1,
                                result |-> None]]

(* The claim commits but its answer is lost: the loop goes on without the row. *)
ClaimUnanswered(w, n) == TakeClaim(w, n) /\ UNCHANGED run

-----------------------------------------------------------------------------
(* sendText.                                                                *)

Result(w, r) == [run[w] EXCEPT !.pc = "record", !.result = r]
Call(w) == <<run[w].note, run[w].attempt>>

(* No access token, or a message that may not be sent: nothing was sent. *)
Refuse(w) ==
  /\ run[w].pc = "token"
  /\ run' = [run EXCEPT ![w] = Result(w, "failed")]
  /\ UNCHANGED <<processVars, note, audit, wire, delivered>>

Post(w) ==
  /\ run[w].pc = "token"
  /\ run' = [run EXCEPT ![w].pc = "waiting"]
  /\ wire' = wire \cup {Call(w)}
  /\ UNCHANGED <<processVars, note, audit, delivered>>

(* The answer reaches the caller if it still waits, or is lost. *)
Reply(c, r) ==
  \/ UNCHANGED run
  \/ \E w \in Workers : /\ run[w].pc = "waiting" /\ Call(w) = c
                        /\ run' = [run EXCEPT ![w] = Result(w, r)]

(* WeCom takes a call and delivers its message, or rejects it. *)
Deliver(c) ==
  /\ c \in wire
  /\ wire' = wire \ {c}
  /\ delivered' = delivered \cup {c}
  /\ Reply(c, "sent")
  /\ UNCHANGED <<processVars, note, audit>>

Reject(c) ==
  /\ c \in wire
  /\ wire' = wire \ {c}
  /\ Reply(c, "failed")
  /\ UNCHANGED <<processVars, note, audit, delivered>>

NoAnswer_Failed == "failed"

(* What sendText makes of a call without a readable answer. *)
NoAnswer == "unknown"

(* The connection breaks, the answer cannot be read, or its deadline passes. *)
Timeout(w) ==
  /\ run[w].pc = "waiting"
  /\ run' = [run EXCEPT ![w] = Result(w, NoAnswer)]
  /\ UNCHANGED <<processVars, note, audit, wire, delivered>>

Owned_Always(w) == TRUE

(* claim_token=$2 AND status='sending' *)
Owned(w) == note[run[w].note].status = "sending" /\ note[run[w].note].token = w

Record(w) ==
  LET n == run[w].note
  IN  /\ run[w].pc = "record"
      /\ IF Owned(w)
           THEN /\ note' = [note EXCEPT ![n] = Closed(@, run[w].result)]
                /\ audit' = Audited(n, run[w].result)
           ELSE UNCHANGED <<note, audit>>
      /\ run' = [run EXCEPT ![w] = IdleRun]
      /\ UNCHANGED <<processVars, wire, delivered>>

(* The statement throws: the row stays claimed, and the loop goes on. *)
RecordThrows(w) ==
  /\ run[w].pc = "record"
  /\ Owned(w)
  /\ run' = [run EXCEPT ![w] = IdleRun]
  /\ UNCHANGED <<processVars, note, audit, wire, delivered>>

-----------------------------------------------------------------------------
(* The process.                                                             *)

Signal(w) == Stop(w) /\ UNCHANGED noteVars

Leave(w) ==
  /\ run[w].pc = "idle"
  /\ Exit(w)
  /\ UNCHANGED noteVars

Crash(w) ==
  /\ ~(life[w] = "up" /\ stopped[w] /\ run[w].pc = "idle")
  /\ Die(w)
  /\ run' = [run EXCEPT ![w] = IdleRun]
  /\ UNCHANGED <<note, audit, wire, delivered>>

Fault ==
  \E w \in Workers :
    \/ RecordThrows(w) \/ Crash(w) \/ (LoseLock(w) /\ UNCHANGED noteVars)
    \/ \E n \in Notes : ClaimUnanswered(w, n)

Send(w) == Refuse(w) \/ Post(w) \/ Timeout(w)

Work(w) == Recover(w) \/ Send(w) \/ Record(w) \/ Leave(w)

Next ==
  \/ \E n \in Notes : Enqueue(n)
  \/ \E w \in Workers : (Start(w) /\ UNCHANGED noteVars) \/ Signal(w) \/ Work(w)
  \/ \E w \in Workers, n \in Notes : Claim(w, n)
  \/ \E c \in wire : Deliver(c) \/ Reject(c)
  \/ Fault

Spec == Init /\ [][Next]_vars

(* A process manager restarts the worker, a call has a deadline of five seconds,
   and rows are claimed in the order of their ids. *)
FairSpec ==
  /\ Spec
  /\ WF_vars(\E w \in Workers : Start(w) /\ UNCHANGED noteVars)
  /\ \A w \in Workers : WF_vars(Work(w))
  /\ \A n \in Notes : SF_vars(\E w \in Workers : Claim(w, n))

-----------------------------------------------------------------------------
(* Properties.                                                              *)

(* A person is told once: whatever crashes, times out or arrives late, no message
   is delivered a second time (notifications.ts:18-20, wecom-setup.md:32). *)
DeliveredOnce ==
  \A c, d \in delivered : c[1] = d[1] => c = d

(* What the outbox says of a message is so: "sent" was delivered, and one that is
   waiting, refused or skipped was not and no longer can be; only "unknown" leaves
   it open (wecom-setup.md:32). *)
StatusTellsTruth ==
  \A n \in Notes :
    /\ note[n].status = "sent" => \E c \in delivered : c[1] = n
    /\ note[n].status \in {"pending", "failed", "skipped"} =>
         \A c \in wire \cup delivered : c[1] # n

Concluded(rows) ==
  rows["sent"] + rows["failed"] + rows["unknown"] + rows["recovered_unknown"]

(* The audit records every attempt and the end of every attempt but the one under
   way, once each, also for attempts whose worker was fenced or died. *)
AuditBalanced ==
  \A n \in Notes :
    /\ audit[n]["claimed"] = note[n].attempts
    /\ Concluded(audit[n]) = note[n].attempts - (IF note[n].status = "sending" THEN 1 ELSE 0)

(* A claim whose call has ended, or whose process is gone. *)
Orphan(n) ==
  /\ note[n].status = "sending"
  /\ ~\E w \in Workers : note[n].token = w /\ run[w].pc # "idle" /\ run[w].note = n

Settled(n) ==
  \/ note[n].status \in {"sent", "unknown", "skipped"}
  \/ note[n].status = "failed" /\ note[n].attempts = MaxAttempts

(* Once faults stop, every notification is sent, known to be undecided, or refused
   three times; one that a fault left in "sending" needs a restart for that. *)
NotesSettle ==
  (/\ <>[][~Fault]_vars
   /\ \/ <>[](\A n \in Notes : ~Orphan(n))
      \/ []<><<\E w \in Workers : Recover(w)>>_vars)
  => \A n \in Notes : note[n].status # "none" ~> Settled(n)
=============================================================================
