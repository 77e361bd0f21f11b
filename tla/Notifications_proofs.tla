----------------------- MODULE Notifications_proofs -----------------------
(***************************************************************************)
(* Proofs about the notification outbox, for every number of notifications *)
(* and of overlapping workers.                                             *)
(***************************************************************************)
EXTENDS Notifications, TLAPS

-----------------------------------------------------------------------------
(* The parts of the inductive invariant.                                    *)

Calls == wire \cup delivered

Active(w, n) == run[w].pc # "idle" /\ run[w].note = n

(* What was never claimed, or was refused, is in nobody's hands. *)
Untouched ==
  \A n \in Notes : note[n].status \in {"none", "pending", "failed", "skipped"} =>
    /\ \A w \in Workers : ~Active(w, n)
    /\ \A c \in Calls : c[1] # n

(* A notification is in the hands of one worker, even after that worker lost it. *)
OneWorker ==
  \A v, w \in Workers : run[v].pc # "idle" /\ run[w].pc # "idle" /\ run[v].note = run[w].note
                          => v = w

(* One call of a notification was ever posted without being rejected. *)
OneCall ==
  /\ \A c, d \in Calls : c[1] = d[1] => c = d
  /\ wire \cap delivered = {}

(* What a worker knows of the call it made. *)
Knowledge ==
  \A w \in Workers :
    /\ run[w].pc # "idle" => run[w].attempt >= 1
    /\ run[w].pc = "token" => \A c \in Calls : c[1] # run[w].note
    /\ run[w].pc \in {"waiting", "record"} => \A c \in Calls : c[1] = run[w].note => c = Call(w)
    /\ run[w].pc = "record" =>
         /\ run[w].result \in Results
         /\ run[w].result = "failed" => \A c \in Calls : c[1] # run[w].note
         /\ run[w].result = "sent" => Call(w) \in delivered

SentDelivered == \A n \in Notes : note[n].status = "sent" => \E c \in delivered : c[1] = n

IInv ==
  TypeOK /\ Untouched /\ OneWorker /\ OneCall /\ Knowledge /\ SentDelivered /\ AuditBalanced

-----------------------------------------------------------------------------
LEMMA InitIInv == Init => IInv
<1> SUFFICES ASSUME Init PROVE IInv
  OBVIOUS
<1> USE DEF Init, IdleRun
<1>1. TypeOK
  BY WorkersAssumption DEF TypeOK, ProcessTypeOK, ProcessInit, Lives, NoteRow, RunRow, Events, MaxAttempts
<1>2. Untouched /\ OneWorker /\ OneCall /\ Knowledge /\ SentDelivered
  BY DEF Untouched, Active, OneWorker, OneCall, Knowledge, SentDelivered, Calls
<1>3. AuditBalanced
  BY DEF AuditBalanced, Events, Results, Concluded
<1> QED BY <1>1, <1>2, <1>3 DEF IInv

(* The process's own steps keep its variables typed. *)
LEMMA ProcessTyped ==
  ASSUME ProcessTypeOK, NEW w \in Workers,
         Start(w) \/ BeginLoops(w) \/ LoseLock(w) \/ Stop(w) \/ Exit(w) \/ Die(w)
  PROVE  ProcessTypeOK'
  BY DEF ProcessTypeOK, Start, BeginLoops, LoseLock, Stop, Exit, Die, End, Lives

(* One more audit row of an attempt's end, or of its beginning. *)
LEMMA AuditEnd ==
  ASSUME NEW rows \in [Events -> Nat], NEW e \in Events, e # "claimed"
  PROVE  /\ Logged(rows, e) \in [Events -> Nat]
         /\ Logged(rows, e)["claimed"] = rows["claimed"]
         /\ Concluded(Logged(rows, e)) = Concluded(rows) + 1
  BY DEF Events, Results, Concluded, Logged

LEMMA AuditBegin ==
  ASSUME NEW rows \in [Events -> Nat]
  PROVE  /\ Logged(rows, "claimed") \in [Events -> Nat]
         /\ Logged(rows, "claimed")["claimed"] = rows["claimed"] + 1
         /\ Concluded(Logged(rows, "claimed")) = Concluded(rows)
  BY DEF Events, Results, Concluded, Logged

LEMMA RowClosed ==
  ASSUME NEW row \in NoteRow, NEW result \in Results
  PROVE  /\ Closed(row, result) \in NoteRow
         /\ Closed(row, result).status = result
         /\ Closed(row, result).attempts = row.attempts
  BY DEF NoteRow, Closed

LEMMA RowClaimed ==
  ASSUME NEW row \in NoteRow, NEW w \in Workers, row.attempts < MaxAttempts
  PROVE  /\ Claimed(row, w) \in NoteRow
         /\ Claimed(row, w).status = "sending"
         /\ Claimed(row, w).attempts = row.attempts + 1
  BY DEF NoteRow, Claimed, MaxAttempts

(* A step that leaves notifications, calls and runs alone. *)
LEMMA ProcessSafe ==
  ASSUME IInv, ProcessTypeOK', UNCHANGED noteVars
  PROVE  IInv'
  BY DEF IInv, noteVars, TypeOK, Untouched, Active, OneWorker, OneCall, Knowledge, SentDelivered,
         AuditBalanced, Calls, Call

LEMMA EnqueueSafe ==
  ASSUME IInv, NEW n \in Notes, Enqueue(n)
  PROVE  IInv'
<1> USE DEF IInv, Enqueue, processVars
<1>1. PICK status \in {"pending", "skipped"} : note' = [note EXCEPT ![n].status = status]
  OBVIOUS
<1>2. note \in [Notes -> NoteRow]
  BY DEF TypeOK
<1>3. /\ note'[n].status = status /\ note'[n].attempts = note[n].attempts
      /\ note'[n] \in NoteRow
      /\ \A m \in Notes \ {n} : note'[m] = note[m]
  BY <1>1, <1>2 DEF NoteRow
<1>4. TypeOK'
  BY <1>1, <1>2, <1>3 DEF TypeOK, ProcessTypeOK
<1>5. Untouched' /\ OneWorker' /\ OneCall' /\ Knowledge' /\ SentDelivered'
  BY <1>3 DEF Untouched, Active, OneWorker, OneCall, Knowledge, SentDelivered, Calls, Call
<1>6. AuditBalanced'
  BY <1>3 DEF AuditBalanced
<1> QED BY <1>4, <1>5, <1>6

LEMMA RecoverSafe ==
  ASSUME IInv, NEW w \in Workers, Recover(w)
  PROVE  IInv'
<1>1. /\ note \in [Notes -> NoteRow] /\ audit \in [Notes -> [Events -> Nat]]
      /\ UNCHANGED <<run, wire, delivered>>
  BY DEF IInv, TypeOK, Recover
<1>2. ASSUME NEW n \in Notes, note[n].status = "sending"
      PROVE  /\ note'[n] = Closed(note[n], "unknown")
             /\ audit'[n] = Logged(audit[n], "recovered_unknown")
  BY <1>2 DEF Recover, Recovered
<1>3. ASSUME NEW n \in Notes, note[n].status = "sending"
      PROVE  /\ note'[n] \in NoteRow /\ note'[n].status = "unknown"
             /\ note'[n].attempts = note[n].attempts
             /\ audit'[n] \in [Events -> Nat] /\ audit'[n]["claimed"] = audit[n]["claimed"]
             /\ Concluded(audit'[n]) = Concluded(audit[n]) + 1
  <2>1. "unknown" \in Results /\ "recovered_unknown" \in Events
    BY DEF Results, Events
  <2>2. note[n] \in NoteRow /\ audit[n] \in [Events -> Nat]
    BY <1>1
  <2>3. /\ Closed(note[n], "unknown") \in NoteRow /\ Closed(note[n], "unknown").status = "unknown"
        /\ Closed(note[n], "unknown").attempts = note[n].attempts
    BY <2>1, <2>2, RowClosed
  <2>4. /\ Logged(audit[n], "recovered_unknown") \in [Events -> Nat]
        /\ Logged(audit[n], "recovered_unknown")["claimed"] = audit[n]["claimed"]
        /\ Concluded(Logged(audit[n], "recovered_unknown")) = Concluded(audit[n]) + 1
    BY <2>1, <2>2, AuditEnd
  <2> QED BY <1>2, <1>3, <2>3, <2>4
<1>4. ASSUME NEW n \in Notes, note[n].status # "sending"
      PROVE  note'[n] = note[n] /\ audit'[n] = audit[n]
  BY <1>1, <1>4 DEF Recover
<1>5. TypeOK'
  <2>1. ProcessTypeOK'
    BY ProcessTyped DEF TypeOK, IInv, Recover
  <2>2. note' \in [Notes -> NoteRow] /\ audit' \in [Notes -> [Events -> Nat]]
    <3>1. DOMAIN note' = Notes /\ note' = [n \in Notes |-> note'[n]]
      BY DEF Recover
    <3>2. DOMAIN audit' = Notes /\ audit' = [n \in Notes |-> audit'[n]]
      BY DEF Recover
    <3>3. \A n \in Notes : note'[n] \in NoteRow /\ audit'[n] \in [Events -> Nat]
      BY <1>1, <1>3, <1>4
    <3> QED BY <3>1, <3>2, <3>3
  <2> QED BY <1>1, <2>1, <2>2 DEF TypeOK, IInv
<1>6. Untouched' /\ OneWorker' /\ OneCall' /\ Knowledge' /\ SentDelivered'
  <2>1. \A n \in Notes : note'[n].status = note[n].status \/ note'[n].status = "unknown"
    BY <1>3, <1>4
  <2> QED BY <1>1, <2>1 DEF IInv, Untouched, Active, OneWorker, OneCall, Knowledge, SentDelivered,
                            Calls, Call
<1>7. AuditBalanced'
  <2>1. ASSUME NEW n \in Notes
        PROVE  /\ audit'[n]["claimed"] = note'[n].attempts
               /\ Concluded(audit'[n])
                    = note'[n].attempts - (IF note'[n].status = "sending" THEN 1 ELSE 0)
    <3>1. /\ audit[n]["claimed"] = note[n].attempts /\ note[n].attempts \in Nat
          /\ Concluded(audit[n])
               = note[n].attempts - (IF note[n].status = "sending" THEN 1 ELSE 0)
      BY <1>1 DEF IInv, AuditBalanced, NoteRow, MaxAttempts
    <3>2. CASE note[n].status = "sending"
      BY <1>3, <3>1, <3>2
    <3>3. CASE note[n].status # "sending"
      BY <1>4, <3>1, <3>3
    <3> QED BY <3>2, <3>3
  <2> QED BY <2>1 DEF AuditBalanced, Concluded
<1> QED BY <1>5, <1>6, <1>7 DEF IInv

-----------------------------------------------------------------------------
(* Claims and records.                                                      *)

(* A claim changes one row, which nobody held. *)
LEMMA TakeClaimFacts ==
  ASSUME IInv, NEW w \in Workers, NEW n \in Notes, TakeClaim(w, n)
  PROVE  /\ note' \in [Notes -> NoteRow] /\ audit' \in [Notes -> [Events -> Nat]]
         /\ note'[n].status = "sending" /\ note'[n].attempts = note[n].attempts + 1
         /\ note[n].attempts + 1 \in 1..MaxAttempts
         /\ \A m \in Notes \ {n} : note'[m] = note[m]
         /\ AuditBalanced'
         /\ run[w].pc = "idle"
         /\ \A v \in Workers : ~Active(v, n)
         /\ \A c \in Calls : c[1] # n
<1>1. note \in [Notes -> NoteRow] /\ audit \in [Notes -> [Events -> Nat]]
  BY DEF IInv, TypeOK
<1>2. note[n].attempts \in Nat /\ note[n].attempts < MaxAttempts /\ note[n].status # "sending"
  BY <1>1 DEF TakeClaim, Due, NoteRow, MaxAttempts
<1>3. /\ note'[n] = Claimed(note[n], w)
      /\ \A m \in Notes \ {n} : note'[m] = note[m]
      /\ DOMAIN note' = Notes /\ note' = [m \in Notes |-> note'[m]]
  BY <1>1 DEF TakeClaim
<1>4. /\ note'[n] \in NoteRow /\ note'[n].status = "sending"
      /\ note'[n].attempts = note[n].attempts + 1
  <2>1. note[n] \in NoteRow
    BY <1>1
  <2> QED BY <1>2, <1>3, <2>1, RowClaimed
<1>5. /\ audit'[n] = Logged(audit[n], "claimed")
      /\ \A m \in Notes \ {n} : audit'[m] = audit[m]
      /\ audit' = [m \in Notes |-> audit'[m]]
  BY <1>1 DEF TakeClaim, Audited
<1>6. /\ audit'[n] \in [Events -> Nat] /\ audit'[n]["claimed"] = audit[n]["claimed"] + 1
      /\ Concluded(audit'[n]) = Concluded(audit[n])
  <2>1. audit[n] \in [Events -> Nat]
    BY <1>1
  <2> QED BY <1>5, <2>1, AuditBegin
<1>7. note' \in [Notes -> NoteRow] /\ audit' \in [Notes -> [Events -> Nat]]
  <2>1. \A m \in Notes : note'[m] \in NoteRow /\ audit'[m] \in [Events -> Nat]
    BY <1>1, <1>3, <1>4, <1>5, <1>6
  <2> QED BY <1>3, <1>5, <2>1
<1>8. AuditBalanced'
  <2>1. ASSUME NEW m \in Notes
        PROVE  /\ audit'[m]["claimed"] = note'[m].attempts
               /\ Concluded(audit'[m])
                    = note'[m].attempts - (IF note'[m].status = "sending" THEN 1 ELSE 0)
    <3>1. /\ audit[m]["claimed"] = note[m].attempts
          /\ Concluded(audit[m])
               = note[m].attempts - (IF note[m].status = "sending" THEN 1 ELSE 0)
      BY DEF IInv, AuditBalanced
    <3>2. CASE m = n
      BY <1>2, <1>4, <1>6, <3>1, <3>2
    <3>3. CASE m # n
      BY <1>3, <1>5, <3>1, <3>3
    <3> QED BY <3>2, <3>3
  <2> QED BY <2>1 DEF AuditBalanced, Concluded
<1>9. note[n].status \in {"pending", "failed"} /\ run[w].pc = "idle"
  BY DEF TakeClaim, Due
<1>10. \A v \in Workers : ~Active(v, n)
  BY <1>9 DEF IInv, Untouched
<1>11. \A c \in Calls : c[1] # n
  BY <1>9 DEF IInv, Untouched
<1>12. note[n].attempts + 1 \in 1..MaxAttempts
  BY <1>2 DEF MaxAttempts
<1> QED BY <1>3, <1>4, <1>7, <1>8, <1>9, <1>10, <1>11, <1>12

LEMMA ClaimSafe ==
  ASSUME IInv, NEW w \in Workers, NEW n \in Notes, Claim(w, n) \/ ClaimUnanswered(w, n)
  PROVE  IInv'
<1>1. TakeClaim(w, n)
  BY DEF Claim, ClaimUnanswered
<1>2. /\ note' \in [Notes -> NoteRow] /\ audit' \in [Notes -> [Events -> Nat]]
      /\ note'[n].status = "sending"
      /\ note[n].attempts + 1 \in 1..MaxAttempts
      /\ \A m \in Notes \ {n} : note'[m] = note[m]
      /\ AuditBalanced'
      /\ run[w].pc = "idle"
      /\ \A v \in Workers : ~Active(v, n)
      /\ \A c \in Calls : c[1] # n
  BY <1>1, TakeClaimFacts
<1>3. UNCHANGED <<lock, life, stopped, wire, delivered>> /\ run \in [Workers -> RunRow]
  BY <1>1 DEF TakeClaim, processVars, IInv, TypeOK
<1>4. SentDelivered'
  BY <1>2, <1>3 DEF IInv, SentDelivered
<1>5. ASSUME NEW v \in Workers, run'[v].pc # "idle"
      PROVE  \/ run'[v] = run[v]
             \/ /\ v = w /\ run'[v].pc = "token" /\ run'[v].note = n
                /\ run'[v].attempt = note[n].attempts + 1
  BY <1>3, <1>5 DEF Claim, ClaimUnanswered
<1>6. run' \in [Workers -> RunRow]
  <2>1. CASE UNCHANGED run
    BY <1>3, <2>1
  <2>2. CASE Claim(w, n)
    BY <1>2, <1>3, <2>2 DEF Claim, RunRow, MaxAttempts
  <2> QED BY <2>1, <2>2 DEF ClaimUnanswered
<1>7. TypeOK'
  BY <1>2, <1>3, <1>5, <1>6 DEF IInv, TypeOK, ProcessTypeOK
<1>8. Untouched'
  BY <1>2, <1>3, <1>5 DEF IInv, Untouched, Active, Calls
<1>9. OneWorker'
  BY <1>2, <1>5 DEF IInv, OneWorker, Active
<1>10. OneCall'
  BY <1>3 DEF IInv, OneCall, Calls
<1>11. Knowledge'
  <2>1. ASSUME NEW v \in Workers
        PROVE  /\ run'[v].pc # "idle" => run'[v].attempt >= 1
               /\ run'[v].pc = "token" => \A c \in Calls : c[1] # run'[v].note
               /\ run'[v].pc \in {"waiting", "record"} => run'[v] = run[v]
    BY <1>2, <1>5 DEF IInv, Knowledge, MaxAttempts
  <2> QED BY <1>3, <2>1 DEF IInv, Knowledge, Calls, Call
<1> QED BY <1>2, <1>4, <1>7, <1>8, <1>9, <1>10, <1>11 DEF IInv

(* A run ends and nothing happens to the calls. *)
LEMMA RunEnded ==
  ASSUME IInv, NEW w \in Workers, run' \in [Workers -> RunRow], run'[w].pc = "idle",
         \A v \in Workers \ {w} : run'[v] = run[v], UNCHANGED <<wire, delivered>>
  PROVE  OneWorker' /\ OneCall' /\ Knowledge'
<1>1. \A v \in Workers : run'[v].pc # "idle" => run'[v] = run[v]
  OBVIOUS
<1>2. OneWorker'
  BY <1>1 DEF IInv, OneWorker
<1>3. OneCall'
  BY DEF IInv, OneCall, Calls
<1>4. Knowledge'
  <2>1. ASSUME NEW v \in Workers
        PROVE  run'[v].pc = "idle" \/ (run'[v] = run[v] /\ Call(v)' = Call(v))
    BY <1>1 DEF Call
  <2> QED BY <2>1 DEF IInv, Knowledge, Calls
<1> QED BY <1>2, <1>3, <1>4

LEMMA StillUntouched ==
  ASSUME IInv, UNCHANGED <<note, wire, delivered>>,
         \A v \in Workers : run'[v].pc # "idle" => run[v].pc # "idle" /\ run'[v].note = run[v].note
  PROVE  Untouched' /\ SentDelivered' /\ (UNCHANGED audit => AuditBalanced')
  BY DEF IInv, Untouched, Active, SentDelivered, AuditBalanced, Concluded, Calls

LEMMA RecordSafe ==
  ASSUME IInv, NEW w \in Workers, Record(w)
  PROVE  IInv'
<1> DEFINE n == run[w].note
           r == run[w].result
<1>1. /\ note \in [Notes -> NoteRow] /\ audit \in [Notes -> [Events -> Nat]]
      /\ run \in [Workers -> RunRow] /\ n \in Notes /\ r \in Results
      /\ run[w].pc = "record"
      /\ UNCHANGED <<lock, life, stopped, wire, delivered>>
  BY DEF IInv, TypeOK, Record, processVars, Knowledge
<1>2. /\ run' \in [Workers -> RunRow] /\ run'[w].pc = "idle"
      /\ \A v \in Workers \ {w} : run'[v] = run[v]
  BY <1>1 DEF Record, IdleRun, RunRow, MaxAttempts
<1>3. CASE ~Owned(w)
  <2>1. UNCHANGED <<note, audit>>
    BY <1>3 DEF Record
  <2>2. TypeOK'
    BY <1>1, <1>2, <2>1 DEF IInv, TypeOK, ProcessTypeOK
  <2>3. Untouched' /\ SentDelivered' /\ AuditBalanced'
    BY <1>1, <1>2, <2>1, StillUntouched
  <2> QED BY <1>1, <1>2, <2>2, <2>3, RunEnded DEF IInv
<1>4. CASE Owned(w)
  <2>1. /\ note'[n] = Closed(note[n], r) /\ audit'[n] = Logged(audit[n], r)
        /\ \A m \in Notes \ {n} : note'[m] = note[m] /\ audit'[m] = audit[m]
        /\ note' = [m \in Notes |-> note'[m]] /\ audit' = [m \in Notes |-> audit'[m]]
    BY <1>1, <1>4 DEF Record, Audited
  <2>2. /\ note'[n] \in NoteRow /\ note'[n].status = r /\ note'[n].attempts = note[n].attempts
    <3>1. note[n] \in NoteRow /\ r \in Results
      BY <1>1
    <3> HIDE DEF n, r
    <3> QED BY <2>1, <3>1, RowClosed
  <2>3. /\ audit'[n] \in [Events -> Nat] /\ audit'[n]["claimed"] = audit[n]["claimed"]
        /\ Concluded(audit'[n]) = Concluded(audit[n]) + 1
    <3>1. audit[n] \in [Events -> Nat]
      BY <1>1
    <3>2. r \in Events /\ r # "claimed"
      BY <1>1 DEF Events, Results
    <3> HIDE DEF n, r
    <3> QED BY <2>1, <3>1, <3>2, AuditEnd
  <2>4. TypeOK'
    <3>1. \A m \in Notes : note'[m] \in NoteRow /\ audit'[m] \in [Events -> Nat]
      BY <1>1, <2>1, <2>2, <2>3
    <3>2. note' \in [Notes -> NoteRow] /\ audit' \in [Notes -> [Events -> Nat]]
      BY <2>1, <3>1
    <3> QED BY <1>1, <1>2, <3>2 DEF IInv, TypeOK, ProcessTypeOK
  <2>5. AuditBalanced'
    <3>1. ASSUME NEW m \in Notes
          PROVE  /\ audit'[m]["claimed"] = note'[m].attempts
                 /\ Concluded(audit'[m])
                      = note'[m].attempts - (IF note'[m].status = "sending" THEN 1 ELSE 0)
      <4>1. /\ audit[m]["claimed"] = note[m].attempts /\ note[m].attempts \in Nat
            /\ Concluded(audit[m])
                 = note[m].attempts - (IF note[m].status = "sending" THEN 1 ELSE 0)
        BY <1>1 DEF IInv, AuditBalanced, NoteRow, MaxAttempts
      <4>2. CASE m = n
        <5>1. note[n].status = "sending" /\ note'[n].status # "sending"
          BY <1>1, <1>4, <2>2 DEF Owned, Results
        <5> HIDE DEF n
        <5> QED BY <2>2, <2>3, <4>1, <4>2, <5>1
      <4>3. CASE m # n
        BY <2>1, <4>1, <4>3
      <4> QED BY <4>2, <4>3
    <3> QED BY <3>1 DEF AuditBalanced, Concluded
  <2>6. Untouched'
    <3>1. \A v \in Workers : ~(run'[v].pc # "idle" /\ run'[v].note = n)
      BY <1>1, <1>2 DEF IInv, OneWorker
    <3>2. r = "failed" => \A c \in Calls : c[1] # n
      BY <1>1 DEF IInv, Knowledge
    <3>3. r \in {"none", "pending", "failed", "skipped"} => r = "failed"
      BY <1>1 DEF Results
    <3>4. ASSUME NEW m \in Notes,
                 note'[m].status \in {"none", "pending", "failed", "skipped"}
          PROVE  /\ \A v \in Workers : ~(run'[v].pc # "idle" /\ run'[v].note = m)
                 /\ \A c \in Calls : c[1] # m
      <4>1. CASE m = n
        BY <2>2, <3>1, <3>2, <3>3, <3>4, <4>1
      <4>2. CASE m # n
        <5>1. /\ \A v \in Workers : ~(run[v].pc # "idle" /\ run[v].note = m)
              /\ \A c \in Calls : c[1] # m
          BY <2>1, <3>4, <4>2 DEF IInv, Untouched, Active
        <5> QED BY <1>2, <5>1
      <4> QED BY <4>1, <4>2
    <3> QED BY <1>1, <3>4 DEF Untouched, Active, Calls
  <2>7. OneWorker' /\ OneCall' /\ Knowledge'
    BY <1>1, <1>2, RunEnded
  <2>8. SentDelivered'
    <3>1. r = "sent" => Call(w) \in delivered /\ Call(w)[1] = n
      BY <1>1 DEF IInv, Knowledge, Call
    <3> QED BY <1>1, <2>1, <2>2, <3>1 DEF IInv, SentDelivered
  <2> QED BY <2>4, <2>5, <2>6, <2>7, <2>8 DEF IInv
<1> QED BY <1>3, <1>4

-----------------------------------------------------------------------------
(* Runs, calls and the process.                                             *)

(* A step of one run that leaves the outbox alone. *)
LEMMA RunTyped ==
  ASSUME IInv, NEW w \in Workers, UNCHANGED <<lock, life, stopped, note, audit>>,
         run[w].pc # "idle", run'[w] \in RunRow, run'[w].note = run[w].note,
         run' = [run EXCEPT ![w] = run'[w]],
         wire' \cup delivered' \subseteq Calls \cup {Call(w)}
  PROVE  TypeOK' /\ OneWorker'
<1>1. /\ run \in [Workers -> RunRow] /\ run[w].note \in Notes
      /\ Calls \subseteq Notes \X (1..MaxAttempts)
  BY DEF IInv, TypeOK, Calls
<1>2. Call(w) \in Notes \X (1..MaxAttempts)
  <2>1. run[w].attempt \in 1..MaxAttempts
    BY <1>1 DEF IInv, Knowledge, RunRow, MaxAttempts
  <2> QED BY <1>1, <2>1 DEF Call
<1>3. /\ run' \in [Workers -> RunRow]
      /\ \A v \in Workers : run'[v].pc # "idle" => run[v].pc # "idle" /\ run'[v].note = run[v].note
  BY <1>1
<1>4. TypeOK'
  BY <1>1, <1>2, <1>3 DEF IInv, TypeOK, ProcessTypeOK
<1>5. OneWorker'
  BY <1>3 DEF IInv, OneWorker
<1> QED BY <1>4, <1>5

LEMMA RefuseSafe ==
  ASSUME IInv, NEW w \in Workers, Refuse(w)
  PROVE  IInv'
<1>1. /\ run \in [Workers -> RunRow] /\ run[w].pc = "token"
      /\ run' = [run EXCEPT ![w] = Result(w, "failed")]
      /\ UNCHANGED <<lock, life, stopped, note, audit, wire, delivered>>
  BY DEF IInv, TypeOK, Refuse, processVars
<1>2. /\ run'[w] \in RunRow /\ run'[w].pc = "record" /\ run'[w].result = "failed"
      /\ run'[w].note = run[w].note /\ run'[w].attempt = run[w].attempt
      /\ run' = [run EXCEPT ![w] = run'[w]]
      /\ \A v \in Workers \ {w} : run'[v] = run[v]
  <2>1. run[w] \in RunRow /\ run'[w] = [run[w] EXCEPT !.pc = "record", !.result = "failed"]
    BY <1>1 DEF Result
  <2> QED BY <1>1, <2>1 DEF RunRow, Results
<1>3. TypeOK' /\ OneWorker'
  BY <1>1, <1>2, RunTyped DEF Calls
<1>4. Untouched' /\ SentDelivered' /\ AuditBalanced'
  BY <1>1, <1>2, StillUntouched
<1>5. OneCall'
  BY <1>1 DEF IInv, OneCall, Calls
<1>6. Knowledge'
  BY <1>1, <1>2 DEF IInv, Knowledge, Calls, Call, Results
<1> QED BY <1>3, <1>4, <1>5, <1>6 DEF IInv

LEMMA TimeoutSafe ==
  ASSUME IInv, NEW w \in Workers, Timeout(w)
  PROVE  IInv'
<1>1. /\ run \in [Workers -> RunRow] /\ run[w].pc = "waiting"
      /\ run' = [run EXCEPT ![w] = Result(w, "unknown")]
      /\ UNCHANGED <<lock, life, stopped, note, audit, wire, delivered>>
  BY DEF IInv, TypeOK, Timeout, NoAnswer, processVars
<1>2. /\ run'[w] \in RunRow /\ run'[w].pc = "record" /\ run'[w].result = "unknown"
      /\ run'[w].note = run[w].note /\ run'[w].attempt = run[w].attempt
      /\ run' = [run EXCEPT ![w] = run'[w]]
      /\ \A v \in Workers \ {w} : run'[v] = run[v]
  <2>1. run[w] \in RunRow /\ run'[w] = [run[w] EXCEPT !.pc = "record", !.result = "unknown"]
    BY <1>1 DEF Result
  <2> QED BY <1>1, <2>1 DEF RunRow, Results
<1>3. TypeOK' /\ OneWorker'
  BY <1>1, <1>2, RunTyped DEF Calls
<1>4. Untouched' /\ SentDelivered' /\ AuditBalanced'
  BY <1>1, <1>2, StillUntouched
<1>5. OneCall'
  BY <1>1 DEF IInv, OneCall, Calls
<1>6. Knowledge'
  BY <1>1, <1>2 DEF IInv, Knowledge, Calls, Call, Results
<1> QED BY <1>3, <1>4, <1>5, <1>6 DEF IInv

LEMMA PostSafe ==
  ASSUME IInv, NEW w \in Workers, Post(w)
  PROVE  IInv'
<1>1. /\ run \in [Workers -> RunRow] /\ run[w].pc = "token"
      /\ run' = [run EXCEPT ![w].pc = "waiting"]
      /\ wire' = wire \cup {Call(w)} /\ UNCHANGED delivered
      /\ UNCHANGED <<lock, life, stopped, note, audit>>
  BY DEF IInv, TypeOK, Post, processVars
<1>2. /\ run'[w] \in RunRow /\ run'[w].pc = "waiting"
      /\ run'[w].note = run[w].note /\ run'[w].attempt = run[w].attempt
      /\ run' = [run EXCEPT ![w] = run'[w]]
      /\ \A v \in Workers \ {w} : run'[v] = run[v]
  <2>1. run[w] \in RunRow /\ run'[w] = [run[w] EXCEPT !.pc = "waiting"]
    BY <1>1
  <2> QED BY <1>1, <2>1 DEF RunRow
<1>3. TypeOK' /\ OneWorker'
  BY <1>1, <1>2, RunTyped DEF Calls
<1>4. /\ wire' \cup delivered' = Calls \cup {Call(w)}
      /\ Call(w)[1] = run[w].note
      /\ \A c \in Calls : c[1] # run[w].note
  BY <1>1 DEF IInv, Knowledge, Calls, Call
<1>5. \A v \in Workers : run[v].pc # "idle" /\ run[v].note = run[w].note => v = w
  BY <1>1 DEF IInv, OneWorker
<1>6. OneCall'
  BY <1>1, <1>4 DEF IInv, OneCall, Calls
<1>7. Untouched'
  <2>1. ASSUME NEW m \in Notes, note[m].status \in {"none", "pending", "failed", "skipped"}
        PROVE  /\ \A v \in Workers : ~(run'[v].pc # "idle" /\ run'[v].note = m)
               /\ \A c \in wire' \cup delivered' : c[1] # m
    <3>1. /\ \A v \in Workers : ~(run[v].pc # "idle" /\ run[v].note = m)
          /\ \A c \in Calls : c[1] # m
      BY <2>1 DEF IInv, Untouched, Active
    <3> QED BY <1>1, <1>2, <1>4, <3>1
  <2> QED BY <1>1, <2>1 DEF Untouched, Active, Calls
<1>8. Knowledge'
  <2>1. ASSUME NEW v \in Workers, v # w
        PROVE  /\ run'[v] = run[v] /\ Call(v)' = Call(v)
               /\ run[v].pc # "idle" => Call(w)[1] # run[v].note
    BY <1>2, <1>4, <1>5, <2>1 DEF Call
  <2>2. Call(w)' = Call(w)
    BY <1>2 DEF Call
  <2>3. ASSUME NEW v \in Workers, NEW c \in wire' \cup delivered', v # w,
               run[v].pc # "idle", c[1] = run[v].note
        PROVE  c \in Calls
    BY <1>4, <2>1, <2>3
  <2>4. ASSUME NEW c \in wire' \cup delivered', c[1] = run[w].note
        PROVE  c = Call(w)
    BY <1>4, <2>4
  <2> QED BY <1>1, <1>2, <2>1, <2>2, <2>3, <2>4 DEF IInv, Knowledge, Calls
<1>9. SentDelivered' /\ AuditBalanced'
  BY <1>1 DEF IInv, SentDelivered, AuditBalanced, Concluded
<1> QED BY <1>3, <1>6, <1>7, <1>8, <1>9 DEF IInv

(* What a reply does to the runs: nothing, or it ends the wait for this call. *)
LEMMA ReplyFacts ==
  ASSUME IInv, NEW c, NEW r \in Results, Reply(c, r)
  PROVE  /\ run' \in [Workers -> RunRow]
         /\ \A w \in Workers :
              \/ run'[w] = run[w]
              \/ /\ run[w].pc = "waiting" /\ Call(w) = c
                 /\ run'[w].pc = "record" /\ run'[w].result = r
                 /\ run'[w].note = run[w].note /\ run'[w].attempt = run[w].attempt
<1>1. run \in [Workers -> RunRow]
  BY DEF IInv, TypeOK
<1>2. CASE UNCHANGED run
  BY <1>1, <1>2
<1>3. ASSUME NEW v \in Workers, run[v].pc = "waiting", Call(v) = c,
             run' = [run EXCEPT ![v] = Result(v, r)]
      PROVE  /\ run' \in [Workers -> RunRow]
             /\ run'[v].pc = "record" /\ run'[v].result = r
             /\ run'[v].note = run[v].note /\ run'[v].attempt = run[v].attempt
             /\ \A w \in Workers \ {v} : run'[w] = run[w]
  <2>1. run[v] \in RunRow /\ run'[v] = [run[v] EXCEPT !.pc = "record", !.result = r]
    BY <1>1, <1>3 DEF Result
  <2>2. /\ run'[v] \in RunRow /\ run'[v].pc = "record" /\ run'[v].result = r
        /\ run'[v].note = run[v].note /\ run'[v].attempt = run[v].attempt
    BY <2>1 DEF RunRow
  <2> QED BY <1>1, <1>3, <2>2
<1> QED BY <1>2, <1>3 DEF Reply

(* Delivering or rejecting a call keeps what does not depend on the calls. *)
LEMMA AnswerKeeps ==
  ASSUME IInv, NEW c, NEW r \in Results, Reply(c, r), c \in wire, wire' = wire \ {c},
         delivered' \subseteq delivered \cup {c}, delivered \subseteq delivered',
         UNCHANGED <<lock, life, stopped, note, audit>>
  PROVE  TypeOK' /\ Untouched' /\ OneWorker' /\ OneCall' /\ SentDelivered' /\ AuditBalanced'
<1>1. /\ run' \in [Workers -> RunRow]
      /\ \A w \in Workers :
           /\ run'[w].pc # "idle" => run[w].pc # "idle"
           /\ run'[w].note = run[w].note
  BY ReplyFacts
<1>2. wire' \cup delivered' \subseteq Calls
  BY DEF Calls
<1>3. TypeOK'
  BY <1>1 DEF IInv, TypeOK, ProcessTypeOK
<1>4. Untouched' /\ OneWorker'
  BY <1>1, <1>2 DEF IInv, Untouched, Active, OneWorker, Calls
<1>5. OneCall'
  BY <1>2 DEF IInv, OneCall, Calls
<1>6. SentDelivered' /\ AuditBalanced'
  BY DEF IInv, SentDelivered, AuditBalanced, Concluded
<1> QED BY <1>3, <1>4, <1>5, <1>6

LEMMA DeliverSafe ==
  ASSUME IInv, NEW c, Deliver(c)
  PROVE  IInv'
<1>1. /\ c \in wire /\ wire' = wire \ {c} /\ delivered' = delivered \cup {c} /\ Reply(c, "sent")
      /\ UNCHANGED <<lock, life, stopped, note, audit>> /\ "sent" \in Results
  BY DEF Deliver, processVars, Results
<1>2. TypeOK' /\ Untouched' /\ OneWorker' /\ OneCall' /\ SentDelivered' /\ AuditBalanced'
  BY <1>1, AnswerKeeps
<1>3. wire' \cup delivered' = Calls
  BY <1>1 DEF Calls
<1>4. Knowledge'
  <2>1. ASSUME NEW w \in Workers
        PROVE  /\ Call(w)' = Call(w) /\ run'[w].note = run[w].note
               /\ run'[w].attempt = run[w].attempt
               /\ \/ run'[w] = run[w]
                  \/ run[w].pc = "waiting" /\ run'[w].pc = "record"
                     /\ run'[w].result = "sent" /\ Call(w) \in delivered'
    BY <1>1, ReplyFacts DEF Call
  <2>2. delivered \subseteq delivered'
    BY <1>1
  <2> QED BY <1>3, <2>1, <2>2 DEF IInv, Knowledge, Calls, Results
<1> QED BY <1>2, <1>4 DEF IInv

LEMMA RejectSafe ==
  ASSUME IInv, NEW c, Reject(c)
  PROVE  IInv'
<1>1. /\ c \in wire /\ wire' = wire \ {c} /\ UNCHANGED delivered /\ Reply(c, "failed")
      /\ UNCHANGED <<lock, life, stopped, note, audit>> /\ "failed" \in Results
  BY DEF Reject, processVars, Results
<1>2. TypeOK' /\ Untouched' /\ OneWorker' /\ OneCall' /\ SentDelivered' /\ AuditBalanced'
  BY <1>1, AnswerKeeps
<1>3. wire' \cup delivered' \subseteq Calls /\ c \notin wire' \cup delivered'
  BY <1>1 DEF IInv, OneCall, Calls
<1>4. Knowledge'
  <2>1. ASSUME NEW w \in Workers
        PROVE  /\ Call(w)' = Call(w) /\ run'[w].note = run[w].note
               /\ run'[w].attempt = run[w].attempt
               /\ \/ run'[w] = run[w]
                  \/ run[w].pc = "waiting" /\ run'[w].pc = "record"
                     /\ run'[w].result = "failed" /\ Call(w) = c
    BY <1>1, ReplyFacts DEF Call
  <2>2. ASSUME NEW w \in Workers, run[w].pc = "waiting", Call(w) = c,
               NEW d \in wire' \cup delivered'
        PROVE  d[1] # run[w].note
    BY <1>3, <2>2 DEF IInv, Knowledge
  <2> QED BY <1>1, <1>3, <2>1, <2>2 DEF IInv, Knowledge, Calls, Results
<1> QED BY <1>2, <1>4 DEF IInv

LEMMA DropSafe ==
  ASSUME IInv, NEW w \in Workers, RecordThrows(w) \/ Crash(w)
  PROVE  IInv'
<1>1. /\ run \in [Workers -> RunRow] /\ run' = [run EXCEPT ![w] = IdleRun]
      /\ UNCHANGED <<note, audit, wire, delivered>>
  BY DEF IInv, TypeOK, RecordThrows, Crash
<1>2. /\ run' \in [Workers -> RunRow] /\ run'[w].pc = "idle"
      /\ \A v \in Workers \ {w} : run'[v] = run[v]
  BY <1>1 DEF IdleRun, RunRow, MaxAttempts
<1>3. ProcessTypeOK'
  <2>1. CASE RecordThrows(w)
    BY <2>1 DEF IInv, TypeOK, RecordThrows, processVars, ProcessTypeOK
  <2>2. CASE Crash(w)
    BY <2>2, ProcessTyped DEF IInv, TypeOK, Crash
  <2> QED BY <2>1, <2>2
<1>4. TypeOK'
  BY <1>1, <1>2, <1>3 DEF IInv, TypeOK
<1>5. Untouched' /\ SentDelivered' /\ AuditBalanced'
  BY <1>1, <1>2, StillUntouched
<1> QED BY <1>1, <1>2, <1>4, <1>5, RunEnded DEF IInv

LEMMA LifeSafe ==
  ASSUME IInv, NEW w \in Workers,
         \/ (Start(w) \/ LoseLock(w)) /\ UNCHANGED noteVars
         \/ Signal(w) \/ Leave(w)
  PROVE  IInv'
<1>1. UNCHANGED noteVars
  BY DEF Signal, Leave
<1>2. ProcessTypeOK'
  BY ProcessTyped DEF IInv, TypeOK, Signal, Leave
<1> QED BY <1>1, <1>2, ProcessSafe

LEMMA NextIInv == IInv /\ [Next]_vars => IInv'
<1> SUFFICES ASSUME IInv, [Next]_vars PROVE IInv'
  OBVIOUS
<1>1. CASE UNCHANGED vars
  <2>1. UNCHANGED noteVars /\ ProcessTypeOK'
    BY <1>1 DEF vars, noteVars, IInv, TypeOK, ProcessTypeOK
  <2> QED BY <2>1, ProcessSafe
<1> QED BY <1>1, EnqueueSafe, RecoverSafe, ClaimSafe, RefuseSafe, PostSafe, TimeoutSafe, RecordSafe,
           DeliverSafe, RejectSafe, DropSafe, LifeSafe DEF Next, Work, Send, Fault

LEMMA Invariance == Spec => []IInv
  BY InitIInv, NextIInv, PTL DEF Spec

-----------------------------------------------------------------------------
(* Type correctness of the outbox and its workers. *)
THEOREM TypeCorrect == Spec => []TypeOK
<1>1. IInv => TypeOK
  BY DEF IInv
<1> QED BY <1>1, Invariance, PTL

(* No notification is delivered twice, for any number of overlapping workers that
   die, time out and are overtaken by calls of their own. *)
THEOREM DeliveredAtMostOnce == Spec => []DeliveredOnce
<1>1. IInv => DeliveredOnce
  BY DEF IInv, OneCall, Calls, DeliveredOnce
<1> QED BY <1>1, Invariance, PTL

(* The recorded status is true of the message. *)
THEOREM StatusTrue == Spec => []StatusTellsTruth
<1>1. IInv => StatusTellsTruth
  BY DEF IInv, Untouched, SentDelivered, Calls, StatusTellsTruth
<1> QED BY <1>1, Invariance, PTL

(* Every attempt is audited, and so is its end. *)
THEOREM AuditCorrect == Spec => []AuditBalanced
<1>1. IInv => AuditBalanced
  BY DEF IInv
<1> QED BY <1>1, Invariance, PTL
=============================================================================
