---------------------------- MODULE Chat_proofs ----------------------------
(***************************************************************************)
(* Proofs about the assistant's queue, for every number of questions, of   *)
(* owners, of tool calls and of overlapping workers.                       *)
(***************************************************************************)
EXTENDS Chat, TLAPS

-----------------------------------------------------------------------------
(* The parts of the inductive invariant.                                    *)

Active(w, q) == run[w].pc # "idle" /\ run[w].q = q

(* What was never claimed is in nobody's hands, and nothing was read for it. *)
Untouched ==
  \A q \in Questions : chat[q].status \in {"none", "queued"} =>
    /\ invoked[q] = 0
    /\ chat[q].evidence = {}
    /\ \A w \in Workers : ~Active(w, q)

(* A question is in the hands of one worker, even after a restart failed its row. *)
OneWorker ==
  \A v, w \in Workers : run[v].pc # "idle" /\ run[w].pc # "idle" /\ run[v].q = run[w].q
                          => v = w

(* A worker asks the model once, and what it was told of orders is on record. *)
RunsOK ==
  \A w \in Workers :
    /\ run[w].pc = "member" => invoked[run[w].q] = 0 /\ run[w].receipts = {}
    /\ run[w].pc = "model" => /\ invoked[run[w].q] = 1
                              /\ run[w].receipts \subseteq chat[run[w].q].evidence

(* Calls are made by a run of the model; a stored one is on record. *)
CallsOK ==
  \A q \in Questions, n \in Calls :
    /\ call[q][n] # "unused" => invoked[q] = 1
    /\ call[q][n] = "stored" => n \in chat[q].evidence

InvokedOnce == \A q \in Questions : invoked[q] \in {0, 1}

IInv ==
  TypeOK /\ Untouched /\ OneWorker /\ RunsOK /\ CallsOK /\ InvokedOnce /\ AnswersShowEvidence

-----------------------------------------------------------------------------
LEMMA InitIInv == Init => IInv
<1> SUFFICES ASSUME Init PROVE IInv
  OBVIOUS
<1> USE DEF Init, IdleRun
<1>1. TypeOK
  BY WorkersAssumption
  DEF TypeOK, ProcessTypeOK, ProcessInit, Lives, ChatRow, Statuses, Open, RunRow
<1>2. Untouched /\ OneWorker /\ RunsOK /\ CallsOK /\ InvokedOnce /\ AnswersShowEvidence
  BY DEF Untouched, Active, OneWorker, RunsOK, CallsOK, InvokedOnce, AnswersShowEvidence
<1> QED BY <1>1, <1>2 DEF IInv

(* The process's own steps keep its variables typed. *)
LEMMA ProcessTyped ==
  ASSUME ProcessTypeOK, NEW w \in Workers,
         Start(w) \/ BeginLoops(w) \/ LoseLock(w) \/ Stop(w) \/ Exit(w) \/ Die(w)
  PROVE  ProcessTypeOK'
  BY DEF ProcessTypeOK, Start, BeginLoops, LoseLock, Stop, Exit, Die, End, Lives

(* A step that leaves questions, calls and runs alone. *)
LEMMA ProcessSafe ==
  ASSUME IInv, ProcessTypeOK', enabled' \subseteq Owners, UNCHANGED <<chat, run, call, invoked>>
  PROVE  IInv'
  BY DEF IInv, TypeOK, Untouched, Active, OneWorker, RunsOK, CallsOK, InvokedOnce,
         AnswersShowEvidence

(* A step that changes the status of questions that are running, and nothing else of
   any question; some runs may end. *)
EndsOnly ==
  /\ chat' \in [Questions -> ChatRow]
  /\ run' \in [Workers -> RunRow]
  /\ \A q \in Questions :
       /\ chat'[q].evidence = chat[q].evidence
       /\ chat'[q].about = chat[q].about
       /\ \/ chat'[q] = chat[q]
          \/ chat[q].status = "running" /\ chat'[q].status \in {"failed", "completed"}
       /\ chat'[q].status = "completed" /\ chat[q].status # "completed" =>
            /\ chat'[q].basis \subseteq chat[q].evidence
            /\ chat[q].about => chat'[q].basis # {}
  /\ \A w \in Workers : \/ run'[w] = run[w]
                        \/ run'[w].pc = "idle"
                        \/ /\ run'[w].pc = "failing" /\ run[w].pc # "idle"
                           /\ run'[w].q = run[w].q
  /\ UNCHANGED <<call, invoked>>

LEMMA EndsSafe ==
  ASSUME IInv, EndsOnly, ProcessTypeOK', enabled' \subseteq Owners
  PROVE  IInv'
<1> USE DEF EndsOnly
<1>1. \A w \in Workers : run'[w].pc # "idle" => run[w].pc # "idle" /\ run'[w].q = run[w].q
  OBVIOUS
<1>2. TypeOK'
  BY <1>1 DEF IInv, TypeOK
<1>3. Untouched'
  <2>1. ASSUME NEW q \in Questions, chat'[q].status \in {"none", "queued"}
        PROVE  chat[q].status \in {"none", "queued"}
    BY <2>1
  <2> QED BY <1>1, <2>1 DEF IInv, Untouched, Active
<1>4. OneWorker'
  BY <1>1 DEF IInv, OneWorker
<1>5. RunsOK'
  <2>1. \A w \in Workers : run'[w].pc \in {"member", "model"} => run'[w] = run[w]
    OBVIOUS
  <2>2. \A w \in Workers : run[w].pc # "idle" => run[w].q \in Questions
    BY DEF IInv, TypeOK
  <2> QED BY <2>1, <2>2 DEF IInv, RunsOK
<1>6. CallsOK' /\ InvokedOnce'
  BY DEF IInv, CallsOK, InvokedOnce
<1>7. AnswersShowEvidence'
  BY DEF IInv, AnswersShowEvidence
<1> QED BY <1>2, <1>3, <1>4, <1>5, <1>6, <1>7 DEF IInv

-----------------------------------------------------------------------------
LEMMA AskSafe ==
  ASSUME IInv, NEW o \in Owners, NEW q \in Questions, NEW about \in BOOLEAN, Ask(o, q, about)
  PROVE  IInv'
<1>1. /\ chat \in [Questions -> ChatRow] /\ chat[q].status = "none"
      /\ UNCHANGED <<lock, life, stopped, enabled, run, call, invoked>>
  BY DEF IInv, TypeOK, Ask, Fresh, processVars
<1>2. /\ chat'[q] = [status |-> "queued", owner |-> o, about |-> about, evidence |-> {},
                     basis |-> {}]
      /\ \A p \in Questions \ {q} : chat'[p] = chat[p]
      /\ chat' \in [Questions -> ChatRow]
  <2>1. [status |-> "queued", owner |-> o, about |-> about, evidence |-> {}, basis |-> {}]
          \in ChatRow
    BY DEF ChatRow, Statuses, Open
  <2> QED BY <1>1, <2>1 DEF Ask
<1>3. \A w \in Workers : ~Active(w, q)
  BY <1>1 DEF IInv, Untouched
<1>4. TypeOK'
  BY <1>1, <1>2 DEF IInv, TypeOK, ProcessTypeOK
<1>5. Untouched'
  <2>1. invoked[q] = 0
    BY <1>1 DEF IInv, Untouched
  <2> QED BY <1>1, <1>2, <1>3, <2>1 DEF IInv, Untouched, Active
<1>6. OneWorker' /\ InvokedOnce'
  BY <1>1 DEF IInv, OneWorker, InvokedOnce
<1>7. RunsOK'
  <2>1. \A w \in Workers : run[w].pc # "idle" => run[w].q \in Questions \ {q}
    BY <1>3 DEF IInv, TypeOK, Active
  <2> QED BY <1>1, <1>2, <2>1 DEF IInv, RunsOK
<1>8. CallsOK'
  <2>1. \A n \in Calls : call[q][n] = "unused"
    BY <1>1 DEF IInv, Untouched, CallsOK
  <2> QED BY <1>1, <1>2, <2>1 DEF IInv, CallsOK
<1>9. AnswersShowEvidence'
  BY <1>1, <1>2 DEF IInv, AnswersShowEvidence
<1> QED BY <1>4, <1>5, <1>6, <1>7, <1>8, <1>9 DEF IInv

LEMMA ClaimSafe ==
  ASSUME IInv, NEW w \in Workers, NEW q \in Questions, Claim(w, q) \/ ClaimUnanswered(w, q)
  PROVE  IInv'
<1>1. /\ chat \in [Questions -> ChatRow] /\ run \in [Workers -> RunRow]
      /\ chat[q].status = "queued"
      /\ chat' = [chat EXCEPT ![q].status = "running"]
      /\ UNCHANGED <<lock, life, stopped, enabled, call, invoked>>
  BY DEF IInv, TypeOK, Claim, ClaimUnanswered, TakeClaim, processVars
<1>2. /\ chat' \in [Questions -> ChatRow]
      /\ chat'[q].status = "running" /\ chat'[q].evidence = chat[q].evidence
      /\ \A p \in Questions \ {q} : chat'[p] = chat[p]
  BY <1>1 DEF ChatRow, Statuses, Open
<1>3. invoked[q] = 0 /\ \A v \in Workers : ~Active(v, q)
  BY <1>1 DEF IInv, Untouched
<1>4. /\ run' \in [Workers -> RunRow]
      /\ \A v \in Workers : run'[v].pc # "idle" =>
           \/ run'[v] = run[v]
           \/ v = w /\ run'[v].pc = "member" /\ run'[v].q = q
  BY <1>1 DEF Claim, ClaimUnanswered, RunRow
<1>5. TypeOK'
  BY <1>1, <1>2, <1>4 DEF IInv, TypeOK, ProcessTypeOK
<1>6. Untouched'
  BY <1>1, <1>2, <1>4 DEF IInv, Untouched, Active
<1>7. OneWorker'
  BY <1>3, <1>4 DEF IInv, OneWorker, Active
<1>8. RunsOK'
  <2>1. \A v \in Workers : run'[v].pc = "model" =>
          run'[v] = run[v] /\ run[v].q \in Questions
    BY <1>4 DEF IInv, TypeOK
  <2>2. \A v \in Workers : run'[v].pc = "member" =>
          invoked[run'[v].q] = 0 /\ run'[v].receipts = {}
    BY <1>1, <1>3, <1>4 DEF IInv, RunsOK, Claim, ClaimUnanswered
  <2> QED BY <1>1, <1>2, <2>1, <2>2 DEF IInv, RunsOK
<1>9. CallsOK' /\ InvokedOnce'
  BY <1>1, <1>2 DEF IInv, CallsOK, InvokedOnce
<1>10. AnswersShowEvidence'
  BY <1>1, <1>2 DEF IInv, AnswersShowEvidence
<1> QED BY <1>5, <1>6, <1>7, <1>8, <1>9, <1>10 DEF IInv

LEMMA InvokeSafe ==
  ASSUME IInv, NEW w \in Workers, Invoke(w)
  PROVE  IInv'
<1> DEFINE q == run[w].q
<1>1. /\ run \in [Workers -> RunRow] /\ run[w].pc = "member" /\ q \in Questions
      /\ invoked[q] = 0 /\ invoked \in [Questions -> Nat]
      /\ UNCHANGED <<lock, life, stopped, chat, enabled, call>>
  BY DEF IInv, TypeOK, RunsOK, Invoke, processVars
<1>2. /\ run' = [run EXCEPT ![w].pc = "model"]
      /\ invoked' = [invoked EXCEPT ![q] = @ + 1]
  BY DEF Invoke
<1> HIDE DEF q
<1>3. /\ run' \in [Workers -> RunRow]
      /\ run'[w].pc = "model" /\ run'[w].q = run[w].q /\ run'[w].receipts = run[w].receipts
      /\ \A v \in Workers \ {w} : run'[v] = run[v]
  BY <1>1, <1>2 DEF RunRow
<1>4. /\ invoked' \in [Questions -> Nat] /\ invoked'[q] = 1
      /\ \A p \in Questions \ {q} : invoked'[p] = invoked[p]
  BY <1>1, <1>2
<1>5. q = run[w].q /\ run[w].receipts = {} /\ run[w].pc # "idle"
  BY <1>1 DEF IInv, RunsOK, q
<1>6. chat[q].status \notin {"none", "queued"}
  BY <1>1, <1>5 DEF IInv, Untouched, Active
<1>7. TypeOK'
  BY <1>1, <1>3, <1>4 DEF IInv, TypeOK, ProcessTypeOK
<1>8. Untouched'
  BY <1>1, <1>3, <1>4, <1>5, <1>6 DEF IInv, Untouched, Active
<1>9. OneWorker'
  BY <1>3, <1>5 DEF IInv, OneWorker
<1>10. RunsOK'
  <2>1. \A v \in Workers \ {w} : run[v].pc # "idle" => run[v].q \in Questions \ {q}
    BY <1>1, <1>5 DEF IInv, TypeOK, OneWorker
  <2>2. ASSUME NEW v \in Workers \ {w}
        PROVE  /\ run'[v].pc = "member" => invoked'[run'[v].q] = 0 /\ run'[v].receipts = {}
               /\ run'[v].pc = "model" => /\ invoked'[run'[v].q] = 1
                                          /\ run'[v].receipts \subseteq chat'[run'[v].q].evidence
    BY <1>1, <1>3, <1>4, <2>1 DEF IInv, RunsOK
  <2>3. run'[w].pc = "model" /\ invoked'[run'[w].q] = 1 /\ run'[w].receipts = {}
    BY <1>3, <1>4, <1>5
  <2> QED BY <2>2, <2>3 DEF RunsOK
<1>11. CallsOK'
  BY <1>1, <1>4 DEF IInv, CallsOK
<1>12. InvokedOnce' /\ AnswersShowEvidence'
  BY <1>1, <1>4 DEF IInv, InvokedOnce, AnswersShowEvidence
<1> QED BY <1>7, <1>8, <1>9, <1>10, <1>11, <1>12 DEF IInv

-----------------------------------------------------------------------------
(* Runs that end.                                                           *)

LEMMA NoRunEnds ==
  ASSUME IInv, NEW w \in Workers, NoRun(w)
  PROVE  EndsOnly
<1>1. /\ chat \in [Questions -> ChatRow] /\ run \in [Workers -> RunRow]
      /\ run[w].pc = "member" /\ run' = [run EXCEPT ![w].pc = "failing"]
      /\ UNCHANGED <<chat, call, invoked>>
  BY DEF IInv, TypeOK, NoRun
<1>2. run' \in [Workers -> RunRow]
  BY <1>1 DEF RunRow
<1> QED BY <1>1, <1>2 DEF EndsOnly

(* What the UPDATE of an answer does to the questions. *)
LEMMA AnsweredFacts ==
  ASSUME IInv, NEW w \in Workers, run[w].pc = "model", Proven(w), chat' = Answered(w)
  PROVE  /\ chat' \in [Questions -> ChatRow]
         /\ \A q \in Questions :
              /\ chat'[q].evidence = chat[q].evidence
              /\ chat'[q].about = chat[q].about
              /\ \/ chat'[q] = chat[q]
                 \/ /\ q = run[w].q /\ chat[q].status = "running"
                    /\ chat'[q].status = "completed"
                    /\ chat'[q].basis \subseteq chat[q].evidence
                    /\ chat[q].about => chat'[q].basis # {}
<1> DEFINE r == run[w].q
           basis == run[w].receipts
           row == [chat[r] EXCEPT !.status = "completed", !.basis = basis]
<1>1. /\ chat \in [Questions -> ChatRow] /\ r \in Questions /\ basis \in SUBSET Calls
      /\ basis \subseteq chat[r].evidence
      /\ chat[r].about => basis # {}
  BY DEF IInv, TypeOK, RunsOK, Proven, RunRow
<1>2. chat' = IF chat[r].status = "running" THEN [chat EXCEPT ![r] = row] ELSE chat
  BY DEF Answered, Owned
<1> HIDE DEF r, basis
<1>3. /\ row \in ChatRow /\ row.status = "completed" /\ row.basis = basis
      /\ row.evidence = chat[r].evidence /\ row.about = chat[r].about
  BY <1>1 DEF ChatRow, Statuses
<1> HIDE DEF row
<1>4. r = run[w].q
  BY DEF r
<1> QED BY <1>1, <1>2, <1>3, <1>4

LEMMA CompleteEnds ==
  ASSUME IInv, NEW w \in Workers, Complete(w)
  PROVE  EndsOnly
<1>1. /\ run[w].pc = "model" /\ Proven(w) /\ chat' = Answered(w)
      /\ run \in [Workers -> RunRow] /\ run' = [run EXCEPT ![w] = IdleRun]
      /\ UNCHANGED <<call, invoked>>
  BY DEF IInv, TypeOK, Complete
<1>2. run' \in [Workers -> RunRow] /\ \A v \in Workers : run'[v] = run[v] \/ run'[v].pc = "idle"
  <2>1. IdleRun \in RunRow /\ IdleRun.pc = "idle"
    BY DEF IdleRun, RunRow
  <2> QED BY <1>1, <2>1
<1> QED BY <1>1, <1>2, AnsweredFacts DEF EndsOnly

LEMMA RunFailsEnds ==
  ASSUME IInv, NEW w \in Workers, RunFails(w)
  PROVE  EndsOnly
<1>1. /\ run[w].pc = "model" /\ run \in [Workers -> RunRow]
      /\ chat \in [Questions -> ChatRow]
      /\ run' = [run EXCEPT ![w].pc = "failing"]
      /\ UNCHANGED <<call, invoked>>
  BY DEF IInv, TypeOK, RunFails
<1>2. /\ run' \in [Workers -> RunRow]
      /\ \A v \in Workers : \/ run'[v] = run[v]
                            \/ /\ run'[v].pc = "failing" /\ run[v].pc # "idle"
                               /\ run'[v].q = run[v].q
  BY <1>1 DEF RunRow
<1>3. CASE UNCHANGED chat
  BY <1>1, <1>2, <1>3 DEF EndsOnly
<1>4. CASE Proven(w) /\ chat' = Answered(w)
  BY <1>1, <1>2, <1>4, AnsweredFacts DEF EndsOnly
<1> QED BY <1>3, <1>4 DEF RunFails

LEMMA FailEnds ==
  ASSUME IInv, NEW w \in Workers, Fail(w) \/ FailThrows(w)
  PROVE  EndsOnly
<1> DEFINE r == run[w].q
<1>1. /\ run[w].pc = "failing" /\ run \in [Workers -> RunRow] /\ r \in Questions
      /\ chat \in [Questions -> ChatRow]
      /\ run' = [run EXCEPT ![w] = IdleRun]
      /\ \/ UNCHANGED chat
         \/ chat[r].status = "running" /\ chat' = [chat EXCEPT ![r].status = "failed"]
      /\ UNCHANGED <<call, invoked>>
  BY DEF IInv, TypeOK, Fail, FailThrows, Owned
<1> HIDE DEF r
<1>2. run' \in [Workers -> RunRow] /\ \A v \in Workers : run'[v] = run[v] \/ run'[v].pc = "idle"
  <2>1. IdleRun \in RunRow /\ IdleRun.pc = "idle"
    BY DEF IdleRun, RunRow
  <2> QED BY <1>1, <2>1
<1>3. CASE UNCHANGED chat
  BY <1>1, <1>2, <1>3 DEF EndsOnly
<1>4. CASE chat[r].status = "running" /\ chat' = [chat EXCEPT ![r].status = "failed"]
  <2>1. /\ chat' \in [Questions -> ChatRow]
        /\ chat'[r].status = "failed" /\ chat'[r].evidence = chat[r].evidence
        /\ chat'[r].about = chat[r].about
        /\ \A q \in Questions \ {r} : chat'[q] = chat[q]
    BY <1>1, <1>4 DEF ChatRow, Statuses
  <2> QED BY <1>1, <1>2, <1>4, <2>1 DEF EndsOnly
<1> QED BY <1>1, <1>3, <1>4

LEMMA RecoverEnds ==
  ASSUME IInv, NEW w \in Workers, Recover(w)
  PROVE  EndsOnly
<1>1. /\ chat \in [Questions -> ChatRow] /\ run \in [Workers -> RunRow]
      /\ UNCHANGED <<run, call, invoked>>
  BY DEF IInv, TypeOK, Recover
<1>2. chat' = [q \in Questions |-> IF chat[q].status = "running"
                                     THEN [chat[q] EXCEPT !.status = "failed"] ELSE chat[q]]
  BY DEF Recover, Interrupted
<1>3. ASSUME NEW q \in Questions
      PROVE  /\ chat'[q] \in ChatRow
             /\ chat'[q].evidence = chat[q].evidence
             /\ chat'[q].about = chat[q].about
             /\ \/ chat'[q] = chat[q]
                \/ chat[q].status = "running" /\ chat'[q].status = "failed"
  BY <1>1, <1>2 DEF ChatRow, Statuses
<1>4. chat' \in [Questions -> ChatRow]
  <2>1. chat' = [q \in Questions |-> chat'[q]]
    BY <1>2
  <2> QED BY <1>3, <2>1
<1> QED BY <1>1, <1>3, <1>4 DEF EndsOnly

LEMMA CrashEnds ==
  ASSUME IInv, NEW w \in Workers, Crash(w)
  PROVE  EndsOnly
<1>1. /\ chat \in [Questions -> ChatRow] /\ run \in [Workers -> RunRow]
      /\ run' = [run EXCEPT ![w] = IdleRun] /\ UNCHANGED <<chat, call, invoked>>
  BY DEF IInv, TypeOK, Crash
<1>2. IdleRun \in RunRow /\ IdleRun.pc = "idle"
  BY DEF IdleRun, RunRow
<1> QED BY <1>1, <1>2 DEF EndsOnly

-----------------------------------------------------------------------------
(* Calls of the tool.                                                       *)

LEMMA CallTyped ==
  ASSUME IInv, NEW q \in Questions, NEW n \in Calls,
         NEW stage \in {"unused", "admitted", "stored", "over"}, Advance(q, n, stage)
  PROVE  /\ call' \in [Questions -> [Calls -> {"unused", "admitted", "stored", "over"}]]
         /\ call'[q][n] = stage
         /\ \A p \in Questions, i \in Calls : p # q \/ i # n => call'[p][i] = call[p][i]
  BY DEF IInv, TypeOK, Advance

LEMMA AdmitSafe ==
  ASSUME IInv, NEW q \in Questions, NEW n \in Calls, Admit(q, n) \/ EndCall(q, n)
  PROVE  IInv'
<1>1. /\ UNCHANGED <<lock, life, stopped, chat, enabled, run, invoked>>
      /\ \E stage \in {"admitted", "over"} : Advance(q, n, stage)
  BY DEF Admit, EndCall, processVars
<1>2. PICK stage \in {"admitted", "over"} : Advance(q, n, stage)
  BY <1>1
<1>3. /\ call' \in [Questions -> [Calls -> {"unused", "admitted", "stored", "over"}]]
      /\ call'[q][n] = stage
      /\ \A p \in Questions, i \in Calls : p # q \/ i # n => call'[p][i] = call[p][i]
  BY <1>2, CallTyped
<1>4. invoked[q] = 1
  BY DEF IInv, InvokedOnce, CallsOK, Admit, EndCall
<1>5. TypeOK'
  BY <1>1, <1>3 DEF IInv, TypeOK, ProcessTypeOK
<1>6. CallsOK'
  BY <1>1, <1>3, <1>4 DEF IInv, CallsOK
<1>7. Untouched' /\ OneWorker' /\ RunsOK' /\ InvokedOnce' /\ AnswersShowEvidence'
  BY <1>1 DEF IInv, Untouched, Active, OneWorker, RunsOK, InvokedOnce, AnswersShowEvidence
<1> QED BY <1>5, <1>6, <1>7 DEF IInv

(* The evidence of a question that runs grows by one call. *)
LEMMA StoreFacts ==
  ASSUME IInv, NEW q \in Questions, NEW n \in Calls, Store(q, n)
  PROVE  /\ chat' \in [Questions -> ChatRow]
         /\ chat[q].status = "running" /\ chat'[q].status = "running"
         /\ chat'[q].about = chat[q].about
         /\ chat'[q].evidence = chat[q].evidence \cup {n}
         /\ \A p \in Questions \ {q} : chat'[p] = chat[p]
         /\ invoked[q] = 1
<1>1. /\ chat \in [Questions -> ChatRow] /\ chat[q].status = "running"
      /\ chat' = [chat EXCEPT ![q].evidence = @ \cup {n}]
  BY DEF IInv, TypeOK, Store, Storable
<1>2. call[q][n] # "unused"
  BY DEF Store
<1>3. invoked[q] = 1
  BY <1>2 DEF IInv, CallsOK
<1> QED BY <1>1, <1>3 DEF ChatRow

LEMMA StoreSafe ==
  ASSUME IInv, NEW q \in Questions, NEW n \in Calls, Store(q, n)
  PROVE  IInv'
<1>1. /\ UNCHANGED <<lock, life, stopped, enabled, run, invoked>>
      /\ Advance(q, n, "stored")
  BY DEF Store, processVars
<1>2. /\ call' \in [Questions -> [Calls -> {"unused", "admitted", "stored", "over"}]]
      /\ call'[q][n] = "stored"
      /\ \A p \in Questions, i \in Calls : p # q \/ i # n => call'[p][i] = call[p][i]
  BY <1>1, CallTyped
<1>3. /\ chat' \in [Questions -> ChatRow]
      /\ chat[q].status = "running" /\ chat'[q].status = "running"
      /\ chat'[q].evidence = chat[q].evidence \cup {n}
      /\ \A p \in Questions \ {q} : chat'[p] = chat[p]
      /\ invoked[q] = 1
  BY StoreFacts
<1>4. TypeOK'
  BY <1>1, <1>2, <1>3 DEF IInv, TypeOK, ProcessTypeOK
<1>5. Untouched'
  BY <1>1, <1>3 DEF IInv, Untouched, Active
<1>6. OneWorker' /\ InvokedOnce'
  BY <1>1 DEF IInv, OneWorker, InvokedOnce
<1>7. \A p \in Questions : chat[p].evidence \subseteq chat'[p].evidence
  BY <1>3
<1>8. RunsOK'
  BY <1>1, <1>7 DEF IInv, TypeOK, RunsOK
<1>9. CallsOK'
  BY <1>1, <1>2, <1>3 DEF IInv, CallsOK
<1>10. AnswersShowEvidence'
  BY <1>3 DEF IInv, AnswersShowEvidence
<1> QED BY <1>4, <1>5, <1>6, <1>8, <1>9, <1>10 DEF IInv

LEMMA ReceiveSafe ==
  ASSUME IInv, NEW w \in Workers, NEW n \in Calls, Receive(w, n)
  PROVE  IInv'
<1> DEFINE q == run[w].q
<1>1. /\ run \in [Workers -> RunRow] /\ run[w].pc = "model" /\ q \in Questions
      /\ call[q][n] = "stored" /\ Advance(q, n, "over")
      /\ run' = [run EXCEPT ![w].receipts = @ \cup {n}]
      /\ UNCHANGED <<lock, life, stopped, chat, enabled, invoked>>
  BY DEF IInv, TypeOK, Receive, processVars
<1> HIDE DEF q
<1>2. /\ call' \in [Questions -> [Calls -> {"unused", "admitted", "stored", "over"}]]
      /\ call'[q][n] = "over"
      /\ \A p \in Questions, i \in Calls : p # q \/ i # n => call'[p][i] = call[p][i]
  BY <1>1, CallTyped
<1>3. /\ run' \in [Workers -> RunRow]
      /\ run'[w].pc = "model" /\ run'[w].q = run[w].q
      /\ run'[w].receipts = run[w].receipts \cup {n}
      /\ \A v \in Workers \ {w} : run'[v] = run[v]
  BY <1>1 DEF RunRow
<1>4. n \in chat[q].evidence /\ invoked[q] = 1 /\ q = run[w].q
  BY <1>1 DEF IInv, CallsOK, q
<1>5. TypeOK'
  BY <1>1, <1>2, <1>3 DEF IInv, TypeOK, ProcessTypeOK
<1>6. Untouched'
  BY <1>1, <1>3 DEF IInv, Untouched, Active
<1>7. OneWorker'
  BY <1>1, <1>3 DEF IInv, OneWorker
<1>8. RunsOK'
  BY <1>1, <1>3, <1>4 DEF IInv, RunsOK
<1>9. CallsOK'
  BY <1>1, <1>2, <1>4 DEF IInv, CallsOK
<1>10. InvokedOnce' /\ AnswersShowEvidence'
  BY <1>1 DEF IInv, InvokedOnce, AnswersShowEvidence
<1> QED BY <1>5, <1>6, <1>7, <1>8, <1>9, <1>10 DEF IInv

-----------------------------------------------------------------------------
(* Every step.                                                              *)

(* The steps that may end a run. *)
Ending(w) ==
  NoRun(w) \/ Complete(w) \/ RunFails(w) \/ Fail(w) \/ FailThrows(w) \/ Recover(w) \/ Crash(w)

LEMMA EndingEnds ==
  ASSUME IInv, NEW w \in Workers, Ending(w)
  PROVE  EndsOnly
  BY NoRunEnds, CompleteEnds, RunFailsEnds, FailEnds, RecoverEnds, CrashEnds DEF Ending

LEMMA EndingSafe ==
  ASSUME IInv, NEW w \in Workers, Ending(w)
  PROVE  IInv'
<1>1. EndsOnly
  BY EndingEnds
<1>2. ProcessTypeOK /\ enabled \subseteq Owners
  BY DEF IInv, TypeOK
<1>3. CASE Recover(w) \/ Crash(w)
  <2>1. ProcessTypeOK' /\ UNCHANGED enabled
    BY <1>2, <1>3, ProcessTyped DEF Recover, Crash
  <2> QED BY <1>1, <1>2, <2>1, EndsSafe
<1>4. CASE NoRun(w) \/ Complete(w) \/ RunFails(w) \/ Fail(w) \/ FailThrows(w)
  <2>1. ProcessTypeOK' /\ UNCHANGED enabled
    BY <1>2, <1>4 DEF NoRun, Complete, RunFails, Fail, FailThrows, processVars, ProcessTypeOK
  <2> QED BY <1>1, <1>2, <2>1, EndsSafe
<1> QED BY <1>3, <1>4 DEF Ending

LEMMA NextIInv == IInv /\ [Next]_vars => IInv'
<1> SUFFICES ASSUME IInv, [Next]_vars PROVE IInv'
  OBVIOUS
<1>1. CASE \E o \in Owners, q \in Questions, about \in BOOLEAN : Ask(o, q, about)
  BY <1>1, AskSafe
<1>2. CASE \E S \in SUBSET Owners : SetEnabled(S)
  BY <1>2, ProcessSafe DEF IInv, TypeOK, SetEnabled, ProcessTypeOK, processVars
<1>3. CASE \E w \in Workers, q \in Questions : Claim(w, q) \/ ClaimUnanswered(w, q)
  BY <1>3, ClaimSafe
<1>4. CASE \E w \in Workers : Invoke(w)
  BY <1>4, InvokeSafe
<1>5. CASE \E w \in Workers : Ending(w)
  BY <1>5, EndingSafe
<1>6. CASE \E q \in Questions, n \in Calls : Admit(q, n) \/ Store(q, n) \/ EndCall(q, n)
  BY <1>6, AdmitSafe, StoreSafe
<1>7. CASE \E w \in Workers, n \in Calls : Receive(w, n)
  BY <1>7, ReceiveSafe
<1>8. CASE \E w \in Workers : \/ (Start(w) /\ UNCHANGED chatVars) \/ Signal(w) \/ Leave(w)
                              \/ (LoseLock(w) /\ UNCHANGED chatVars)
  <2>1. ProcessTypeOK' /\ UNCHANGED chatVars
    BY <1>8, ProcessTyped DEF IInv, TypeOK, Signal, Leave
  <2> QED BY <2>1, ProcessSafe DEF chatVars, IInv, TypeOK
<1>9. CASE UNCHANGED vars
  BY <1>9, ProcessSafe DEF vars, IInv, TypeOK, ProcessTypeOK
<1> QED BY <1>1, <1>2, <1>3, <1>4, <1>5, <1>6, <1>7, <1>8, <1>9 DEF Next, Work, Fault, Ending

LEMMA Invariance == Spec => []IInv
  BY InitIInv, NextIInv, PTL DEF Spec

(* Type correctness of the queue for every set of owners, questions, workers and
   calls. *)
THEOREM TypeCorrect == Spec => []TypeOK
<1>1. IInv => TypeOK
  BY DEF IInv
<1> QED BY Invariance, <1>1, PTL

(* No answer rests on an order that is not kept with the question, however many
   workers overlap and however late a call of the tool is. *)
THEOREM EvidenceCorrect == Spec => []AnswersShowEvidence
<1>1. IInv => AnswersShowEvidence
  BY DEF IInv
<1> QED BY Invariance, <1>1, PTL

-----------------------------------------------------------------------------
(* The queue implements ChatPromise.                                        *)

LEMMA InitRefines == Init => Promise!Init
  BY DEF Init, Promise!Init, state, aboutOrder, shown, StateOf, Open

(* A step that leaves what the abstract view sees of every question alone. *)
LEMMA Stutters ==
  ASSUME UNCHANGED invoked,
         \A q \in Questions : /\ StateOf(chat'[q].status) = StateOf(chat[q].status)
                              /\ chat'[q].about = chat[q].about
                              /\ chat'[q].evidence = chat[q].evidence
  PROVE  UNCHANGED Promise!vars
  BY DEF Promise!vars, state, aboutOrder, shown

LEMMA AskRefines ==
  ASSUME IInv, NEW o \in Owners, NEW q \in Questions, NEW about \in BOOLEAN, Ask(o, q, about)
  PROVE  [Promise!Next]_(Promise!vars)
<1>1. /\ chat \in [Questions -> ChatRow] /\ chat[q].status = "none" /\ chat[q].evidence = {}
      /\ chat'[q].status = "queued" /\ chat'[q].about = about /\ chat'[q].evidence = {}
      /\ \A p \in Questions \ {q} : chat'[p] = chat[p]
      /\ UNCHANGED invoked
  BY DEF IInv, TypeOK, Untouched, Ask, Fresh
<1>2. StateOf("none") = "none" /\ StateOf("queued") = "open"
  BY DEF StateOf, Open
<1>3. state[q] = "none" /\ state' = [state EXCEPT ![q] = "open"]
  BY <1>1, <1>2 DEF state
<1>4. aboutOrder' = [aboutOrder EXCEPT ![q] = about] /\ UNCHANGED shown
  BY <1>1 DEF aboutOrder, shown
<1>5. Promise!Ask(q)
  BY <1>1, <1>3, <1>4 DEF Promise!Ask
<1> QED BY <1>5 DEF Promise!Next

LEMMA InvokeRefines ==
  ASSUME IInv, NEW w \in Workers, Invoke(w)
  PROVE  [Promise!Next]_(Promise!vars)
<1> DEFINE q == run[w].q
<1>1. /\ q \in Questions /\ invoked \in [Questions -> Nat] /\ invoked[q] = 0
      /\ run[w].pc = "member" /\ Active(w, q)
      /\ invoked' = [invoked EXCEPT ![q] = @ + 1] /\ UNCHANGED chat
  BY DEF IInv, TypeOK, RunsOK, Invoke, Active
<1> HIDE DEF q
<1>2. chat[q].status \in Statuses /\ chat[q].status # "none"
  BY <1>1 DEF IInv, TypeOK, Untouched, ChatRow
<1>3. state[q] # "none"
  BY <1>1, <1>2 DEF state, StateOf, Statuses, Open
<1>4. UNCHANGED <<state, aboutOrder, shown>> /\ invoked' = [invoked EXCEPT ![q] = 1]
  BY <1>1 DEF state, aboutOrder, shown
<1>5. Promise!Consult(q)
  BY <1>1, <1>3, <1>4 DEF Promise!Consult
<1> QED BY <1>1, <1>5 DEF Promise!Next

LEMMA StoreRefines ==
  ASSUME IInv, NEW q \in Questions, NEW n \in Calls, Store(q, n)
  PROVE  [Promise!Next]_(Promise!vars)
<1>1. /\ chat[q].status = "running" /\ chat'[q].status = "running"
      /\ chat'[q].about = chat[q].about
      /\ chat'[q].evidence = chat[q].evidence \cup {n}
      /\ \A p \in Questions \ {q} : chat'[p] = chat[p]
      /\ invoked[q] = 1
  BY StoreFacts
<1>2. StateOf("running") = "open"
  BY DEF StateOf, Open
<1>3. state[q] = "open" /\ UNCHANGED <<state, aboutOrder>>
  BY <1>1, <1>2 DEF state, aboutOrder
<1>4. shown' = [shown EXCEPT ![q] = @ \cup {n}] /\ UNCHANGED invoked
  <2>1. shown' = [p \in Questions |-> chat'[p].evidence]
    BY DEF shown
  <2>2. [shown EXCEPT ![q] = @ \cup {n}]
          = [p \in Questions |-> IF p = q THEN chat[q].evidence \cup {n} ELSE chat[p].evidence]
    BY DEF shown
  <2>3. \A p \in Questions :
          chat'[p].evidence = IF p = q THEN chat[q].evidence \cup {n} ELSE chat[p].evidence
    BY <1>1
  <2>4. UNCHANGED invoked
    BY DEF Store
  <2> QED BY <2>1, <2>2, <2>3, <2>4
<1>5. Promise!Gather(q, n)
  BY <1>1, <1>3, <1>4 DEF Promise!Gather
<1> QED BY <1>5 DEF Promise!Next

(* Questions are given up: by one run, or by a restart. *)
LEMMA GivenUp ==
  ASSUME EndsOnly, UNCHANGED invoked,
         \A q \in Questions : chat'[q].status = "completed" => chat[q].status = "completed"
  PROVE  [Promise!Next]_(Promise!vars)
<1> DEFINE S == {q \in Questions : chat'[q] # chat[q]}
<1>1. \A q \in S : chat[q].status = "running" /\ chat'[q].status = "failed"
  BY DEF EndsOnly
<1>2. \A q \in Questions \ S : chat'[q] = chat[q]
  OBVIOUS
<1>3. S \in SUBSET Questions
  OBVIOUS
<1> HIDE DEF S
<1>4. StateOf("running") = "open" /\ StateOf("failed") = "givenUp"
  BY DEF StateOf, Open
<1>5. \A q \in S : state[q] = "open"
  BY <1>1, <1>3, <1>4 DEF state
<1>6. state' = [q \in Questions |-> IF q \in S THEN "givenUp" ELSE state[q]]
  BY <1>1, <1>2, <1>3, <1>4 DEF state
<1>7. UNCHANGED <<aboutOrder, shown>>
  BY DEF aboutOrder, shown, EndsOnly
<1>8. Promise!GiveUp(S)
  BY <1>5, <1>6, <1>7 DEF Promise!GiveUp
<1> QED BY <1>3, <1>8 DEF Promise!Next

LEMMA AnsweredRefines ==
  ASSUME IInv, NEW w \in Workers, run[w].pc = "model", Proven(w), chat' = Answered(w),
         UNCHANGED invoked
  PROVE  [Promise!Next]_(Promise!vars)
<1> DEFINE q == run[w].q
<1>1. q \in Questions /\ invoked[q] = 1
  BY DEF IInv, TypeOK, RunsOK
<1>2. \A p \in Questions :
        /\ chat'[p].evidence = chat[p].evidence
        /\ chat'[p].about = chat[p].about
        /\ \/ chat'[p] = chat[p]
           \/ /\ p = q /\ chat[p].status = "running" /\ chat'[p].status = "completed"
              /\ chat'[p].basis \subseteq chat[p].evidence
              /\ chat[p].about => chat'[p].basis # {}
  BY AnsweredFacts
<1> HIDE DEF q
<1>3. CASE chat'[q] = chat[q]
  BY <1>2, <1>3, Stutters
<1>4. CASE chat'[q] # chat[q]
  <2>1. /\ chat[q].status = "running" /\ chat'[q].status = "completed"
        /\ chat[q].about => chat[q].evidence # {}
        /\ \A p \in Questions \ {q} : chat'[p] = chat[p]
    BY <1>1, <1>2, <1>4
  <2>2. StateOf("running") = "open" /\ StateOf("completed") = "answered"
    BY DEF StateOf, Open
  <2>3. state[q] = "open" /\ state' = [state EXCEPT ![q] = "answered"]
    BY <1>1, <2>1, <2>2 DEF state
  <2>4. UNCHANGED <<aboutOrder, shown>> /\ aboutOrder[q] = chat[q].about
        /\ shown[q] = chat[q].evidence
    BY <1>1, <1>2 DEF aboutOrder, shown
  <2>5. Promise!Answer(q)
    BY <1>1, <2>1, <2>3, <2>4 DEF Promise!Answer
  <2> QED BY <1>1, <2>5 DEF Promise!Next
<1> QED BY <1>3, <1>4

LEMMA EndingRefines ==
  ASSUME IInv, NEW w \in Workers, Ending(w)
  PROVE  [Promise!Next]_(Promise!vars)
<1>1. EndsOnly /\ UNCHANGED invoked
  BY EndingEnds DEF EndsOnly
<1>2. CASE run[w].pc = "model" /\ Proven(w) /\ chat' = Answered(w)
  BY <1>1, <1>2, AnsweredRefines
<1>3. CASE UNCHANGED chat
  BY <1>1, <1>3, Stutters
<1>4. CASE Fail(w) \/ Recover(w)
  <2>1. \A q \in Questions : chat'[q].status = "completed" => chat[q].status = "completed"
    <3>1. chat \in [Questions -> ChatRow] /\ (Fail(w) => run[w].q \in Questions)
      BY DEF IInv, TypeOK, Fail
    <3>2. CASE Fail(w)
      BY <3>1, <3>2 DEF Fail, ChatRow
    <3>3. CASE Recover(w)
      BY <3>1, <3>3 DEF Recover, Interrupted, ChatRow
    <3> QED BY <1>4, <3>2, <3>3
  <2> QED BY <1>1, <2>1, GivenUp
<1>5. NoRun(w) \/ FailThrows(w) \/ Crash(w) => UNCHANGED chat
  BY DEF NoRun, FailThrows, Crash
<1> QED BY <1>2, <1>3, <1>4, <1>5 DEF Ending, Complete, RunFails

LEMMA StepRefines == IInv /\ [Next]_vars => [Promise!Next]_(Promise!vars)
<1> SUFFICES ASSUME IInv, [Next]_vars PROVE [Promise!Next]_(Promise!vars)
  OBVIOUS
<1>1. CASE \E o \in Owners, q \in Questions, about \in BOOLEAN : Ask(o, q, about)
  BY <1>1, AskRefines
<1>2. CASE \E w \in Workers : Invoke(w)
  BY <1>2, InvokeRefines
<1>3. CASE \E w \in Workers : Ending(w)
  BY <1>3, EndingRefines
<1>4. CASE \E q \in Questions, n \in Calls : Store(q, n)
  BY <1>4, StoreRefines
<1>5. CASE \E w \in Workers, q \in Questions : Claim(w, q) \/ ClaimUnanswered(w, q)
  <2>1. PICK w \in Workers, q \in Questions : TakeClaim(w, q)
    BY <1>5 DEF Claim, ClaimUnanswered
  <2>2. /\ chat \in [Questions -> ChatRow] /\ chat[q].status = "queued"
        /\ chat' = [chat EXCEPT ![q].status = "running"] /\ UNCHANGED invoked
    BY <2>1 DEF IInv, TypeOK, TakeClaim
  <2>3. StateOf("queued") = StateOf("running")
    BY DEF StateOf, Open
  <2>4. \A p \in Questions : /\ StateOf(chat'[p].status) = StateOf(chat[p].status)
                             /\ chat'[p].about = chat[p].about
                             /\ chat'[p].evidence = chat[p].evidence
    BY <2>2, <2>3 DEF ChatRow
  <2> QED BY <2>2, <2>4, Stutters
<1>6. CASE UNCHANGED <<chat, invoked>>
  BY <1>6, Stutters
<1>7. (\/ \E S \in SUBSET Owners : SetEnabled(S)
       \/ \E q \in Questions, n \in Calls : Admit(q, n) \/ EndCall(q, n)
       \/ \E w \in Workers, n \in Calls : Receive(w, n)
       \/ UNCHANGED vars) => UNCHANGED <<chat, invoked>>
  BY DEF SetEnabled, Admit, EndCall, Receive, vars
<1>8. (\E w \in Workers : \/ (Start(w) /\ UNCHANGED chatVars) \/ Signal(w) \/ Leave(w)
                          \/ (LoseLock(w) /\ UNCHANGED chatVars)) => UNCHANGED <<chat, invoked>>
  BY DEF Signal, Leave, chatVars
<1>9. CASE Next
  BY <1>1, <1>2, <1>3, <1>4, <1>5, <1>6, <1>7, <1>8, <1>9 DEF Next, Work, Fault, Ending
<1> QED BY <1>6, <1>7, <1>9

(* The queue keeps its promise for every number of questions, owners, workers and tool
   calls: the model is asked once, and the end of a question is final. *)
THEOREM Refinement == Spec => KeepsPromise
  BY InitRefines, Invariance, StepRefines, PTL DEF Spec, KeepsPromise, Promise!Spec
=============================================================================
