-------------------------------- MODULE Chat --------------------------------
(***************************************************************************)
(* The assistant's queue (src/apps/zhixing-worker/chat.ts), the chat loop  *)
(* of the worker and the tool with which the model reads orders while it   *)
(* runs (src/apps/zhixing-api/chat-tools.ts).                              *)
(*                                                                         *)
(* A question is claimed once and never queued again: whatever interrupts  *)
(* its run fails it, for its outcome is not known.  A claim carries no     *)
(* token; what fences a late worker is only that its row must still be     *)
(* running.  A tool call goes on in the platform after its caller gave up. *)
(*                                                                         *)
(* Time is not modelled: a queued question may be claimed at any moment,   *)
(* and a token of the tool is valid as long as its question runs.          *)
(***************************************************************************)
EXTENDS Integers, FiniteSets, WorkerProcess

CONSTANTS
  Owners,     \* members (tenant and actor)
  Questions,  \* ids that the clients give their messages
  MaxCalls    \* calls of the tool in one run

ASSUME ChatAssumption == None \notin Questions /\ MaxCalls \in Nat

VARIABLES
  chat,     \* chat_messages
  enabled,  \* enabled members
  run,      \* local variables of runChat in each process
  call,     \* calls of queryChatOrders for each question
  invoked   \* history: runs of the model for each question

chatVars == <<chat, enabled, run, call, invoked>>
vars == <<lock, life, stopped, chat, enabled, run, call, invoked>>

Calls == 1..MaxCalls
Open == {"queued", "running"}
Statuses == {"none", "completed", "failed"} \cup Open

ChatRow == [status: Statuses, owner: Owners \cup {None}, about: BOOLEAN,
            evidence: SUBSET Calls, basis: SUBSET Calls]
RunRow == [pc: {"idle", "member", "model", "failing"}, q: Questions \cup {None},
           receipts: SUBSET Calls]
IdleRun == [pc |-> "idle", q |-> None, receipts |-> {}]

TypeOK ==
  /\ ProcessTypeOK
  /\ chat \in [Questions -> ChatRow]
  /\ enabled \subseteq Owners
  /\ run \in [Workers -> RunRow]
  /\ \A w \in Workers : run[w].pc # "idle" => run[w].q \in Questions
  /\ call \in [Questions -> [Calls -> {"unused", "admitted", "stored", "over"}]]
  /\ invoked \in [Questions -> Nat]

Init ==
  /\ ProcessInit
  /\ chat = [q \in Questions |-> [status |-> "none", owner |-> None, about |-> FALSE,
                                  evidence |-> {}, basis |-> {}]]
  /\ enabled = Owners
  /\ run = [w \in Workers |-> IdleRun]
  /\ call = [q \in Questions |-> [n \in Calls |-> "unused"]]
  /\ invoked = [q \in Questions |-> 0]

-----------------------------------------------------------------------------
(* The owner.                                                               *)

(* No row has this id: another submission of it is a replay or a conflict. *)
Fresh(q) == chat[q].status = "none"

(* enqueueChat, under the lock of the owner; about: the message names an order. *)
Ask(o, q, about) ==
  /\ o \in enabled
  /\ Fresh(q)
  /\ \A p \in Questions : chat[p].owner = o => chat[p].status \notin Open
  /\ chat' = [chat EXCEPT ![q] = [status |-> "queued", owner |-> o, about |-> about,
                                  evidence |-> {}, basis |-> {}]]
  /\ UNCHANGED <<processVars, enabled, run, call, invoked>>

SetEnabled(S) ==
  /\ enabled' = S
  /\ UNCHANGED <<processVars, chat, run, call, invoked>>

-----------------------------------------------------------------------------
(* runChat.                                                                 *)

TakeClaim(w, q) ==
  /\ life[w] = "up" /\ ~stopped[w]
  /\ run[w].pc = "idle"
  /\ chat[q].status = "queued"
  /\ chat' = [chat EXCEPT ![q].status = "running"]
  /\ UNCHANGED <<processVars, enabled, call, invoked>>

Claim(w, q) ==
  /\ TakeClaim(w, q)
  /\ run' = [run EXCEPT ![w] = [pc |-> "member", q |-> q, receipts |-> {}]]

(* The claim commits but its answer is lost: the loop goes on without the row. *)
ClaimUnanswered(w, q) == TakeClaim(w, q) /\ UNCHANGED run

Invoke(w) ==
  /\ run[w].pc = "member"
  /\ chat[run[w].q].owner \in enabled
  /\ run' = [run EXCEPT ![w].pc = "model"]
  /\ invoked' = [invoked EXCEPT ![run[w].q] = @ + 1]
  /\ UNCHANGED <<processVars, chat, enabled, call>>

(* The owner is no member any more, the history cannot be read, or no model is
   configured. *)
NoRun(w) ==
  /\ run[w].pc = "member"
  /\ run' = [run EXCEPT ![w].pc = "failing"]
  /\ UNCHANGED <<processVars, chat, enabled, call, invoked>>

Owned_Always(q) == TRUE

(* WHERE id=$1 AND status='running' *)
Owned(q) == chat[q].status = "running"

Proven_Always(w) == TRUE

(* EVIDENCE_REQUIRED: an answer about an order needs a receipt of the tool. *)
Proven(w) == chat[run[w].q].about => run[w].receipts # {}

Answered(w) ==
  IF Owned(run[w].q)
    THEN [chat EXCEPT ![run[w].q] = [@ EXCEPT !.status = "completed", !.basis = run[w].receipts]]
    ELSE chat

Complete(w) ==
  /\ run[w].pc = "model"
  /\ Proven(w)
  /\ chat' = Answered(w)
  /\ run' = [run EXCEPT ![w] = IdleRun]
  /\ UNCHANGED <<processVars, enabled, call, invoked>>

(* The model fails, takes too long, is aborted or says nothing that may be shown, or
   the UPDATE throws, before its commit or after it. *)
RunFails(w) ==
  /\ run[w].pc = "model"
  /\ \/ UNCHANGED chat
     \/ Proven(w) /\ chat' = Answered(w)
  /\ run' = [run EXCEPT ![w].pc = "failing"]
  /\ UNCHANGED <<processVars, enabled, call, invoked>>

(* The UPDATE of the catch block. *)
Fail(w) ==
  /\ run[w].pc = "failing"
  /\ chat' = IF Owned(run[w].q) THEN [chat EXCEPT ![run[w].q].status = "failed"] ELSE chat
  /\ run' = [run EXCEPT ![w] = IdleRun]
  /\ UNCHANGED <<processVars, enabled, call, invoked>>

(* It throws: the row stays running, and the loop goes on. *)
FailThrows(w) ==
  /\ run[w].pc = "failing"
  /\ Owned(run[w].q)
  /\ run' = [run EXCEPT ![w] = IdleRun]
  /\ UNCHANGED <<processVars, chat, enabled, call, invoked>>

Interrupted_Kept == "running"

(* WORKER_RESTARTED: what a starting worker makes of the rows that are running. *)
Interrupted == "failed"

Recover(w) ==
  /\ BeginLoops(w)
  /\ chat' = [q \in Questions |-> IF chat[q].status = "running"
                                    THEN [chat[q] EXCEPT !.status = Interrupted] ELSE chat[q]]
  /\ UNCHANGED <<enabled, run, call, invoked>>

-----------------------------------------------------------------------------
(* queryChatOrders, called by the model with the token of its question.     *)

Advance(q, n, stage) == call' = [call EXCEPT ![q][n] = stage]

(* The question runs and its owner is enabled: the orders are read. *)
Admit(q, n) ==
  /\ call[q][n] = "unused"
  /\ invoked[q] > 0
  /\ chat[q].status = "running"
  /\ chat[q].owner \in enabled
  /\ Advance(q, n, "admitted")
  /\ UNCHANGED <<processVars, chat, enabled, run, invoked>>

(* The UPDATE asks again: the question may have ended while the orders were read. *)
Storable(q) == chat[q].status = "running"

Store(q, n) ==
  /\ call[q][n] = "admitted"
  /\ Storable(q)
  /\ chat' = [chat EXCEPT ![q].evidence = @ \cup {n}]
  /\ Advance(q, n, "stored")
  /\ UNCHANGED <<processVars, enabled, run, invoked>>

(* FORBIDDEN, or the orders cannot be read; or the caller gave up after ten seconds
   or is gone, so that nobody takes the answer. *)
EndCall(q, n) ==
  /\ call[q][n] \in {"admitted", "stored"}
  /\ Advance(q, n, "over")
  /\ UNCHANGED <<processVars, chat, enabled, run, invoked>>

(* The answer arrives and the receipt is written. *)
Receive(w, n) ==
  LET q == run[w].q
  IN  /\ run[w].pc = "model"
      /\ call[q][n] = "stored"
      /\ run' = [run EXCEPT ![w].receipts = @ \cup {n}]
      /\ Advance(q, n, "over")
      /\ UNCHANGED <<processVars, chat, enabled, invoked>>

-----------------------------------------------------------------------------
(* The process.                                                             *)

Signal(w) == Stop(w) /\ UNCHANGED chatVars

Leave(w) ==
  /\ run[w].pc = "idle"
  /\ Exit(w)
  /\ UNCHANGED chatVars

Crash(w) ==
  /\ ~(life[w] = "up" /\ stopped[w] /\ run[w].pc = "idle")
  /\ Die(w)
  /\ run' = [run EXCEPT ![w] = IdleRun]
  /\ UNCHANGED <<chat, enabled, call, invoked>>

Fault ==
  \E w \in Workers :
    \/ FailThrows(w) \/ Crash(w) \/ (LoseLock(w) /\ UNCHANGED chatVars)
    \/ \E q \in Questions : ClaimUnanswered(w, q)

Work(w) ==
  Recover(w) \/ Invoke(w) \/ NoRun(w) \/ Complete(w) \/ RunFails(w) \/ Fail(w) \/ Leave(w)

Next ==
  \/ \E o \in Owners, q \in Questions, about \in BOOLEAN : Ask(o, q, about)
  \/ \E S \in SUBSET Owners : SetEnabled(S)
  \/ \E w \in Workers : (Start(w) /\ UNCHANGED chatVars) \/ Signal(w) \/ Work(w)
  \/ \E w \in Workers, q \in Questions : Claim(w, q)
  \/ \E q \in Questions, n \in Calls : Admit(q, n) \/ Store(q, n) \/ EndCall(q, n)
  \/ \E w \in Workers, n \in Calls : Receive(w, n)
  \/ Fault

Spec == Init /\ [][Next]_vars

(* A process manager restarts the worker, a run of the model has a deadline, and
   questions are claimed in the order in which they were asked. *)
FairSpec ==
  /\ Spec
  /\ WF_vars(\E w \in Workers : Start(w) /\ UNCHANGED chatVars)
  /\ \A w \in Workers : WF_vars(Work(w))
  /\ \A q \in Questions : SF_vars(\E w \in Workers : Claim(w, q))

-----------------------------------------------------------------------------
(* The abstract view.                                                       *)
StateOf(status) ==
  CASE status \in Open -> "open"
    [] status = "completed" -> "answered"
    [] status = "failed" -> "givenUp"
    [] OTHER -> "none"

state == [q \in Questions |-> StateOf(chat[q].status)]
aboutOrder == [q \in Questions |-> chat[q].about]
shown == [q \in Questions |-> chat[q].evidence]

Promise == INSTANCE ChatPromise WITH consulted <- invoked, Evidence <- Calls

(* The queue keeps the promise of ChatPromise: submitted again, interrupted or
   overtaken by a late worker, a question is not run twice, and what it ended with
   stays, its evidence included (chat.test.ts:4, AssistantDock.tsx:12). *)
KeepsPromise == Promise!Spec

-----------------------------------------------------------------------------
(* Properties.                                                              *)

(* Every order that an answer rests on is kept with the question: an answer about an
   order has a source that its reader can open, also when calls of the tool were
   abandoned or ended after their question (chat.ts:14, chat-tools.ts:12). *)
AnswersShowEvidence ==
  \A q \in Questions : chat[q].status = "completed" =>
    /\ chat[q].basis \subseteq chat[q].evidence
    /\ chat[q].about => chat[q].basis # {}

(* A claim whose run has ended, or whose process is gone. *)
Orphan(q) ==
  /\ chat[q].status = "running"
  /\ ~\E w \in Workers : run[w].pc # "idle" /\ run[w].q = q

(* Once faults stop, every question ends and its owner may ask the next one, even if
   signals go on restarting workers; a row that a fault left running needs such a
   restart, for nothing else ends it (server.ts:40). *)
QuestionsEnd ==
  (/\ <>[][~Fault]_vars
   /\ \/ <>[](\A q \in Questions : ~Orphan(q))
      \/ []<><<\E w \in Workers : Recover(w)>>_vars)
  => \A q \in Questions : chat[q].status # "none" ~> chat[q].status \in {"completed", "failed"}
=============================================================================
