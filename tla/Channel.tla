------------------------------ MODULE Channel ------------------------------
(***************************************************************************)
(* Feedback that arrives over a messaging channel                          *)
(* (src/apps/zhixing-api/channel.ts, wecom.ts).                            *)
(*                                                                         *)
(* A delivery holds a connection and the lock of its event while it calls  *)
(* the business service, and records the result in the same transaction.   *)
(* The call may execute although its answer is lost, or comes after the    *)
(* deadline, and the transaction may fail after it: the sender, who is     *)
(* told that the outcome is unknown, delivers the event again, and the     *)
(* business key, which is derived from the event, finds what was done.     *)
(*                                                                         *)
(* Business and platform read the member directory while deliveries hold   *)
(* their connections; these reads have connections of their own.           *)
(*                                                                         *)
(* An event has one sender.  All bodies are written for the version that   *)
(* the order has at first; that its node does not take a feedback at that  *)
(* version (NODE_CLOSED) is as final as a version that moved on.           *)
(***************************************************************************)
EXTENDS FiniteSets, Members

CONSTANTS
  Sender,        \* the person that the sender of the channel is mapped to
  Deliveries,    \* requests, each made once
  Events,        \* event ids
  Bodies,        \* contents that a delivery may have
  PoolSize,      \* connections of the application
  DirectorySize  \* connections of createDirectoryPool

Refusals == {"FORBIDDEN", "IDEMPOTENCY_CONFLICT", "VERSION_CONFLICT"}
Unknown == "CHANNEL_DELIVERY_UNKNOWN"

ASSUME ChannelAssumption ==
  /\ Sender \in People
  /\ None \notin Events \cup Deliveries \cup Bodies \cup Refusals \cup {Unknown}
  /\ Deliveries \cap (Refusals \cup {Unknown}) = {}
  /\ PoolSize \in Nat \ {0}
  /\ DirectorySize \in Nat \ {0}

VARIABLES
  delivery,  \* local variables of receiveFeedback
  recorded,  \* channel_events
  request,   \* how far the call of each delivery got in the business service
  moved,     \* the order is no longer at the version that the bodies expect
  receipt,   \* mutations of the business service, by key
  effects    \* history: <<event, body, delivery>> of each execution

channelVars == <<delivery, recorded, request, moved, receipt, effects>>
businessVars == <<moved, receipt, effects>>
vars == <<member, save, delivery, recorded, request, moved, receipt, effects>>

Answers == Deliveries \cup Refusals \cup {Unknown, None}  \* a success names the effect
Keys == Events \X (Deliveries \cup {None})

DeliveryRow == [pc: {"new", "connect", "lock", "resolve", "calling", "record", "done"},
                event: Events \cup {None}, body: Bodies \cup {None}, answer: Answers]
Record == [body: Bodies \cup {None}, result: Deliveries \cup {None}]
NoRecord == [body |-> None, result |-> None]

ChannelTypeOK ==
  /\ delivery \in [Deliveries -> DeliveryRow]
  /\ recorded \in [Events -> Record]
  /\ request \in [Deliveries -> {"none", "sent", "reading", "admitted", "over"}]
  /\ moved \in BOOLEAN
  /\ receipt \in [Keys -> Record]
  /\ effects \subseteq Events \X Bodies \X Deliveries

TypeOK == MembersTypeOK /\ ChannelTypeOK

Init ==
  /\ MembersInit
  /\ delivery = [d \in Deliveries |-> [pc |-> "new", event |-> None, body |-> None, answer |-> None]]
  /\ recorded = [e \in Events |-> NoRecord]
  /\ request = [d \in Deliveries |-> "none"]
  /\ moved = FALSE
  /\ receipt = [k \in Keys |-> NoRecord]
  /\ effects = {}

-----------------------------------------------------------------------------
(* receiveFeedback.                                                         *)

Holding == {d \in Deliveries : delivery[d].pc \in {"lock", "resolve", "calling", "record"}}
Reading == {d \in Deliveries : request[d] = "reading"}

DirectoryFree_Shared == Cardinality(Holding) + Cardinality(Reading) < PoolSize

(* createDirectoryPool: a directory read waits for other directory reads only. *)
DirectoryFree == Cardinality(Reading) < DirectorySize

GoTo(d, pc) == delivery' = [delivery EXCEPT ![d].pc = pc]
Ended(d, answer) == [delivery[d] EXCEPT !.pc = "done", !.answer = answer]
Finish(d, answer) == delivery' = [delivery EXCEPT ![d] = Ended(d, answer)]

Deliver(d, e, b) ==
  /\ delivery[d].pc = "new"
  /\ delivery' = [delivery EXCEPT ![d] = [pc |-> "connect", event |-> e, body |-> b,
                                          answer |-> None]]
  /\ UNCHANGED <<memberVars, recorded, request, businessVars>>

Connect(d) ==
  /\ delivery[d].pc = "connect"
  /\ Cardinality(Holding) < PoolSize
  /\ GoTo(d, "lock")
  /\ UNCHANGED <<memberVars, recorded, request, businessVars>>

EventFree(e) ==
  ~\E d \in Deliveries : delivery[d].event = e /\ delivery[d].pc \in {"resolve", "calling", "record"}

SameBody_Always(row, d) == TRUE

(* existing.fingerprint = fingerprint, here and in the business service *)
SameBody(row, d) == row.body = delivery[d].body

(* The lock of the event is taken; the sender and an earlier record are looked up. *)
Lock(d) ==
  LET row == recorded[delivery[d].event]
  IN  /\ delivery[d].pc = "lock"
      /\ EventFree(delivery[d].event)
      /\ \/ ~member[Sender].enabled /\ Finish(d, "FORBIDDEN")
         \/ /\ member[Sender].enabled
            /\ row # NoRecord
            /\ Finish(d, IF SameBody(row, d) THEN row.result ELSE "IDEMPOTENCY_CONFLICT")
         \/ member[Sender].enabled /\ row = NoRecord /\ GoTo(d, "resolve")
      /\ UNCHANGED <<memberVars, recorded, request, businessVars>>

(* gateway.invoke: the installation is read and the request sent. *)
Call(d) ==
  /\ delivery[d].pc = "resolve"
  /\ DirectoryFree
  /\ GoTo(d, "calling")
  /\ request' = [request EXCEPT ![d] = "sent"]
  /\ UNCHANGED <<memberVars, recorded, businessVars>>

(* Five seconds without an answer, an answer that cannot be read, or a statement that
   fails: the transaction is rolled back.  The COMMIT may fail after it took effect. *)
GiveUp(d) ==
  /\ delivery[d].pc \in {"resolve", "calling", "record"}
  /\ Finish(d, Unknown)
  /\ \/ UNCHANGED recorded
     \/ /\ delivery[d].pc = "record"
        /\ recorded' = [recorded EXCEPT ![delivery[d].event] =
                          [body |-> delivery[d].body, result |-> delivery[d].answer]]
  /\ UNCHANGED <<memberVars, request, businessVars>>

Commit(d) ==
  /\ delivery[d].pc = "record"
  /\ recorded' = [recorded EXCEPT ![delivery[d].event] =
                    [body |-> delivery[d].body, result |-> delivery[d].answer]]
  /\ GoTo(d, "done")
  /\ UNCHANGED <<memberVars, request, businessVars>>

(* The platform dies: its transactions are rolled back, and the senders get no answer. *)
Crash ==
  /\ delivery' = [d \in Deliveries |->
                    IF delivery[d].pc \in {"new", "done"} THEN delivery[d] ELSE Ended(d, None)]
  /\ UNCHANGED <<memberVars, recorded, request, businessVars>>

-----------------------------------------------------------------------------
(* The business service.                                                    *)

At(d, from, to) == request[d] = from /\ request' = [request EXCEPT ![d] = to]

(* The answer reaches the delivery if it still waits, or is lost. *)
Reply(d, answer) ==
  \/ UNCHANGED delivery
  \/ /\ delivery[d].pc = "calling"
     /\ IF answer \in Deliveries
          THEN delivery' = [delivery EXCEPT ![d] = [@ EXCEPT !.pc = "record", !.answer = answer]]
          ELSE Finish(d, answer)

(* The directory is asked for its members. *)
AskMembers(d) ==
  /\ DirectoryFree
  /\ At(d, "sent", "reading")
  /\ UNCHANGED <<memberVars, delivery, recorded, businessVars>>

Admit(d) ==
  /\ At(d, "reading", "admitted")
  /\ member[Sender].enabled
  /\ UNCHANGED <<memberVars, delivery, recorded, businessVars>>

(* No member, or no answer of the directory. *)
Refuse(d) ==
  /\ At(d, "reading", "over")
  /\ Reply(d, "FORBIDDEN")
  /\ UNCHANGED <<memberVars, recorded, businessVars>>

Key_Delivery(d) == <<delivery[d].event, d>>

(* 'channel-'+sha256([channel,eventId]) *)
Key(d) == <<delivery[d].event, None>>

(* mutate: under the lock of the tenant, a used key is answered before the version
   and the node are looked at. *)
Replay(d) ==
  LET row == receipt[Key(d)]
  IN  /\ At(d, "admitted", "over")
      /\ row # NoRecord
      /\ Reply(d, IF SameBody(row, d) THEN row.result ELSE "IDEMPOTENCY_CONFLICT")
      /\ UNCHANGED <<memberVars, recorded, businessVars>>

Reject(d) ==
  /\ At(d, "admitted", "over")
  /\ receipt[Key(d)] = NoRecord
  /\ moved
  /\ Reply(d, "VERSION_CONFLICT")
  /\ UNCHANGED <<memberVars, recorded, businessVars>>

Execute(d) ==
  LET b == delivery[d].body
  IN  /\ At(d, "admitted", "over")
      /\ receipt[Key(d)] = NoRecord
      /\ ~moved
      /\ moved' = TRUE
      /\ receipt' = [receipt EXCEPT ![Key(d)] = [body |-> b, result |-> d]]
      /\ effects' = effects \cup {<<delivery[d].event, b, d>>}
      /\ Reply(d, d)
      /\ UNCHANGED <<memberVars, recorded>>

(* Somebody else writes the order. *)
Write ==
  /\ moved' = TRUE
  /\ UNCHANGED <<memberVars, delivery, recorded, request, receipt, effects>>

-----------------------------------------------------------------------------
Platform(d) == Connect(d) \/ Lock(d) \/ Call(d) \/ GiveUp(d) \/ Commit(d)
Business(d) == AskMembers(d) \/ Admit(d) \/ Refuse(d) \/ Replay(d) \/ Reject(d) \/ Execute(d)

Next ==
  \/ \E d \in Deliveries, e \in Events, b \in Bodies : Deliver(d, e, b)
  \/ \E d \in Deliveries : Platform(d) \/ Business(d)
  \/ Crash
  \/ Write
  \/ MembersNext /\ UNCHANGED channelVars

Spec == Init /\ [][Next]_vars

(* Connections and locks are granted in turn.  A call that was sent has a deadline of
   five seconds and a directory read ends; waiting for a connection has no deadline. *)
Granted(d) ==
  \/ Connect(d) \/ Lock(d) \/ Call(d) \/ Commit(d)
  \/ delivery[d].pc \in {"calling", "record"} /\ GiveUp(d)

FairSpec ==
  /\ Spec
  /\ \A d \in Deliveries : WF_vars(Granted(d)) /\ WF_vars(Admit(d) \/ Refuse(d))

-----------------------------------------------------------------------------
(* Properties.                                                              *)

(* However often an event is delivered, it has one effect, and everybody who is told of
   a success, now or from the record, is told of that one (channel.ts:23,
   wecom.test.ts:5). *)
OneEffectPerEvent ==
  /\ \A x, y \in effects : x[1] = y[1] => x = y
  /\ \A e \in Events : recorded[e] # NoRecord =>
       <<e, recorded[e].body, recorded[e].result>> \in effects
  /\ \A d \in Deliveries : delivery[d].answer \in Deliveries =>
       <<delivery[d].event, delivery[d].body, delivery[d].answer>> \in effects

(* A sender who is told that the order had moved on can rely on it: this
   feedback did not execute, and no call that is still under way will execute it. *)
RefusedForGood ==
  \A d \in Deliveries :
    delivery[d].pc = "done" /\ delivery[d].answer = "VERSION_CONFLICT" =>
      ~\E x \in effects : x[1] = delivery[d].event /\ x[2] = delivery[d].body

(* No delivery waits for ever, however many hold connections and locks while their
   calls wait for the directory (members.ts:6, members.test.ts:31). *)
DeliveriesSettle == \A d \in Deliveries : delivery[d].pc = "connect" ~> delivery[d].pc = "done"
=============================================================================
