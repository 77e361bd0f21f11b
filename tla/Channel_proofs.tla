--------------------------- MODULE Channel_proofs ---------------------------
(***************************************************************************)
(* Proofs about channel deliveries and the member directory, for every     *)
(* number of people, requests, deliveries, events and connections.         *)
(***************************************************************************)
EXTENDS Channel, TLAPS

-----------------------------------------------------------------------------
(* The member directory.                                                    *)

(* The lock: one request is between its reading and its commit. *)
OneSave == \A s, t \in Saves : save[s].target # None /\ save[t].target # None => s = t

(* What it decided on still holds. *)
SavesKeep == \A s \in Saves : save[s].target # None => KeepsManager(save[s].target, save[s].row)

MembersInv == MembersTypeOK /\ OneSave /\ SavesKeep /\ ManagerRemains

LEMMA MembersInitially == MembersInit => MembersInv
  BY DEF MembersInit, MembersInv, MembersTypeOK, OneSave, SavesKeep, ManagerRemains, IdleSave,
         NoMember, Nobody, SaveRow, MemberRow

LEMMA BeginKeeps ==
  ASSUME MembersInv, NEW s \in Saves, NEW actor \in People, NEW target \in People,
         NEW role \in {"manager", "member"}, NEW enabled \in BOOLEAN,
         BeginSave(s, actor, target, role, enabled)
  PROVE  MembersInv'
<1> DEFINE row == [role |-> role, enabled |-> enabled, version |-> member[target].version + 1]
           new == [target |-> target, row |-> row]
<1>1. /\ LockFree
      /\ row.version <= MaxMemberVersion
      /\ KeepsManager(target, row)
      /\ save' = [save EXCEPT ![s] = new]
      /\ UNCHANGED member
  BY DEF BeginSave
<1>2. member[target].version \in Nat
  BY MembersAssumption DEF MembersInv, MembersTypeOK, MemberRow, NoMember
<1>3. row \in MemberRow
  BY <1>1, <1>2, MembersAssumption DEF MemberRow
<1>4. save' \in [Saves -> SaveRow] /\ save'[s] = new /\ \A t \in Saves \ {s} : save'[t] = save[t]
  BY <1>1, <1>3 DEF MembersInv, MembersTypeOK, SaveRow
<1> HIDE DEF row
<1>5. MembersTypeOK'
  BY <1>1, <1>4 DEF MembersInv, MembersTypeOK
<1>6. \A t \in Saves : save'[t].target # None => t = s
  BY <1>1, <1>4 DEF LockFree
<1>7. OneSave' /\ SavesKeep'
  <2>1. Manages(row) \/ \E p \in People \ {target} : Manages(member'[p])
    BY <1>1 DEF KeepsManager
  <2>2. save'[s].target = target /\ save'[s].row = row
    BY <1>4
  <2>3. SavesKeep'
    BY <2>1, <2>2, <1>6 DEF SavesKeep, KeepsManager, Manages
  <2> QED BY <2>3, <1>6 DEF OneSave
<1>8. ManagerRemains'
  BY <1>1 DEF MembersInv, ManagerRemains, Nobody, Manages
<1> QED BY <1>5, <1>6, <1>7, <1>8 DEF MembersInv

LEMMA CommitKeeps ==
  ASSUME MembersInv, NEW s \in Saves, CommitSave(s)
  PROVE  MembersInv'
<1> DEFINE target == save[s].target
           row == save[s].row
<1>1. /\ target # None
      /\ member' = [member EXCEPT ![target] = row]
      /\ save' = [save EXCEPT ![s] = IdleSave]
  BY DEF CommitSave
<1>2. target \in People /\ row \in MemberRow
  BY <1>1 DEF MembersInv, MembersTypeOK, SaveRow
<1>3. member' \in [People -> MemberRow] /\ member'[target] = row
      /\ \A p \in People \ {target} : member'[p] = member[p]
  BY <1>1, <1>2 DEF MembersInv, MembersTypeOK
<1>4. save' \in [Saves -> SaveRow]
  BY <1>1 DEF MembersInv, MembersTypeOK, SaveRow, IdleSave, NoMember, MemberRow
<1>5. \A t \in Saves : save'[t].target = None
  <2>1. save'[s] = IdleSave /\ \A t \in Saves \ {s} : save'[t] = save[t]
    BY <1>1 DEF MembersInv, MembersTypeOK
  <2>2. \A t \in Saves \ {s} : save[t].target = None
    BY <1>1 DEF MembersInv, OneSave
  <2> QED BY <2>1, <2>2 DEF IdleSave
<1>6. KeepsManager(target, row)
  BY <1>1 DEF MembersInv, SavesKeep
<1> HIDE DEF target, row
<1>7. MembersTypeOK' /\ OneSave' /\ SavesKeep'
  BY <1>3, <1>4, <1>5 DEF MembersTypeOK, OneSave, SavesKeep
<1>8. ManagerRemains'
  BY <1>2, <1>3, <1>6 DEF ManagerRemains, KeepsManager, Manages
<1> QED BY <1>7, <1>8 DEF MembersInv

LEMMA RollBackKeeps ==
  ASSUME MembersInv, NEW s \in Saves, RollBackSave(s)
  PROVE  MembersInv'
<1>1. save' \in [Saves -> SaveRow] /\ member' = member
  BY DEF MembersInv, MembersTypeOK, RollBackSave, SaveRow, IdleSave, NoMember, MemberRow
<1>2. \A t \in Saves : save'[t].target # None => save'[t] = save[t]
  BY DEF MembersInv, MembersTypeOK, RollBackSave, IdleSave
<1> QED BY <1>1, <1>2 DEF MembersInv, MembersTypeOK, OneSave, SavesKeep, KeepsManager, Manages,
                          ManagerRemains, Nobody

LEMMA MembersStep == MembersInv /\ [MembersNext]_memberVars => MembersInv'
<1> SUFFICES ASSUME MembersInv, [MembersNext]_memberVars
             PROVE  MembersInv'
  OBVIOUS
<1>1. CASE MembersNext
  BY <1>1, BeginKeeps, CommitKeeps, RollBackKeeps DEF MembersNext
<1>2. CASE UNCHANGED memberVars
  BY <1>2 DEF memberVars, MembersInv, MembersTypeOK, OneSave, SavesKeep, KeepsManager, Manages,
              ManagerRemains, Nobody
<1> QED BY <1>1, <1>2

-----------------------------------------------------------------------------
(* Deliveries.                                                              *)

(* What a delivery knows: whom it is from; the effect it was told of; that a version that
   moved on will not take its event any more. *)
RowTrue(d) ==
  LET row == delivery[d]
  IN  /\ row.pc # "new" => row.event \in Events /\ row.body \in Bodies
      /\ request[d] # "none" => row.pc # "new"
      /\ row.pc = "record" => row.answer \in Deliveries
      /\ row.answer \in Deliveries => <<row.event, row.body, row.answer>> \in effects
      /\ row.answer = "VERSION_CONFLICT" => moved /\ receipt[<<row.event, None>>] = NoRecord

RowsTrue == \A d \in Deliveries : RowTrue(d)

RecordsTrue ==
  \A e \in Events : recorded[e] # NoRecord =>
    <<e, recorded[e].body, recorded[e].result>> \in effects

(* The receipt of an event is its effect. *)
ReceiptsTrue ==
  /\ \A e \in Events : receipt[<<e, None>>] # NoRecord =>
       <<e, receipt[<<e, None>>].body, receipt[<<e, None>>].result>> \in effects
  /\ \A e \in Events, b \in Bodies, d \in Deliveries : <<e, b, d>> \in effects =>
       receipt[<<e, None>>] = [body |-> b, result |-> d]

ChannelInv == ChannelTypeOK /\ RowsTrue /\ RecordsTrue /\ ReceiptsTrue

(* The order did not move back, and receipts are written while it has not moved. *)
Grows ==
  /\ effects \subseteq effects'
  /\ moved => moved' /\ receipt' = receipt

LEMMA ReceiptTyped == ASSUME ChannelTypeOK, NEW e \in Events
                      PROVE  <<e, None>> \in Keys /\ receipt[<<e, None>>] \in Record
  BY DEF ChannelTypeOK, Keys

LEMMA ChannelInitially == Init => ChannelInv
<1> SUFFICES ASSUME Init PROVE ChannelInv
  OBVIOUS
<1>1. ChannelTypeOK
  BY DEF Init, ChannelTypeOK, DeliveryRow, Record, NoRecord, Answers, Keys
<1>2. RowsTrue
  BY ChannelAssumption DEF Init, RowsTrue, RowTrue, Refusals
<1>3. RecordsTrue /\ ReceiptsTrue
  BY DEF Init, RecordsTrue, ReceiptsTrue, Keys
<1> QED BY <1>1, <1>2, <1>3 DEF ChannelInv

LEMMA RowStays ==
  ASSUME NEW d \in Deliveries, RowTrue(d), Grows, delivery'[d] = delivery[d],
         request'[d] # "none" => delivery[d].pc # "new"
  PROVE  RowTrue(d)'
  BY DEF RowTrue, Grows, NoRecord

(* What a delivery may become, by what it is told. *)
May(d, row) ==
  /\ row \in DeliveryRow
  /\ row.pc # "new"
  /\ row.event = delivery[d].event
  /\ row.body = delivery[d].body
  /\ row.pc = "record" => row.answer \in Deliveries

Told(d, answer) ==
  /\ answer \in Deliveries => <<delivery[d].event, delivery[d].body, answer>> \in effects
  /\ answer = "VERSION_CONFLICT" =>
       moved /\ receipt[<<delivery[d].event, None>>] = NoRecord

(* A step of one delivery that leaves the business service alone. *)
LEMMA DeliverySteps ==
  ASSUME ChannelInv, NEW d \in Deliveries, NEW row, May(d, row), Told(d, row.answer),
         delivery[d].pc # "new",
         delivery' = [delivery EXCEPT ![d] = row],
         request' \in [Deliveries -> {"none", "sent", "reading", "admitted", "over"}],
         \A c \in Deliveries \ {d} : request'[c] = request[c],
         recorded' \in [Events -> Record],
         RecordsTrue',
         UNCHANGED businessVars
  PROVE  ChannelInv'
<1> USE DEF businessVars
<1>1. delivery' \in [Deliveries -> DeliveryRow] /\ delivery'[d] = row
      /\ \A c \in Deliveries \ {d} : delivery'[c] = delivery[c]
  BY DEF ChannelInv, ChannelTypeOK, May
<1>2. ChannelTypeOK'
  BY <1>1 DEF ChannelInv, ChannelTypeOK
<1>3. RowsTrue'
  <2>1. RowTrue(d)'
    BY <1>1 DEF ChannelInv, RowsTrue, RowTrue, May, Told, NoRecord
  <2>2. ASSUME NEW c \in Deliveries, c # d PROVE RowTrue(c)'
    <3>1. Grows
      BY DEF Grows
    <3>2. RowTrue(c)
      BY DEF ChannelInv, RowsTrue
    <3>3. request'[c] # "none" => delivery[c].pc # "new"
      BY <2>2, <3>2 DEF RowTrue
    <3> QED BY <1>1, <2>2, <3>1, <3>2, <3>3, RowStays
  <2> QED BY <2>1, <2>2 DEF RowsTrue
<1>4. ReceiptsTrue'
  BY DEF ChannelInv, ReceiptsTrue, NoRecord
<1> QED BY <1>2, <1>3, <1>4 DEF ChannelInv

LEMMA Same == ASSUME ChannelInv, UNCHANGED <<recorded, effects>>
              PROVE  RecordsTrue' /\ recorded' \in [Events -> Record]
  BY DEF ChannelInv, ChannelTypeOK, RecordsTrue, NoRecord

(* A delivery goes on, or ends with an answer that names no effect. *)
LEMMA GoesOn ==
  ASSUME ChannelInv, NEW d \in Deliveries, delivery[d].pc # "new",
         NEW pc \in {"connect", "lock", "resolve", "calling", "done"}
  PROVE  /\ May(d, [delivery[d] EXCEPT !.pc = pc])
         /\ Told(d, [delivery[d] EXCEPT !.pc = pc].answer)
<1>1. delivery[d] \in DeliveryRow
  BY DEF ChannelInv, ChannelTypeOK
<1>2. RowTrue(d)
  BY DEF ChannelInv, RowsTrue
<1>3. /\ [delivery[d] EXCEPT !.pc = pc] \in DeliveryRow
      /\ [delivery[d] EXCEPT !.pc = pc].pc = pc
      /\ [delivery[d] EXCEPT !.pc = pc].event = delivery[d].event
      /\ [delivery[d] EXCEPT !.pc = pc].body = delivery[d].body
      /\ [delivery[d] EXCEPT !.pc = pc].answer = delivery[d].answer
  BY <1>1 DEF DeliveryRow
<1> QED BY <1>2, <1>3 DEF May, Told, RowTrue

LEMMA EndedRow ==
  ASSUME ChannelInv, NEW d \in Deliveries, NEW answer \in Answers
  PROVE  May(d, Ended(d, answer)) /\ Ended(d, answer).answer = answer
<1>1. delivery[d] \in DeliveryRow
  BY DEF ChannelInv, ChannelTypeOK
<1>2. /\ Ended(d, answer) \in DeliveryRow
      /\ Ended(d, answer).pc = "done"
      /\ Ended(d, answer).event = delivery[d].event
      /\ Ended(d, answer).body = delivery[d].body
      /\ Ended(d, answer).answer = answer
  BY <1>1 DEF DeliveryRow, Ended
<1> QED BY <1>2 DEF May

(* An answer that is no success and no conflict of versions tells nothing. *)
LEMMA Harmless ==
  ASSUME NEW d, NEW answer \in {"FORBIDDEN", "IDEMPOTENCY_CONFLICT", Unknown, None}
  PROVE  Told(d, answer) /\ answer \in Answers
  BY ChannelAssumption DEF Told, Answers, Refusals, Unknown

(* A success that was found with the body of this delivery. *)
LEMMA Found ==
  ASSUME NEW d \in Deliveries, NEW row, SameBody(row, d), row.result \in Deliveries,
         <<delivery[d].event, row.body, row.result>> \in effects
  PROVE  Told(d, row.result) /\ row.result \in Answers
  BY ChannelAssumption DEF Told, SameBody, Answers, Refusals

LEMMA ResultIsDelivery ==
  ASSUME ChannelInv, NEW e, NEW b, NEW d, <<e, b, d>> \in effects
  PROVE  e \in Events /\ b \in Bodies /\ d \in Deliveries
  BY DEF ChannelInv, ChannelTypeOK

LEMMA LockStep ==
  ASSUME ChannelInv, NEW d \in Deliveries, Lock(d)
  PROVE  ChannelInv'
<1> DEFINE found == recorded[delivery[d].event]
<1>1. /\ delivery[d].pc = "lock"
      /\ UNCHANGED <<recorded, request, businessVars>>
      /\ \/ Finish(d, "FORBIDDEN")
         \/ found # NoRecord /\ Finish(d, IF SameBody(found, d) THEN found.result
                                                               ELSE "IDEMPOTENCY_CONFLICT")
         \/ GoTo(d, "resolve")
  BY DEF Lock
<1>2. delivery[d].event \in Events
  BY <1>1 DEF ChannelInv, RowsTrue, RowTrue
<1>3. RecordsTrue' /\ recorded' \in [Events -> Record]
  BY <1>1, Same DEF businessVars
<1>4. request' \in [Deliveries -> {"none", "sent", "reading", "admitted", "over"}]
      /\ \A c \in Deliveries \ {d} : request'[c] = request[c]
  BY <1>1 DEF ChannelInv, ChannelTypeOK
<1>5. ASSUME NEW answer \in Answers, Told(d, answer), Finish(d, answer)
      PROVE  ChannelInv'
  BY <1>1, <1>3, <1>4, <1>5, EndedRow, DeliverySteps DEF Finish
<1>6. CASE Finish(d, "FORBIDDEN")
  BY <1>5, <1>6, Harmless
<1>7. CASE found # NoRecord /\ Finish(d, IF SameBody(found, d) THEN found.result
                                                            ELSE "IDEMPOTENCY_CONFLICT")
  <2>1. <<delivery[d].event, found.body, found.result>> \in effects
    BY <1>2, <1>7 DEF ChannelInv, RecordsTrue
  <2>2. found.result \in Deliveries
    BY <2>1, ResultIsDelivery
  <2>3. CASE SameBody(found, d)
    <3>1. Told(d, found.result) /\ found.result \in Answers
      BY <2>1, <2>2, <2>3, Found
    <3>2. Finish(d, found.result)
      BY <1>7, <2>3
    <3> QED BY <3>1, <3>2, <1>5
  <2>4. CASE ~SameBody(found, d)
    BY <1>5, <1>7, <2>4, Harmless
  <2> QED BY <2>3, <2>4
<1>8. CASE GoTo(d, "resolve")
  BY <1>1, <1>3, <1>4, <1>8, GoesOn, DeliverySteps DEF GoTo
<1> QED BY <1>1, <1>6, <1>7, <1>8

(* What a delivery records is the effect that it was told of. *)
LEMMA RecordStep ==
  ASSUME ChannelInv, NEW d \in Deliveries, delivery[d].pc = "record", UNCHANGED effects,
         recorded' = [recorded EXCEPT ![delivery[d].event] =
                        [body |-> delivery[d].body, result |-> delivery[d].answer]]
  PROVE  RecordsTrue' /\ recorded' \in [Events -> Record]
<1>1. /\ delivery[d].event \in Events
      /\ delivery[d].body \in Bodies
      /\ delivery[d].answer \in Deliveries
      /\ <<delivery[d].event, delivery[d].body, delivery[d].answer>> \in effects
  BY DEF ChannelInv, RowsTrue, RowTrue
<1>2. recorded' \in [Events -> Record]
  BY <1>1 DEF ChannelInv, ChannelTypeOK, Record
<1>3. /\ recorded'[delivery[d].event].body = delivery[d].body
      /\ recorded'[delivery[d].event].result = delivery[d].answer
      /\ \A e \in Events \ {delivery[d].event} : recorded'[e] = recorded[e]
  BY <1>1 DEF ChannelInv, ChannelTypeOK
<1>4. RecordsTrue'
  BY <1>1, <1>3 DEF ChannelInv, RecordsTrue, NoRecord
<1> QED BY <1>2, <1>4

LEMMA PlatformStep ==
  ASSUME ChannelInv, NEW d \in Deliveries, Platform(d)
  PROVE  ChannelInv'
<1>1. ASSUME UNCHANGED request
      PROVE  request' \in [Deliveries -> {"none", "sent", "reading", "admitted", "over"}]
             /\ \A c \in Deliveries \ {d} : request'[c] = request[c]
  BY <1>1 DEF ChannelInv, ChannelTypeOK
<1>2. CASE Connect(d)
  <2>1. /\ delivery[d].pc = "connect" /\ GoTo(d, "lock")
        /\ UNCHANGED <<recorded, request, businessVars>>
    BY <1>2 DEF Connect
  <2> QED BY <2>1, <1>1, Same, GoesOn, DeliverySteps DEF GoTo, businessVars
<1>3. CASE Lock(d)
  BY <1>3, LockStep
<1>4. CASE Call(d)
  <2>1. /\ delivery[d].pc = "resolve" /\ GoTo(d, "calling")
        /\ request' = [request EXCEPT ![d] = "sent"]
        /\ UNCHANGED <<recorded, businessVars>>
    BY <1>4 DEF Call
  <2>2. request' \in [Deliveries -> {"none", "sent", "reading", "admitted", "over"}]
        /\ \A c \in Deliveries \ {d} : request'[c] = request[c]
    BY <2>1 DEF ChannelInv, ChannelTypeOK
  <2> QED BY <2>1, <2>2, Same, GoesOn, DeliverySteps DEF GoTo, businessVars
<1>5. CASE GiveUp(d)
  <2>1. /\ delivery[d].pc \in {"resolve", "calling", "record"}
        /\ delivery' = [delivery EXCEPT ![d] = Ended(d, Unknown)]
        /\ UNCHANGED <<request, businessVars>>
    BY <1>5 DEF GiveUp, Finish
  <2>2. May(d, Ended(d, Unknown)) /\ Told(d, Ended(d, Unknown).answer)
    BY Harmless, EndedRow
  <2>3. RecordsTrue' /\ recorded' \in [Events -> Record]
    BY <1>5, <2>1, Same, RecordStep DEF GiveUp, businessVars
  <2> QED BY <2>1, <2>2, <2>3, <1>1, DeliverySteps
<1>6. CASE Commit(d)
  <2>1. /\ delivery[d].pc = "record" /\ GoTo(d, "done")
        /\ UNCHANGED <<request, businessVars>>
    BY <1>6 DEF Commit
  <2>2. RecordsTrue' /\ recorded' \in [Events -> Record]
    BY <1>6, <2>1, RecordStep DEF Commit, businessVars
  <2> QED BY <2>1, <2>2, <1>1, GoesOn, DeliverySteps DEF GoTo
<1> QED BY <1>2, <1>3, <1>4, <1>5, <1>6 DEF Platform

-----------------------------------------------------------------------------
(* The business service.                                                    *)

LEMMA AtTyped ==
  ASSUME ChannelInv, NEW d \in Deliveries, NEW from \in {"sent", "reading", "admitted"},
         NEW to \in {"reading", "admitted", "over"}, At(d, from, to)
  PROVE  /\ delivery[d].pc # "new"
         /\ delivery[d].event \in Events /\ delivery[d].body \in Bodies
         /\ request' \in [Deliveries -> {"none", "sent", "reading", "admitted", "over"}]
         /\ \A c \in Deliveries \ {d} : request'[c] = request[c]
<1>1. request[d] = from /\ request' = [request EXCEPT ![d] = to]
  BY DEF At
<1>2. RowTrue(d)
  BY DEF ChannelInv, RowsTrue
<1>3. delivery[d].pc # "new" /\ delivery[d].event \in Events /\ delivery[d].body \in Bodies
  BY <1>1, <1>2 DEF RowTrue
<1> QED BY <1>1, <1>3 DEF ChannelInv, ChannelTypeOK

(* The delivery hears of the answer, or does not. *)
LEMMA ReplyRow ==
  ASSUME ChannelInv, NEW d \in Deliveries, delivery[d].pc # "new", NEW answer \in Answers,
         Reply(d, answer)
  PROVE  \E row : /\ May(d, row)
                  /\ delivery' = [delivery EXCEPT ![d] = row]
                  /\ row = delivery[d] \/ row.answer = answer
<1>1. delivery \in [Deliveries -> DeliveryRow] /\ delivery[d] \in DeliveryRow
  BY DEF ChannelInv, ChannelTypeOK
<1>2. CASE UNCHANGED delivery
  <2>1. May(d, delivery[d])
    BY <1>1 DEF May, ChannelInv, RowsTrue, RowTrue
  <2>2. delivery' = [delivery EXCEPT ![d] = delivery[d]]
    BY <1>1, <1>2
  <2> QED BY <2>1, <2>2
<1>3. CASE answer \in Deliveries
           /\ delivery' = [delivery EXCEPT ![d] = [@ EXCEPT !.pc = "record", !.answer = answer]]
  <2> DEFINE row == [delivery[d] EXCEPT !.pc = "record", !.answer = answer]
  <2>1. /\ row \in DeliveryRow /\ row.pc = "record" /\ row.answer = answer
        /\ row.event = delivery[d].event /\ row.body = delivery[d].body
    BY <1>1 DEF DeliveryRow
  <2>2. delivery' = [delivery EXCEPT ![d] = row]
    BY <1>3
  <2>3. May(d, row)
    BY <1>3, <2>1 DEF May
  <2> QED BY <2>1, <2>2, <2>3
<1>4. CASE Finish(d, answer)
  BY <1>4, EndedRow DEF Finish
<1> QED BY <1>2, <1>3, <1>4 DEF Reply

(* An answer that changes nothing in the business service. *)
LEMMA ReplyStep ==
  ASSUME ChannelInv, NEW d \in Deliveries, delivery[d].pc # "new", NEW answer \in Answers,
         Told(d, answer), Reply(d, answer),
         request' \in [Deliveries -> {"none", "sent", "reading", "admitted", "over"}],
         \A c \in Deliveries \ {d} : request'[c] = request[c],
         UNCHANGED <<recorded, businessVars>>
  PROVE  ChannelInv'
<1>1. PICK row : /\ May(d, row)
                 /\ delivery' = [delivery EXCEPT ![d] = row]
                 /\ row = delivery[d] \/ row.answer = answer
  BY ReplyRow
<1>2. Told(d, row.answer)
  BY <1>1 DEF ChannelInv, RowsTrue, RowTrue, Told
<1>3. RecordsTrue' /\ recorded' \in [Events -> Record]
  BY Same DEF businessVars
<1> QED BY <1>1, <1>2, <1>3, DeliverySteps

LEMMA ReplayStep ==
  ASSUME ChannelInv, NEW d \in Deliveries, Replay(d)
  PROVE  ChannelInv'
<1> DEFINE found == receipt[Key(d)]
<1>1. /\ At(d, "admitted", "over")
      /\ found # NoRecord
      /\ Reply(d, IF SameBody(found, d) THEN found.result ELSE "IDEMPOTENCY_CONFLICT")
      /\ UNCHANGED <<recorded, businessVars>>
  BY DEF Replay
<1>2. /\ delivery[d].pc # "new" /\ delivery[d].event \in Events
      /\ request' \in [Deliveries -> {"none", "sent", "reading", "admitted", "over"}]
      /\ \A c \in Deliveries \ {d} : request'[c] = request[c]
  BY <1>1, AtTyped
<1>3. <<delivery[d].event, found.body, found.result>> \in effects
  BY <1>1, <1>2 DEF ChannelInv, ReceiptsTrue, Key
<1>4. found.result \in Deliveries
  BY <1>3, ResultIsDelivery
<1>5. CASE SameBody(found, d)
  <2>1. Told(d, found.result) /\ found.result \in Answers
    BY <1>3, <1>4, <1>5, Found
  <2>2. Reply(d, found.result)
    BY <1>1, <1>5
  <2> QED BY <1>1, <1>2, <2>1, <2>2, ReplyStep
<1>6. CASE ~SameBody(found, d)
  <2>1. Reply(d, "IDEMPOTENCY_CONFLICT")
    BY <1>1, <1>6
  <2>2. Told(d, "IDEMPOTENCY_CONFLICT") /\ "IDEMPOTENCY_CONFLICT" \in Answers
    BY Harmless
  <2> QED BY <1>1, <1>2, <2>1, <2>2, ReplyStep
<1> QED BY <1>5, <1>6

LEMMA ExecuteStep ==
  ASSUME ChannelInv, NEW d \in Deliveries, Execute(d)
  PROVE  ChannelInv'
<1> DEFINE e == delivery[d].event
           b == delivery[d].body
<1>1. /\ At(d, "admitted", "over")
      /\ receipt[<<e, None>>] = NoRecord
      /\ ~moved
      /\ moved' = TRUE
      /\ receipt' = [receipt EXCEPT ![<<e, None>>] = [body |-> b, result |-> d]]
      /\ effects' = effects \cup {<<e, b, d>>}
      /\ Reply(d, d)
      /\ UNCHANGED recorded
  BY DEF Execute, Key
<1>2. /\ delivery[d].pc # "new" /\ e \in Events /\ b \in Bodies
      /\ request' \in [Deliveries -> {"none", "sent", "reading", "admitted", "over"}]
      /\ \A c \in Deliveries \ {d} : request'[c] = request[c]
  BY <1>1, AtTyped
<1>3. d \in Answers
  BY DEF Answers
<1>4. PICK row : /\ May(d, row)
                 /\ delivery' = [delivery EXCEPT ![d] = row]
                 /\ row = delivery[d] \/ row.answer = d
  BY <1>1, <1>2, <1>3, ReplyRow
<1>5. delivery' \in [Deliveries -> DeliveryRow] /\ delivery'[d] = row
      /\ \A c \in Deliveries \ {d} : delivery'[c] = delivery[c]
  BY <1>4 DEF ChannelInv, ChannelTypeOK, May
<1>6. receipt' \in [Keys -> Record] /\ receipt'[<<e, None>>] = [body |-> b, result |-> d]
      /\ \A k \in Keys \ {<<e, None>>} : receipt'[k] = receipt[k]
  BY <1>1, <1>2 DEF ChannelInv, ChannelTypeOK, Keys, Record
<1>7. ChannelTypeOK'
  <2>1. effects' \subseteq Events \X Bodies \X Deliveries
    BY <1>1, <1>2 DEF ChannelInv, ChannelTypeOK
  <2> QED BY <1>1, <1>2, <1>5, <1>6, <2>1 DEF ChannelInv, ChannelTypeOK
<1>8. RowsTrue'
  <2>1. Grows
    BY <1>1 DEF Grows
  <2>2. ASSUME NEW c \in Deliveries, c # d PROVE RowTrue(c)'
    <3>1. RowTrue(c)
      BY DEF ChannelInv, RowsTrue
    <3>2. request'[c] # "none" => delivery[c].pc # "new"
      BY <1>2, <2>2, <3>1 DEF RowTrue
    <3> QED BY <1>5, <2>1, <2>2, <3>1, <3>2, RowStays
  <2>3. row.answer # "VERSION_CONFLICT"
    BY <1>1, <1>4, ChannelAssumption DEF ChannelInv, RowsTrue, RowTrue, Refusals
  <2>4. row.answer \in Deliveries => <<row.event, row.body, row.answer>> \in effects'
    <3>1. row.event = e /\ row.body = b
      BY <1>4 DEF May
    <3>2. CASE row = delivery[d]
      BY <1>1, <3>2 DEF ChannelInv, RowsTrue, RowTrue
    <3>3. CASE row.answer = d
      BY <1>1, <3>1, <3>3
    <3> QED BY <1>4, <3>2, <3>3
  <2>5. RowTrue(d)'
    BY <1>2, <1>4, <1>5, <2>3, <2>4 DEF RowTrue, May
  <2> QED BY <2>2, <2>5 DEF RowsTrue
<1>9. RecordsTrue'
  BY <1>1 DEF ChannelInv, RecordsTrue, NoRecord
<1>10. ReceiptsTrue'
  <2>1. \A f \in Events, c \in Bodies, x \in Deliveries :
          <<f, c, x>> \in effects => f # e
    <3> SUFFICES ASSUME NEW c \in Bodies, NEW x \in Deliveries, <<e, c, x>> \in effects
                 PROVE  FALSE
      OBVIOUS
    <3>1. receipt[<<e, None>>] = [body |-> c, result |-> x]
      BY <1>2 DEF ChannelInv, ReceiptsTrue
    <3> QED BY <1>1, <3>1, ChannelAssumption DEF NoRecord
  <2>2. \A f \in Events : f # e => receipt'[<<f, None>>] = receipt[<<f, None>>]
    BY <1>6 DEF Keys
  <2>3. ASSUME NEW f \in Events, receipt'[<<f, None>>] # NoRecord
        PROVE  <<f, receipt'[<<f, None>>].body, receipt'[<<f, None>>].result>> \in effects'
    <3>1. CASE f = e
      BY <1>1, <1>6, <3>1
    <3>2. CASE f # e
      BY <1>1, <2>2, <2>3, <3>2 DEF ChannelInv, ReceiptsTrue, NoRecord
    <3> QED BY <3>1, <3>2
  <2>4. ASSUME NEW f \in Events, NEW c \in Bodies, NEW x \in Deliveries,
               <<f, c, x>> \in effects'
        PROVE  receipt'[<<f, None>>] = [body |-> c, result |-> x]
    <3>1. CASE <<f, c, x>> = <<e, b, d>>
      BY <1>6, <3>1
    <3>2. CASE <<f, c, x>> \in effects
      BY <2>1, <2>2, <3>2 DEF ChannelInv, ReceiptsTrue
    <3> QED BY <1>1, <2>4, <3>1, <3>2
  <2> QED BY <2>3, <2>4 DEF ReceiptsTrue, NoRecord
<1> QED BY <1>7, <1>8, <1>9, <1>10 DEF ChannelInv

LEMMA BusinessStep ==
  ASSUME ChannelInv, NEW d \in Deliveries, Business(d)
  PROVE  ChannelInv'
<1>1. ASSUME NEW from \in {"sent", "reading", "admitted"}, NEW to \in {"reading", "admitted", "over"},
             At(d, from, to), UNCHANGED <<delivery, recorded, businessVars>>
      PROVE  ChannelInv'
  <2>1. /\ delivery[d].pc # "new"
        /\ request' \in [Deliveries -> {"none", "sent", "reading", "admitted", "over"}]
        /\ \A c \in Deliveries \ {d} : request'[c] = request[c]
    BY <1>1, AtTyped
  <2>2. Reply(d, Unknown) /\ Told(d, Unknown) /\ Unknown \in Answers
    BY <1>1, Harmless DEF Reply
  <2> QED BY <1>1, <2>1, <2>2, ReplyStep
<1>2. CASE AskMembers(d)
  BY <1>1, <1>2 DEF AskMembers
<1>3. CASE Admit(d)
  BY <1>1, <1>3 DEF Admit
<1>4. CASE Refuse(d)
  <2>1. At(d, "reading", "over") /\ Reply(d, "FORBIDDEN") /\ UNCHANGED <<recorded, businessVars>>
    BY <1>4 DEF Refuse
  <2>2. Told(d, "FORBIDDEN") /\ "FORBIDDEN" \in Answers
    BY Harmless
  <2> QED BY <2>1, <2>2, AtTyped, ReplyStep
<1>5. CASE Replay(d)
  BY <1>5, ReplayStep
<1>6. CASE Reject(d)
  <2>1. /\ At(d, "admitted", "over") /\ receipt[Key(d)] = NoRecord /\ moved
        /\ Reply(d, "VERSION_CONFLICT") /\ UNCHANGED <<recorded, businessVars>>
    BY <1>6 DEF Reject
  <2>2. Told(d, "VERSION_CONFLICT") /\ "VERSION_CONFLICT" \in Answers
    BY <2>1, ChannelAssumption DEF Told, Key, Answers, Refusals
  <2> QED BY <2>1, <2>2, AtTyped, ReplyStep
<1>7. CASE Execute(d)
  BY <1>7, ExecuteStep
<1> QED BY <1>2, <1>3, <1>4, <1>5, <1>6, <1>7 DEF Business

-----------------------------------------------------------------------------
(* The other steps.                                                         *)

LEMMA DeliverStep ==
  ASSUME ChannelInv, NEW d \in Deliveries, NEW e \in Events, NEW b \in Bodies, Deliver(d, e, b)
  PROVE  ChannelInv'
<1> DEFINE row == [pc |-> "connect", event |-> e, body |-> b, answer |-> None]
<1>1. /\ delivery[d].pc = "new"
      /\ delivery' = [delivery EXCEPT ![d] = row]
      /\ UNCHANGED <<recorded, request, moved, receipt, effects>>
  BY DEF Deliver, businessVars
<1>2. delivery' \in [Deliveries -> DeliveryRow] /\ delivery'[d] = row
      /\ \A c \in Deliveries \ {d} : delivery'[c] = delivery[c]
  BY <1>1 DEF ChannelInv, ChannelTypeOK, DeliveryRow, Answers
<1>3. ChannelTypeOK'
  BY <1>1, <1>2 DEF ChannelInv, ChannelTypeOK
<1>4. RowsTrue'
  <2>1. RowTrue(d)'
    BY <1>1, <1>2, ChannelAssumption DEF RowTrue, Refusals
  <2>2. ASSUME NEW c \in Deliveries, c # d PROVE RowTrue(c)'
    <3>1. Grows
      BY <1>1 DEF Grows
    <3>2. RowTrue(c)
      BY DEF ChannelInv, RowsTrue
    <3>3. request'[c] # "none" => delivery[c].pc # "new"
      BY <1>1, <3>2 DEF RowTrue
    <3> QED BY <1>2, <2>2, <3>1, <3>2, <3>3, RowStays
  <2> QED BY <2>1, <2>2 DEF RowsTrue
<1>5. RecordsTrue' /\ ReceiptsTrue'
  BY <1>1 DEF ChannelInv, RecordsTrue, ReceiptsTrue, NoRecord
<1> QED BY <1>3, <1>4, <1>5 DEF ChannelInv

LEMMA CrashStep == ASSUME ChannelInv, Crash PROVE ChannelInv'
<1>1. /\ delivery' = [d \in Deliveries |->
                        IF delivery[d].pc \in {"new", "done"} THEN delivery[d] ELSE Ended(d, None)]
      /\ UNCHANGED <<recorded, request, moved, receipt, effects>>
  BY DEF Crash, businessVars
<1>2. \A d \in Deliveries :
        delivery'[d] = delivery[d] \/ (delivery[d].pc # "new" /\ delivery'[d] = Ended(d, None))
  BY <1>1
<1>3. \A d \in Deliveries : May(d, Ended(d, None)) /\ Ended(d, None).answer = None
  BY EndedRow DEF Answers
<1>4. ChannelTypeOK'
  <2>1. \A d \in Deliveries : delivery'[d] \in DeliveryRow
    BY <1>2, <1>3 DEF ChannelInv, ChannelTypeOK, May
  <2> QED BY <1>1, <2>1 DEF ChannelInv, ChannelTypeOK
<1>5. RowsTrue'
  <2> SUFFICES ASSUME NEW d \in Deliveries PROVE RowTrue(d)'
    BY DEF RowsTrue
  <2>1. RowTrue(d) /\ Grows
    BY <1>1 DEF ChannelInv, RowsTrue, Grows
  <2>2. CASE delivery'[d] = delivery[d]
    <3>1. request'[d] # "none" => delivery[d].pc # "new"
      BY <1>1, <2>1 DEF RowTrue
    <3> QED BY <2>1, <2>2, <3>1, RowStays
  <2>3. CASE delivery[d].pc # "new" /\ delivery'[d] = Ended(d, None)
    BY <1>1, <1>3, <2>1, <2>3, ChannelAssumption DEF RowTrue, May, Refusals
  <2> QED BY <1>2, <2>2, <2>3
<1>6. RecordsTrue' /\ ReceiptsTrue'
  BY <1>1 DEF ChannelInv, RecordsTrue, ReceiptsTrue, NoRecord
<1> QED BY <1>4, <1>5, <1>6 DEF ChannelInv

LEMMA WriteStep == ASSUME ChannelInv, Write PROVE ChannelInv'
<1>1. moved' = TRUE /\ UNCHANGED <<delivery, recorded, request, receipt, effects>>
  BY DEF Write
<1> QED BY <1>1 DEF ChannelInv, ChannelTypeOK, RowsTrue, RowTrue, RecordsTrue, ReceiptsTrue, NoRecord

LEMMA ChannelRests == ASSUME ChannelInv, UNCHANGED channelVars PROVE ChannelInv'
  BY DEF channelVars, ChannelInv, ChannelTypeOK, RowsTrue, RowTrue, RecordsTrue, ReceiptsTrue, NoRecord

LEMMA Stepwise == MembersInv /\ ChannelInv /\ [Next]_vars => MembersInv' /\ ChannelInv'
<1> SUFFICES ASSUME MembersInv, ChannelInv, [Next]_vars
             PROVE  MembersInv' /\ ChannelInv'
  OBVIOUS
<1>1. ASSUME UNCHANGED memberVars PROVE MembersInv'
  BY <1>1, MembersStep
<1>2. CASE \E d \in Deliveries, e \in Events, b \in Bodies : Deliver(d, e, b)
  BY <1>1, <1>2, DeliverStep DEF Deliver
<1>3. CASE \E d \in Deliveries : Platform(d)
  <2>1. UNCHANGED memberVars
    BY <1>3 DEF Platform, Connect, Lock, Call, GiveUp, Commit
  <2> QED BY <1>1, <1>3, <2>1, PlatformStep
<1>4. CASE \E d \in Deliveries : Business(d)
  <2>1. UNCHANGED memberVars
    BY <1>4 DEF Business, AskMembers, Admit, Refuse, Replay, Reject, Execute
  <2> QED BY <1>1, <1>4, <2>1, BusinessStep
<1>5. CASE Crash
  BY <1>1, <1>5, CrashStep DEF Crash
<1>6. CASE Write
  BY <1>1, <1>6, WriteStep DEF Write
<1>7. CASE MembersNext /\ UNCHANGED channelVars
  BY <1>7, MembersStep, ChannelRests
<1>8. CASE UNCHANGED vars
  BY <1>1, <1>8, ChannelRests DEF vars, memberVars, channelVars
<1> QED BY <1>2, <1>3, <1>4, <1>5, <1>6, <1>7, <1>8 DEF Next

LEMMA Invariance == Spec => [](MembersInv /\ ChannelInv)
<1>1. Init => MembersInv /\ ChannelInv
  BY MembersInitially, ChannelInitially DEF Init
<1> QED BY <1>1, Stepwise, PTL DEF Spec

-----------------------------------------------------------------------------
(* Type correctness of the deliveries and of the member directory. *)
THEOREM TypeCorrect == Spec => []TypeOK
<1>1. MembersInv /\ ChannelInv => TypeOK
  BY DEF MembersInv, ChannelInv, TypeOK
<1> QED BY <1>1, Invariance, PTL

(* A tenant that has members has a manager (members.ts:16-21). *)
THEOREM ManagerCorrect == Spec => []ManagerRemains
<1>1. MembersInv => ManagerRemains
  BY DEF MembersInv
<1> QED BY <1>1, Invariance, PTL

(* An event has one effect, which is what everybody is told of (channel.ts:19-26). *)
THEOREM EffectsCorrect == Spec => []OneEffectPerEvent
<1>1. ASSUME ChannelInv PROVE OneEffectPerEvent
  <2>1. ASSUME NEW x \in effects, NEW y \in effects, x[1] = y[1] PROVE x = y
    <3>1. effects \subseteq Events \X Bodies \X Deliveries
      BY <1>1 DEF ChannelInv, ChannelTypeOK
    <3>2. PICK e \in Events, b \in Bodies, d \in Deliveries : x = <<e, b, d>>
      BY <3>1
    <3>3. PICK f \in Events, c \in Bodies, g \in Deliveries : y = <<f, c, g>>
      BY <3>1
    <3>4. e = f
      BY <2>1, <3>2, <3>3
    <3>5. <<e, b, d>> \in effects /\ <<e, c, g>> \in effects
      BY <2>1, <3>2, <3>3, <3>4
    <3>6. receipt[<<e, None>>] = [body |-> b, result |-> d]
      BY <1>1, <3>2, <3>5 DEF ChannelInv, ReceiptsTrue
    <3>7. receipt[<<e, None>>] = [body |-> c, result |-> g]
      BY <1>1, <3>2, <3>3, <3>5 DEF ChannelInv, ReceiptsTrue
    <3>8. b = c /\ d = g
      BY <3>6, <3>7
    <3> QED BY <3>2, <3>3, <3>4, <3>8
  <2>2. \A d \in Deliveries : delivery[d].answer \in Deliveries =>
          <<delivery[d].event, delivery[d].body, delivery[d].answer>> \in effects
    BY <1>1 DEF ChannelInv, RowsTrue, RowTrue
  <2> QED BY <1>1, <2>1, <2>2 DEF OneEffectPerEvent, ChannelInv, RecordsTrue
<1> QED BY <1>1, Invariance, PTL

(* Who is told that the order moved on can rely on it (channel.ts:22-27). *)
THEOREM RefusalsCorrect == Spec => []RefusedForGood
<1>1. ASSUME ChannelInv PROVE RefusedForGood
  <2> SUFFICES ASSUME NEW d \in Deliveries, delivery[d].answer = "VERSION_CONFLICT",
                      delivery[d].pc = "done",
                      NEW x \in effects, x[1] = delivery[d].event
               PROVE  FALSE
    BY DEF RefusedForGood
  <2>1. PICK e \in Events, b \in Bodies, c \in Deliveries : x = <<e, b, c>>
    BY <1>1 DEF ChannelInv, ChannelTypeOK
  <2>2. e = delivery[d].event
    BY <2>1
  <2>3. receipt[<<e, None>>] = NoRecord
    BY <1>1, <2>2 DEF ChannelInv, RowsTrue, RowTrue
  <2>4. receipt[<<e, None>>] = [body |-> b, result |-> c]
    BY <1>1, <2>1 DEF ChannelInv, ReceiptsTrue
  <2> QED BY <2>3, <2>4, ChannelAssumption DEF NoRecord
<1> QED BY <1>1, Invariance, PTL
=============================================================================
