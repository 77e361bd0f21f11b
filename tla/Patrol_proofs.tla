---------------------------- MODULE Patrol_proofs ----------------------------
(***************************************************************************)
(* Proofs about exceptions and patrols, for every set of orders, issues,   *)
(* members, keys and workers.                                              *)
(***************************************************************************)
EXTENDS Patrol, TLAPS

-----------------------------------------------------------------------------
(* The inductive invariant.                                                 *)

(* One record: untouched before its first issue, closed only on clear evidence. *)
RowOK(row) ==
  /\ row \in Record
  /\ row.status = "none" => row.version = 0
  /\ row.status = "closed" => row.clear

RowsOK == \A o \in Objects, k \in Issues : RowOK(exc[o][k])

(* A record that changes gets a higher version, *)
Newer(old, new) == new = old \/ old.version < new.version

(* so one that a member was shown is the present one, or of a lower version. *)
PagesOK == \A m \in Members, o \in Objects, k \in Issues : Newer(page[m][o][k], exc[o][k])

(* A listing is of the past, and true if it is of the present. *)
ListingOK(obs, o) ==
  /\ obs.version <= facts[o].version
  /\ obs.day <= day
  /\ obs.version = facts[o].version /\ obs.day = day => obs.issues = facts[o].issues

ListsTrue ==
  \A w \in Workers, o \in Objects : run[w].list[o] # None => ListingOK(run[w].list[o], o)

SourcesOK ==
  \A o \in Objects : source[o].version <= facts[o].version /\ source[o].day <= day

(* The rows of a transaction are as good as the committed ones. *)
Earned(rows, today) ==
  \A o \in Objects, k \in Issues, n \in Nat : <<o, k, n>> \in rows.escalations =>
    /\ n <= rows.state[o][k].episode
    /\ n = rows.state[o][k].episode => rows.state[o][k].first + Threshold <= today

DaysOK == \A w \in Workers : run[w].day <= day

(* A worker examines what it listed. *)
TodoOK ==
  \A w \in Workers :
    /\ run[w].pc # "examine" => run[w].todo = {}
    /\ \A o \in run[w].todo : run[w].list[o] # None

IInv ==
  /\ TypeOK /\ RowsOK /\ ListsTrue /\ SourcesOK /\ EvidenceTrue /\ PagesOK
  /\ Earned(ledger, day) /\ Earned(draft, day) /\ DaysOK /\ TodoOK

-----------------------------------------------------------------------------
(* What the handlers do to one record.                                      *)

LEMMA SeenRow ==
  ASSUME NEW row, RowOK(row), NEW owner \in Members
  PROVE  /\ RowOK(Seen(row, owner))
         /\ Seen(row, owner).status # "none" /\ ~Seen(row, owner).clear
         /\ row.version < Seen(row, owner).version
<1> USE DEF RowOK, Record, Statuses
<1>1. row.version \in Nat
  OBVIOUS
<1>2. CASE row.status = "none"
  <2> DEFINE new == [status |-> "open", clear |-> FALSE, version |-> 1, owner |-> owner]
  <2>1. Seen(row, owner) = new
    BY <1>2 DEF Seen
  <2>2. new \in Record /\ new.status = "open" /\ ~new.clear /\ new.version = 1
    OBVIOUS
  <2> QED BY <1>1, <1>2, <2>1, <2>2
<1>3. CASE row.status # "none"
  <2> DEFINE status == IF row.status = "closed" THEN "open" ELSE row.status
             new == [status |-> status, clear |-> FALSE, version |-> row.version + 1,
                     owner |-> row.owner]
  <2>1. Seen(row, owner) = new
    BY <1>3 DEF Seen
  <2>2. status \in Statuses /\ status # "closed"
    BY <1>3
  <2>3. new \in Record
    BY <1>1, <2>2
  <2> HIDE DEF status
  <2> QED BY <1>1, <1>3, <2>1, <2>2, <2>3
<1> QED BY <1>2, <1>3

LEMMA ClearedRow ==
  ASSUME NEW row, RowOK(row)
  PROVE  /\ RowOK(Cleared(row))
         /\ Cleared(row).status # "none" => Cleared(row).clear
         /\ Newer(row, Cleared(row))
<1> USE DEF RowOK, Record, Newer
<1>1. row.version \in Nat
  OBVIOUS
<1>2. CASE row.status = "none" \/ row.clear
  BY <1>1, <1>2 DEF Cleared
<1>3. CASE row.status # "none" /\ ~row.clear
  <2> DEFINE new == [status |-> row.status, clear |-> TRUE, version |-> row.version + 1,
                     owner |-> row.owner]
  <2>1. Cleared(row) = new
    BY <1>3 DEF Cleared
  <2>2. new \in Record
    BY <1>1
  <2> QED BY <1>1, <1>3, <2>1, <2>2
<1> QED BY <1>2, <1>3

LEMMA MovedRow ==
  ASSUME NEW row, RowOK(row), NEW r \in Requests, row.status # "none", Legal(r, row)
  PROVE  /\ RowOK(Moved(row, r))
         /\ Moved(row, r).status # "none"
         /\ Moved(row, r).clear = row.clear
         /\ Moved(row, r).version = row.version + 1
<1>1. row \in Record /\ row.status # "closed"
  BY DEF RowOK, Legal
<1>2. Given(r.status, row.status) \in Statuses /\ Given(r.owner, row.owner) \in Members \cup {None}
  BY <1>1, ExceptionsAssumption DEF Given, Requests, Record
<1>3. Given(r.status, row.status) = "closed" => row.clear
  BY <1>1 DEF Given, Legal
<1> DEFINE status == Given(r.status, row.status)
           owner == Given(r.owner, row.owner)
           new == [status |-> status, clear |-> row.clear, version |-> row.version + 1,
                   owner |-> owner]
<1>4. Moved(row, r) = new
  <2>1. Moved(row, r) = [row EXCEPT !.status = status, !.owner = owner, !.version = @ + 1]
    BY DEF Moved
  <2> HIDE DEF status, owner
  <2> QED BY <1>1, <2>1 DEF Record
<1>5. row.version \in Nat /\ row.clear \in BOOLEAN
  BY <1>1 DEF Record
<1>6. new \in Record
  BY <1>2, <1>5 DEF Record
<1>7. status # "none"
  BY <1>2 DEF Statuses
<1> HIDE DEF status, owner
<1>8. status = "closed" => row.clear
  BY <1>3 DEF status
<1> QED BY <1>4, <1>6, <1>7, <1>8 DEF RowOK

(* Reconciled records carry outstanding evidence for exactly the issues observed. *)
LEMMA ReconciledRows ==
  ASSUME NEW rows, \A k \in Issues : RowOK(rows[k]),
         NEW issues \in SUBSET Issues, NEW owner \in [Issues -> Members]
  PROVE  /\ Reconciled(rows, issues, owner) \in [Issues -> Record]
         /\ \A k \in Issues :
              LET row == Reconciled(rows, issues, owner)[k]
              IN  /\ RowOK(row) /\ Newer(rows[k], row)
                  /\ (row.status # "none" /\ ~row.clear) <=> k \in issues
<1> DEFINE new == Reconciled(rows, issues, owner)
<1>1. ASSUME NEW k \in Issues
      PROVE  /\ RowOK(new[k]) /\ Newer(rows[k], new[k])
             /\ (new[k].status # "none" /\ ~new[k].clear) <=> k \in issues
  <2>1. new[k] = IF k \in issues THEN Seen(rows[k], owner[k]) ELSE Cleared(rows[k])
    BY DEF Reconciled
  <2>2. RowOK(rows[k]) /\ owner[k] \in Members
    OBVIOUS
  <2>3. CASE k \in issues
    BY <2>1, <2>2, <2>3, SeenRow DEF Newer
  <2>4. CASE k \notin issues
    BY <2>1, <2>2, <2>4, ClearedRow
  <2> QED BY <2>3, <2>4
<1>2. new = [k \in Issues |-> new[k]]
  BY DEF Reconciled
<1> HIDE DEF new
<1>3. new \in [Issues -> Record]
  BY <1>1, <1>2 DEF RowOK
<1> QED BY <1>1, <1>3 DEF new

-----------------------------------------------------------------------------
(* What a transaction does to the tables of the exceptions.                 *)

(* Each order is left alone, or takes an observation that is not skipped. *)
LEMMA ReconciledOrders ==
  ASSUME TypeOK, NEW list \in [Objects -> Observation \cup {None}], ReconcileExceptions(list)
  PROVE  /\ mutation' = mutation /\ page' = page
         /\ source' = [o \in Objects |-> source'[o]]
         /\ exc' = [o \in Objects |-> exc'[o]]
         /\ \A o \in Objects :
              \/ source'[o] = source[o] /\ exc'[o] = exc[o]
              \/ /\ list[o] # None /\ list[o] \in Observation
                 /\ ~Skipped(source[o], list[o])
                 /\ source'[o] = [version |-> list[o].version, day |-> list[o].day]
                 /\ \E owner \in [Issues -> Members] :
                      exc'[o] = Reconciled(exc[o], list[o].issues, owner)
<1> DEFINE taken == {o \in Objects : list[o] # None /\ ~Skipped(source[o], list[o])}
<1>1. PICK owner \in [Issues -> Members] :
        exc' = [o \in Objects |-> IF o \in taken
                                    THEN Reconciled(exc[o], list[o].issues, owner)
                                    ELSE exc[o]]
  BY DEF ReconcileExceptions
<1>2. source' = [o \in Objects |-> IF o \in taken
                                     THEN [version |-> list[o].version, day |-> list[o].day]
                                     ELSE source[o]]
  BY DEF ReconcileExceptions
<1>3. mutation' = mutation /\ page' = page
  BY DEF ReconcileExceptions
<1>4. ASSUME NEW o \in Objects, o \notin taken
      PROVE  source'[o] = source[o] /\ exc'[o] = exc[o]
  BY <1>1, <1>2, <1>4
<1>5. ASSUME NEW o \in Objects, o \in taken
      PROVE  /\ list[o] # None /\ list[o] \in Observation
             /\ ~Skipped(source[o], list[o])
             /\ source'[o] = [version |-> list[o].version, day |-> list[o].day]
             /\ exc'[o] = Reconciled(exc[o], list[o].issues, owner)
  BY <1>1, <1>2, <1>5
<1> QED BY <1>1, <1>2, <1>3, <1>4, <1>5

(* The exceptions change in three ways, and a list may be read. *)
LEMMA ExceptionSteps ==
  ASSUME [Next]_vars
  PROVE  \/ UNCHANGED exceptionVars
         \/ \E w \in Workers : ReconcileExceptions(run[w].list) /\ UNCHANGED businessVars
         \/ Transition /\ UNCHANGED businessVars
         \/ \E m \in Members : ListExceptions(m) /\ UNCHANGED businessVars
<1>1. CASE Business
  BY <1>1 DEF Business
<1>2. CASE People
  BY <1>2 DEF People
<1>3. CASE SavePolicy
  BY <1>3 DEF SavePolicy
<1>4. CASE \E w \in Workers : Begin(w) \/ Work(w) \/ GiveUp(w)
  BY <1>4 DEF Begin, Work, List, Reconcile, Commit, Examine, GiveUp, Rollback
<1>5. CASE Fault
  BY <1>5 DEF Fault, ReconcileUnanswered, LoseRow, Rollback
<1>6. CASE UNCHANGED vars
  BY <1>6 DEF vars, exceptionVars
<1> QED BY <1>1, <1>2, <1>3, <1>4, <1>5, <1>6 DEF Next

(* A transition moves one record, from the version that its actor was shown. *)
LEMMA TransitionStep ==
  ASSUME TypeOK, RowsOK, Transition
  PROVE  \E key \in MutationKeys, d \in Decision, row \in Record :
           /\ source' = source /\ page' = page
           /\ mutation[key] = None
           /\ mutation' = [mutation EXCEPT ![key] = d]
           /\ exc' = [exc EXCEPT ![d.object][d.issue] = row]
           /\ exc[d.object][d.issue].version = page[d.actor][d.object][d.issue].version
           /\ RowOK(row) /\ row.clear = exc[d.object][d.issue].clear
           /\ row.version = exc[d.object][d.issue].version + 1
           /\ row.status # "none" /\ exc[d.object][d.issue].status # "none"
<1>1. PICK key \in MutationKeys, o \in Objects, k \in Issues, r \in Requests, role \in Roles :
        TransitionException(key, o, k, r, role)
  BY DEF Transition
<1> DEFINE row == Moved(exc[o][k], r)
           d == [actor |-> r.actor, object |-> o, issue |-> k]
<1>2. RowOK(exc[o][k]) /\ exc[o][k].status # "none" /\ Legal(r, exc[o][k])
  BY <1>1 DEF TransitionException, RowsOK
<1>3. /\ RowOK(row) /\ row.clear = exc[o][k].clear /\ row.version = exc[o][k].version + 1
      /\ row.status # "none"
  BY <1>2, MovedRow
<1>4. exc' = [exc EXCEPT ![o][k] = row]
  BY <1>1 DEF TransitionException
<1>5. /\ source' = source /\ page' = page /\ mutation[key] = None
      /\ mutation' = [mutation EXCEPT ![key] = d]
      /\ exc[o][k].version = page[r.actor][o][k].version
  BY <1>1 DEF TransitionException, Expected
<1>6. d \in Decision /\ d.actor = r.actor /\ d.object = o /\ d.issue = k
  BY DEF Decision, Requests
<1> HIDE DEF row, d
<1>7. row \in Record
  BY <1>3 DEF RowOK
<1> QED BY <1>2, <1>3, <1>4, <1>5, <1>6, <1>7

(* Records keep their shape, and one that changes gets a higher version. *)
LEMMA RecordsStep ==
  ASSUME TypeOK, RowsOK, [Next]_vars
  PROVE  /\ source' \in [Objects -> [version: 0..MaxSource, day: 0..MaxDay]]
         /\ exc' \in [Objects -> [Issues -> Record]]
         /\ mutation' \in [MutationKeys -> Decision \cup {None}]
         /\ page' \in [Members -> [Objects -> [Issues -> Record]]]
         /\ RowsOK'
         /\ \A o \in Objects, k \in Issues : Newer(exc[o][k], exc'[o][k])
<1>1. /\ source \in [Objects -> [version: 0..MaxSource, day: 0..MaxDay]]
      /\ exc \in [Objects -> [Issues -> Record]]
      /\ mutation \in [MutationKeys -> Decision \cup {None}]
      /\ page \in [Members -> [Objects -> [Issues -> Record]]]
      /\ \A o \in Objects, k \in Issues : exc[o][k].version \in Nat
      /\ run \in [Workers -> Run]
  BY DEF TypeOK, ExceptionsTypeOK, Record
<1>2. CASE UNCHANGED exceptionVars
  BY <1>1, <1>2 DEF exceptionVars, RowsOK, Newer
<1>3. CASE \E w \in Workers : ReconcileExceptions(run[w].list) /\ UNCHANGED businessVars
  <2>1. PICK w \in Workers : ReconcileExceptions(run[w].list)
    BY <1>3
  <2> DEFINE list == run[w].list
  <2>2. list \in [Objects -> Observation \cup {None}]
    BY <1>1 DEF Run
  <2> HIDE DEF list
  <2>3. /\ mutation' = mutation /\ page' = page
        /\ source' = [o \in Objects |-> source'[o]]
        /\ exc' = [o \in Objects |-> exc'[o]]
        /\ \A o \in Objects :
             \/ source'[o] = source[o] /\ exc'[o] = exc[o]
             \/ /\ list[o] \in Observation
                /\ source'[o] = [version |-> list[o].version, day |-> list[o].day]
                /\ \E owner \in [Issues -> Members] :
                     exc'[o] = Reconciled(exc[o], list[o].issues, owner)
    BY <2>1, <2>2, ReconciledOrders DEF list
  <2>4. ASSUME NEW o \in Objects
        PROVE  /\ source'[o] \in [version: 0..MaxSource, day: 0..MaxDay]
               /\ exc'[o] \in [Issues -> Record]
               /\ \A k \in Issues : RowOK(exc'[o][k]) /\ Newer(exc[o][k], exc'[o][k])
    <3>1. CASE source'[o] = source[o] /\ exc'[o] = exc[o]
      BY <1>1, <3>1 DEF RowsOK, Newer
    <3>2. CASE /\ list[o] \in Observation
               /\ source'[o] = [version |-> list[o].version, day |-> list[o].day]
               /\ \E owner \in [Issues -> Members] :
                    exc'[o] = Reconciled(exc[o], list[o].issues, owner)
      <4>1. /\ list[o].version \in 1..MaxSource /\ list[o].day \in 0..MaxDay
            /\ list[o].issues \in SUBSET Issues
        BY <3>2 DEF Observation
      <4>2. 1..MaxSource \subseteq 0..MaxSource
        BY ExceptionsAssumption
      <4>3. \A k \in Issues : RowOK(exc[o][k])
        BY DEF RowsOK
      <4>4. PICK owner \in [Issues -> Members] : exc'[o] = Reconciled(exc[o], list[o].issues, owner)
        BY <3>2
      <4> DEFINE rows == Reconciled(exc[o], list[o].issues, owner)
      <4>5. /\ rows \in [Issues -> Record]
            /\ \A k \in Issues : RowOK(rows[k]) /\ Newer(exc[o][k], rows[k])
        BY <4>1, <4>3, ReconciledRows
      <4> HIDE DEF rows
      <4>6. exc'[o] = rows
        BY <4>4 DEF rows
      <4> QED BY <3>2, <4>1, <4>2, <4>5, <4>6
    <3> QED BY <2>3, <3>1, <3>2
  <2>5. RowsOK'
    BY <2>4 DEF RowsOK
  <2> QED BY <1>1, <2>3, <2>4, <2>5
<1>4. CASE Transition
  <2>1. PICK key \in MutationKeys, d \in Decision, row \in Record :
           /\ source' = source /\ page' = page
           /\ mutation' = [mutation EXCEPT ![key] = d]
           /\ exc' = [exc EXCEPT ![d.object][d.issue] = row]
           /\ RowOK(row) /\ row.version = exc[d.object][d.issue].version + 1
    BY <1>4, TransitionStep
  <2>2. PICK o \in Objects, k \in Issues : o = d.object /\ k = d.issue
    BY DEF Decision
  <2>3. exc' = [exc EXCEPT ![o][k] = row] /\ row.version = exc[o][k].version + 1
    BY <2>1, <2>2
  <2>4. exc' \in [Objects -> [Issues -> Record]]
    BY <1>1, <2>3
  <2>5. mutation' \in [MutationKeys -> Decision \cup {None}]
    BY <1>1, <2>1
  <2>6. ASSUME NEW p \in Objects, NEW i \in Issues
        PROVE  RowOK(exc'[p][i]) /\ Newer(exc[p][i], exc'[p][i])
    <3>1. CASE p = o /\ i = k
      BY <1>1, <2>1, <2>3, <3>1 DEF Newer
    <3>2. CASE ~(p = o /\ i = k)
      <4>1. exc'[p][i] = exc[p][i]
        BY <1>1, <2>3, <3>2
      <4> QED BY <4>1 DEF RowsOK, Newer
    <3> QED BY <3>1, <3>2
  <2>7. RowsOK'
    BY <2>6 DEF RowsOK
  <2> QED BY <1>1, <2>1, <2>4, <2>5, <2>6, <2>7
<1>5. CASE \E m \in Members : ListExceptions(m) /\ UNCHANGED businessVars
  <2>1. PICK m \in Members : ListExceptions(m)
    BY <1>5
  <2>2. UNCHANGED <<source, exc, mutation>> /\ page' = [page EXCEPT ![m] = exc]
    BY <2>1 DEF ListExceptions
  <2> QED BY <1>1, <2>2 DEF RowsOK, Newer
<1> QED BY <1>2, <1>3, <1>4, <1>5, ExceptionSteps

(* Pages are old, never wrong. *)
LEMMA PagesStep ==
  ASSUME TypeOK, RowsOK, PagesOK, [Next]_vars
  PROVE  PagesOK'
<1> SUFFICES ASSUME NEW m \in Members, NEW o \in Objects, NEW k \in Issues
             PROVE  Newer(page'[m][o][k], exc'[o][k])
  BY DEF PagesOK
<1>1. page \in [Members -> [Objects -> [Issues -> Record]]]
  BY DEF TypeOK, ExceptionsTypeOK
<1>2. /\ page[m][o][k].version \in Nat /\ exc[o][k].version \in Nat
      /\ exc'[o][k].version \in Nat
  BY RecordsStep DEF TypeOK, ExceptionsTypeOK, Record
<1>3. Newer(page[m][o][k], exc[o][k]) /\ Newer(exc[o][k], exc'[o][k])
  BY RecordsStep DEF PagesOK
<1>4. page'[m] = page[m] \/ page'[m] = exc
  <2>1. CASE UNCHANGED exceptionVars
    BY <2>1 DEF exceptionVars
  <2>2. CASE \E w \in Workers : ReconcileExceptions(run[w].list)
    BY <2>2 DEF ReconcileExceptions
  <2>3. CASE Transition
    BY <2>3, TransitionStep
  <2>4. CASE \E n \in Members : ListExceptions(n)
    BY <1>1, <2>4 DEF ListExceptions
  <2> QED BY <2>1, <2>2, <2>3, <2>4, ExceptionSteps
<1> QED BY <1>2, <1>3, <1>4 DEF Newer

(* A new key decides on a record of the version its actor was shown, so on what they saw. *)
LEMMA DecisionsStep ==
  ASSUME TypeOK, RowsOK, PagesOK, [Next]_vars
  PROVE  DecidedAsSeen(mutation, mutation', exc)
<1> SUFFICES ASSUME NEW x \in MutationKeys, mutation[x] = None, mutation'[x] # None
             PROVE  page[mutation'[x].actor][mutation'[x].object][mutation'[x].issue]
                      = exc[mutation'[x].object][mutation'[x].issue]
  BY DEF DecidedAsSeen
<1>1. /\ mutation \in [MutationKeys -> Decision \cup {None}]
      /\ exc \in [Objects -> [Issues -> Record]]
  BY DEF TypeOK, ExceptionsTypeOK
<1>2. mutation' # mutation
  OBVIOUS
<1>3. Transition
  BY <1>2, ExceptionSteps DEF exceptionVars, ReconcileExceptions, ListExceptions
<1>4. PICK key \in MutationKeys, d \in Decision :
        /\ mutation' = [mutation EXCEPT ![key] = d]
        /\ exc[d.object][d.issue].version = page[d.actor][d.object][d.issue].version
  BY <1>3, TransitionStep
<1>5. mutation'[x] = d
  BY <1>1, <1>4
<1>6. d.actor \in Members /\ d.object \in Objects /\ d.issue \in Issues
  BY DEF Decision
<1>7. exc[d.object][d.issue].version \in Nat
  BY <1>1, <1>6 DEF Record
<1>8. page[d.actor][d.object][d.issue] = exc[d.object][d.issue]
  BY <1>4, <1>6, <1>7 DEF PagesOK, Newer
<1> QED BY <1>5, <1>8

-----------------------------------------------------------------------------
(* The exceptions follow the business service.                              *)

(* An order and the calendar only move on; without that its issues stay. *)
LEMMA BusinessStep ==
  ASSUME TypeOK, [Next]_vars
  PROVE  /\ facts' \in [Objects -> [version: 1..MaxSource, issues: SUBSET Issues]]
         /\ day' \in 0..MaxDay
         /\ day <= day'
         /\ \A o \in Objects :
              /\ facts[o].version <= facts'[o].version
              /\ facts'[o].version = facts[o].version /\ day' = day =>
                   facts'[o].issues = facts[o].issues
<1>1. /\ facts \in [Objects -> [version: 1..MaxSource, issues: SUBSET Issues]]
      /\ day \in 0..MaxDay /\ MaxDay \in Nat /\ MaxSource \in Nat
  BY ExceptionsAssumption DEF TypeOK, ExceptionsTypeOK
<1>2. CASE UNCHANGED businessVars
  BY <1>1, <1>2 DEF businessVars
<1>3. CASE NextDay
  <2>1. PICK issues \in [Objects -> SUBSET Issues] :
          facts' = [o \in Objects |-> [facts[o] EXCEPT !.issues = issues[o]]]
    BY <1>3 DEF NextDay
  <2>2. ASSUME NEW o \in Objects
        PROVE  /\ facts'[o] \in [version: 1..MaxSource, issues: SUBSET Issues]
               /\ facts'[o].version = facts[o].version
    BY <1>1, <2>1
  <2>3. day < MaxDay /\ day' = day + 1
    BY <1>3 DEF NextDay
  <2>4. facts' \in [Objects -> [version: 1..MaxSource, issues: SUBSET Issues]]
    BY <2>1, <2>2
  <2> QED BY <1>1, <2>2, <2>3, <2>4
<1>4. CASE \E o \in Objects : Change(o)
  <2>1. PICK o \in Objects : Change(o)
    BY <1>4
  <2>2. PICK issues \in SUBSET Issues :
          facts' = [facts EXCEPT ![o] = [version |-> facts[o].version + 1, issues |-> issues]]
    BY <2>1 DEF Change
  <2>3. facts[o].version < MaxSource /\ day' = day
    BY <2>1 DEF Change
  <2>4. facts[o].version \in 1..MaxSource
    BY <1>1
  <2>5. [version |-> facts[o].version + 1, issues |-> issues]
          \in [version: 1..MaxSource, issues: SUBSET Issues]
    BY <1>1, <2>3, <2>4
  <2>6. ASSUME NEW p \in Objects
        PROVE  \/ facts'[p] = facts[p]
               \/ facts'[p].version = facts[p].version + 1
    BY <1>1, <2>2
  <2> QED BY <1>1, <2>2, <2>3, <2>5, <2>6
<1>5. UNCHANGED businessVars \/ Business
  <2>1. CASE People \/ SavePolicy
    BY <2>1 DEF People, SavePolicy
  <2>2. CASE \E w \in Workers : Begin(w) \/ Work(w) \/ GiveUp(w)
    BY <2>2 DEF Begin, Work, List, Reconcile, Commit, Examine, GiveUp, Rollback
  <2>3. CASE Fault
    BY <2>3 DEF Fault, ReconcileUnanswered, LoseRow, Rollback
  <2>4. CASE UNCHANGED vars
    BY <2>4 DEF vars, businessVars
  <2> QED BY <2>1, <2>2, <2>3, <2>4 DEF Next
<1> QED BY <1>2, <1>3, <1>4, <1>5 DEF Business

(* A worker keeps its listing, drops it, or lists what is now. *)
LEMMA ListsStep ==
  ASSUME TypeOK, [Next]_vars, NEW w \in Workers, NEW o \in Objects, run'[w].list[o] # None
  PROVE  \/ run'[w].list[o] = run[w].list[o]
         \/ run'[w].list[o] = Listing(o) /\ UNCHANGED businessVars
<1>1. run \in [Workers -> Run]
  BY DEF TypeOK
<1>2. IdleRun.list[o] = None
  BY DEF IdleRun
<1>3. CASE UNCHANGED run
  BY <1>3
<1>4. CASE \E v \in Workers : run' = [run EXCEPT ![v] = IdleRun]
  BY <1>1, <1>2, <1>4
<1>5. ASSUME NEW v \in Workers, Begin(v)
      PROVE  run'[w].list[o] = run[w].list[o]
  <2>1. [IdleRun EXCEPT !.pc = "list", !.day = day].list = IdleRun.list
    BY DEF IdleRun
  <2> QED BY <1>1, <1>2, <1>5, <2>1 DEF Begin
<1>6. ASSUME NEW v \in Workers, List(v)
      PROVE  \/ run'[w].list[o] = run[w].list[o]
             \/ run'[w].list[o] = Listing(o) /\ UNCHANGED businessVars
  <2>1. CASE v = w
    <3>1. run'[w].list = Listed
      BY <1>1, <1>6, <2>1 DEF List, Run
    <3> QED BY <1>6, <3>1 DEF Listed, List
  <2>2. CASE v # w
    BY <1>1, <1>6, <2>2 DEF List
  <2> QED BY <2>1, <2>2
<1>7. ASSUME NEW v \in Workers, Reconcile(v) \/ \E p \in Objects : Examine(v, p)
      PROVE  run'[w].list[o] = run[w].list[o]
  <2>1. \/ run' = [run EXCEPT ![v].pc = "examine",
                             ![v].todo = {p \in Objects : run[v].list[p] # None}]
        \/ \E p \in Objects : run' = [run EXCEPT ![v].todo = @ \ {p}]
    BY <1>7 DEF Reconcile, Examine
  <2>2. CASE v # w
    BY <1>1, <2>1, <2>2
  <2>3. CASE v = w
    <3>1. run[w] \in Run
      BY <1>1
    <3>2. \A todo : [run[w] EXCEPT !.pc = "examine", !.todo = todo].list = run[w].list
      BY <3>1 DEF Run
    <3>3. \A todo : [run[w] EXCEPT !.todo = todo].list = run[w].list
      BY <3>1 DEF Run
    <3>4. CASE run' = [run EXCEPT ![v].pc = "examine",
                                  ![v].todo = {p \in Objects : run[v].list[p] # None}]
      <4>1. run'[w] = [run[w] EXCEPT !.pc = "examine",
                                     !.todo = {p \in Objects : run[v].list[p] # None}]
        BY <1>1, <2>3, <3>4
      <4> QED BY <3>2, <4>1
    <3>5. ASSUME NEW p \in Objects, run' = [run EXCEPT ![v].todo = @ \ {p}]
          PROVE  run'[w].list[o] = run[w].list[o]
      <4>1. run'[w] = [run[w] EXCEPT !.todo = run[w].todo \ {p}]
        BY <1>1, <2>3, <3>5
      <4> QED BY <3>3, <4>1
    <3> QED BY <2>1, <3>4, <3>5
  <2> QED BY <2>2, <2>3
<1>8. CASE Business \/ People \/ SavePolicy \/ UNCHANGED vars
  BY <1>3, <1>8 DEF Business, People, SavePolicy, vars
<1>9. CASE \E v \in Workers : Commit(v) \/ GiveUp(v)
  BY <1>4, <1>9 DEF Commit, GiveUp, Rollback
<1>10. CASE Fault
  BY <1>3, <1>4, <1>10 DEF Fault, ReconcileUnanswered, LoseRow, Rollback
<1> QED BY <1>5, <1>6, <1>7, <1>8, <1>9, <1>10 DEF Next, Work

LEMMA EvidenceStep ==
  ASSUME TypeOK, RowsOK, ListsTrue, SourcesOK, EvidenceTrue, [Next]_vars
  PROVE  ListsTrue' /\ SourcesOK' /\ EvidenceTrue' /\ SourceNeverGoesBack(source, source')
<1>1. /\ day \in Nat /\ day' \in Nat /\ day <= day'
      /\ \A o \in Objects :
           /\ facts[o].version \in Nat /\ facts'[o].version \in Nat
           /\ facts[o].version <= facts'[o].version
           /\ source[o].version \in Nat /\ source[o].day \in Nat
           /\ facts'[o].version = facts[o].version /\ day' = day =>
                facts'[o].issues = facts[o].issues
  BY BusinessStep, ExceptionsAssumption DEF TypeOK, ExceptionsTypeOK
<1>2. ListsTrue'
  <2> SUFFICES ASSUME NEW w \in Workers, NEW o \in Objects, run'[w].list[o] # None
               PROVE  LET obs == run'[w].list[o]
                      IN  /\ obs.version <= facts'[o].version /\ obs.day <= day'
                          /\ obs.version = facts'[o].version /\ obs.day = day' =>
                               obs.issues = facts'[o].issues
    BY DEF ListsTrue, ListingOK
  <2>1. CASE run'[w].list[o] = run[w].list[o]
    <3>1. run[w].list[o] \in Observation /\ ListingOK(run[w].list[o], o)
      BY <2>1 DEF TypeOK, Run, ListsTrue
    <3>2. run[w].list[o].version \in Nat /\ run[w].list[o].day \in Nat
      BY <3>1, ExceptionsAssumption DEF Observation
    <3> QED BY <1>1, <2>1, <3>1, <3>2 DEF ListingOK
  <2>2. CASE run'[w].list[o] = Listing(o) /\ UNCHANGED businessVars
    BY <1>1, <2>2 DEF Listing, businessVars
  <2> QED BY <2>1, <2>2, ListsStep
<1>3. ASSUME NEW o \in Objects, source'[o] = source[o], exc'[o] = exc[o]
      PROVE  /\ source'[o].version <= facts'[o].version /\ source'[o].day <= day'
             /\ source'[o].version = facts'[o].version /\ source'[o].day = day' =>
                  {k \in Issues : exc'[o][k].status # "none" /\ ~exc'[o][k].clear}
                    = facts'[o].issues
  BY <1>1, <1>3 DEF SourcesOK, EvidenceTrue
<1>4. CASE UNCHANGED exceptionVars
  BY <1>1, <1>2, <1>3, <1>4
     DEF exceptionVars, SourcesOK, EvidenceTrue, SourceNeverGoesBack
<1>5. CASE \E w \in Workers : ReconcileExceptions(run[w].list) /\ UNCHANGED businessVars
  <2>1. PICK w \in Workers : ReconcileExceptions(run[w].list) /\ UNCHANGED businessVars
    BY <1>5
  <2> DEFINE list == run[w].list
  <2>2. list \in [Objects -> Observation \cup {None}]
    BY DEF TypeOK, Run
  <2>3. \A o \in Objects : list[o] # None => ListingOK(list[o], o)
    BY DEF ListsTrue
  <2> HIDE DEF list
  <2>4. ASSUME NEW o \in Objects
        PROVE  /\ source[o].version <= source'[o].version /\ source[o].day <= source'[o].day
               /\ source'[o].version <= facts'[o].version /\ source'[o].day <= day'
               /\ source'[o].version = facts'[o].version /\ source'[o].day = day' =>
                    {k \in Issues : exc'[o][k].status # "none" /\ ~exc'[o][k].clear}
                      = facts'[o].issues
    <3>1. CASE source'[o] = source[o] /\ exc'[o] = exc[o]
      BY <1>1, <1>3, <3>1
    <3>2. CASE /\ list[o] # None /\ list[o] \in Observation
               /\ ~Skipped(source[o], list[o])
               /\ source'[o] = [version |-> list[o].version, day |-> list[o].day]
               /\ \E owner \in [Issues -> Members] :
                    exc'[o] = Reconciled(exc[o], list[o].issues, owner)
      <4>1. PICK owner \in [Issues -> Members] :
              exc'[o] = Reconciled(exc[o], list[o].issues, owner)
        BY <3>2
      <4>2. /\ list[o].version \in Nat /\ list[o].day \in Nat
            /\ list[o].issues \in SUBSET Issues
        BY <3>2, ExceptionsAssumption DEF Observation
      <4>3. {k \in Issues : exc'[o][k].status # "none" /\ ~exc'[o][k].clear} = list[o].issues
        <5> DEFINE rows == Reconciled(exc[o], list[o].issues, owner)
        <5>1. list[o].issues \in SUBSET Issues /\ \A k \in Issues : RowOK(exc[o][k])
          BY <4>2 DEF RowsOK
        <5>2. \A k \in Issues :
                (rows[k].status # "none" /\ ~rows[k].clear) <=> k \in list[o].issues
          BY <5>1, ReconciledRows
        <5> HIDE DEF rows
        <5>3. exc'[o] = rows
          BY <4>1 DEF rows
        <5> QED BY <5>1, <5>2, <5>3
      <4>4. source[o].version <= list[o].version /\ source[o].day <= list[o].day
        BY <1>1, <3>2, <4>2 DEF Skipped
      <4>5. ListingOK(list[o], o) /\ facts' = facts /\ day' = day
        BY <2>1, <2>3, <3>2 DEF businessVars
      <4> QED BY <1>1, <3>2, <4>2, <4>3, <4>4, <4>5 DEF ListingOK
    <3> QED BY <2>1, <2>2, <3>1, <3>2, ReconciledOrders DEF list
  <2> QED BY <1>2, <2>4 DEF SourcesOK, EvidenceTrue, SourceNeverGoesBack
<1>6. CASE Transition /\ UNCHANGED businessVars
  <2>1. PICK o \in Objects, k \in Issues, row \in Record :
           /\ source' = source
           /\ exc' = [exc EXCEPT ![o][k] = row]
           /\ row.clear = exc[o][k].clear
           /\ row.status # "none" /\ exc[o][k].status # "none"
    <3>1. \A d \in Decision : d.object \in Objects /\ d.issue \in Issues
      BY DEF Decision
    <3> QED BY <1>6, <3>1, TransitionStep
  <2>2. exc \in [Objects -> [Issues -> Record]]
    BY DEF TypeOK, ExceptionsTypeOK
  <2>3. ASSUME NEW p \in Objects, NEW i \in Issues
        PROVE  /\ exc'[p][i].status # "none" <=> exc[p][i].status # "none"
               /\ exc'[p][i].clear = exc[p][i].clear
    <3>1. CASE p = o /\ i = k
      BY <2>1, <2>2, <3>1
    <3>2. CASE ~(p = o /\ i = k)
      BY <2>1, <2>2, <3>2
    <3> QED BY <3>1, <3>2
  <2>4. facts' = facts /\ day' = day
    BY <1>6 DEF businessVars
  <2>5. EvidenceTrue'
    BY <2>1, <2>3, <2>4 DEF EvidenceTrue
  <2> QED BY <1>1, <1>2, <2>1, <2>4, <2>5 DEF SourcesOK, SourceNeverGoesBack
<1>7. CASE \E m \in Members : ListExceptions(m) /\ UNCHANGED businessVars
  BY <1>1, <1>2, <1>3, <1>7
     DEF ListExceptions, SourcesOK, EvidenceTrue, SourceNeverGoesBack
<1> QED BY <1>4, <1>5, <1>6, <1>7, ExceptionSteps

-----------------------------------------------------------------------------
(* The tables of the patrol.                                                *)

(* Tracking issues starts an episode or keeps the one there is. *)
LEMMA TrackedStates ==
  ASSUME NEW rows \in [Issues -> IssueState], NEW tracked \in SUBSET Issues,
         NEW today \in 0..MaxDay
  PROVE  /\ States(rows, tracked, today) \in [Issues -> IssueState]
         /\ \A k \in Issues :
              /\ rows[k].episode <= States(rows, tracked, today)[k].episode
              /\ States(rows, tracked, today)[k].episode = rows[k].episode =>
                   States(rows, tracked, today)[k].first = rows[k].first
<1> DEFINE new == States(rows, tracked, today)
<1>1. ASSUME NEW k \in Issues
      PROVE  /\ new[k] \in IssueState
             /\ rows[k].episode <= new[k].episode
             /\ new[k].episode = rows[k].episode => new[k].first = rows[k].first
  <2>1. rows[k] \in IssueState /\ rows[k].episode \in Nat
    BY DEF IssueState
  <2>2. CASE k \in tracked /\ rows[k].active
    BY <2>1, <2>2 DEF States, Entered
  <2>3. CASE k \in tracked /\ ~rows[k].active
    <3>1. new[k] = [active |-> TRUE, episode |-> rows[k].episode + 1, first |-> today]
      BY <2>3 DEF States, Entered
    <3> QED BY <2>1, <3>1 DEF IssueState
  <2>4. CASE k \notin tracked
    <3>1. new[k] = [rows[k] EXCEPT !.active = FALSE]
      BY <2>4 DEF States
    <3> HIDE DEF new
    <3>2. new[k] = [active |-> FALSE, episode |-> rows[k].episode, first |-> rows[k].first]
      BY <2>1, <3>1 DEF IssueState
    <3> QED BY <2>1, <3>2 DEF IssueState
  <2> QED BY <2>2, <2>3, <2>4
<1>2. new = [k \in Issues |-> new[k]]
  BY DEF States
<1> QED BY <1>1, <1>2

LEMMA EarnedLater ==
  ASSUME NEW rows \in Ledger, NEW early \in Nat, NEW late \in Nat, early <= late,
         Earned(rows, early)
  PROVE  Earned(rows, late)
<1> SUFFICES ASSUME NEW o \in Objects, NEW k \in Issues, NEW n \in Nat,
                    <<o, k, n>> \in rows.escalations
             PROVE  /\ n <= rows.state[o][k].episode
                    /\ n = rows.state[o][k].episode =>
                         rows.state[o][k].first + Threshold <= late
  BY DEF Earned
<1>1. /\ n <= rows.state[o][k].episode
      /\ n = rows.state[o][k].episode => rows.state[o][k].first + Threshold <= early
  BY DEF Earned
<1>2. rows.state[o][k].first \in Nat /\ Threshold \in Nat
  BY PatrolAssumption, ExceptionsAssumption DEF Ledger, IssueState
<1> QED BY <1>1, <1>2

LEMMA NothingEarned ==
  ASSUME NEW today
  PROVE  EmptyLedger \in Ledger /\ Earned(EmptyLedger, today)
<1>1. 0 \in 0..MaxDay
  BY ExceptionsAssumption
<1> QED BY <1>1 DEF EmptyLedger, Ledger, IssueState, Earned

(* What one turn of the loop adds to the rows of the transaction. *)
LEMMA ExamineStep ==
  ASSUME TypeOK, Earned(draft, day), DaysOK, NEW w \in Workers, NEW o \in Objects,
         Examine(w, o), run[w].list[o] # None
  PROVE  draft' \in Ledger /\ Earned(draft', day)
<1> DEFINE listed == run[w].list[o].issues
           tracked == Tracked(o, listed)
           today == run[w].day
           states == States(draft.state[o], tracked, today)
           late == {k \in tracked : /\ Overdue(states[k], today)
                                    /\ exc[o][k].status \notin {"resolved", "closed"}}
<1>1. /\ draft \in Ledger /\ run[w].list[o] \in Observation
      /\ today \in 0..MaxDay /\ day \in 0..MaxDay /\ today <= day
      /\ Threshold \in Nat /\ MaxDay \in Nat
  BY PatrolAssumption, ExceptionsAssumption DEF TypeOK, ExceptionsTypeOK, Run, DaysOK
<1>2. listed \in SUBSET Issues
  BY <1>1 DEF Observation
<1>3. tracked \in SUBSET Issues
  BY <1>2 DEF Tracked, Outstanding
<1>4. draft' = [state |-> [draft.state EXCEPT ![o] = states],
                inbox |-> draft.inbox \cup {<<o, k, today>> : k \in listed},
                escalations |-> draft.escalations \cup {<<o, k, states[k].episode>> : k \in late}]
  BY DEF Examine
<1>5. /\ draft.state \in [Objects -> [Issues -> IssueState]]
      /\ draft.inbox \in SUBSET (Objects \X Issues \X (0..MaxDay))
      /\ draft.escalations \in SUBSET (Objects \X Issues \X Nat)
  BY <1>1 DEF Ledger
<1> HIDE DEF tracked
<1>6. /\ states \in [Issues -> IssueState]
      /\ \A k \in Issues :
           /\ draft.state[o][k].episode <= states[k].episode
           /\ states[k].episode = draft.state[o][k].episode =>
                states[k].first = draft.state[o][k].first
  BY <1>1, <1>3, <1>5, TrackedStates
<1> HIDE DEF states
<1>7. late \subseteq Issues
  BY <1>3
<1>8. \A k \in late : Overdue(states[k], today)
  OBVIOUS
<1> HIDE DEF late, listed, today
<1>9. draft' \in Ledger
  <2>1. [draft.state EXCEPT ![o] = states] \in [Objects -> [Issues -> IssueState]]
    BY <1>5, <1>6
  <2>2. {<<o, k, today>> : k \in listed} \in SUBSET (Objects \X Issues \X (0..MaxDay))
    BY <1>1, <1>2
  <2>3. \A k \in Issues : states[k].episode \in Nat
    BY <1>6 DEF IssueState
  <2>4. {<<o, k, states[k].episode>> : k \in late} \in SUBSET (Objects \X Issues \X Nat)
    BY <1>7, <2>3
  <2> QED BY <1>4, <1>5, <2>1, <2>2, <2>4 DEF Ledger
<1>10. ASSUME NEW p \in Objects, NEW k \in Issues, NEW n \in Nat,
              <<p, k, n>> \in draft'.escalations
       PROVE  /\ n <= draft'.state[p][k].episode
              /\ n = draft'.state[p][k].episode => draft'.state[p][k].first + Threshold <= day
  <2>1. draft'.state = [draft.state EXCEPT ![o] = states]
    BY <1>4
  <2>2. /\ draft.state[p][k].episode \in Nat /\ states[k].episode \in Nat
        /\ draft.state[p][k].first \in Nat /\ states[k].first \in Nat
    BY <1>1, <1>5, <1>6 DEF IssueState
  <2>3. CASE <<p, k, n>> \in draft.escalations
    <3>1. /\ n <= draft.state[p][k].episode
          /\ n = draft.state[p][k].episode => draft.state[p][k].first + Threshold <= day
      BY <2>3 DEF Earned
    <3>2. CASE p = o
      <4>1. draft'.state[p][k] = states[k]
        BY <1>5, <2>1, <3>2
      <4> QED BY <1>6, <2>2, <3>1, <3>2, <4>1
    <3>3. CASE p # o
      <4>1. draft'.state[p][k] = draft.state[p][k]
        BY <1>5, <2>1, <3>3
      <4> QED BY <3>1, <4>1
    <3> QED BY <3>2, <3>3
  <2>4. CASE <<p, k, n>> \in {<<o, i, states[i].episode>> : i \in late}
    <3>1. p = o /\ k \in late /\ n = states[k].episode
      BY <2>4
    <3>2. draft'.state[p][k] = states[k]
      BY <1>5, <2>1, <3>1
    <3>3. states[k].first + Threshold <= day
      BY <1>1, <1>8, <2>2, <3>1 DEF Overdue
    <3> QED BY <2>2, <3>1, <3>2, <3>3
  <2> QED BY <1>4, <1>10, <2>3, <2>4
<1> QED BY <1>9, <1>10 DEF Earned

(* The variables of the patrol. *)
PatrolTypeOK ==
  /\ policy \in [version: 0..MaxPolicy, scope: Scopes \cup {{}}]
  /\ holder \in Workers \cup {None}
  /\ ledger \in Ledger
  /\ draft \in Ledger
  /\ run \in [Workers -> Run]

PatrolOK == PatrolTypeOK /\ Earned(ledger, day) /\ Earned(draft, day) /\ DaysOK /\ TodoOK

(* A worker's locals, where all others keep theirs. *)
LEMMA RunStep ==
  ASSUME TypeOK, DaysOK, TodoOK, NEW w \in Workers, NEW new \in Run,
         run' = [run EXCEPT ![w] = new], day' = day,
         new.day <= day, new.pc # "examine" => new.todo = {},
         \A o \in new.todo : new.list[o] # None
  PROVE  run' \in [Workers -> Run] /\ DaysOK' /\ TodoOK'
<1>1. run \in [Workers -> Run]
  BY DEF TypeOK
<1>2. \A v \in Workers : run'[v] = IF v = w THEN new ELSE run[v]
  BY <1>1
<1> QED BY <1>1, <1>2 DEF DaysOK, TodoOK

LEMMA IdleIsRun == IdleRun \in Run /\ IdleRun.day = 0 /\ IdleRun.todo = {}
<1>1. 0 \in 0..MaxDay
  BY ExceptionsAssumption
<1> QED BY <1>1 DEF IdleRun, Run

(* A worker goes idle. *)
LEMMA IdleStep ==
  ASSUME TypeOK, DaysOK, TodoOK, NEW w \in Workers, run' = [run EXCEPT ![w] = IdleRun],
         day' = day
  PROVE  run' \in [Workers -> Run] /\ DaysOK' /\ TodoOK'
<1>1. 0 <= day
  BY ExceptionsAssumption DEF TypeOK, ExceptionsTypeOK
<1> QED BY <1>1, IdleIsRun, RunStep

(* A transaction ends: the rows it holds are dropped. *)
LEMMA EndStep ==
  ASSUME TypeOK, Earned(draft, day), NEW w \in Workers, End(w), day' = day
  PROVE  holder' \in Workers \cup {None} /\ draft' \in Ledger /\ Earned(draft', day')
BY NothingEarned DEF End, TypeOK

(* Two fields of the locals of a patrol change at once. *)
LEMMA BegunRun ==
  ASSUME NEW d
  PROVE  [IdleRun EXCEPT !.pc = "list", !.day = d]
           = [pc |-> "list", day |-> d, list |-> [o \in Objects |-> None], todo |-> {}]
<1> DEFINE s == [pc |-> "list", day |-> 0, list |-> [o \in Objects |-> None], todo |-> {}]
<1>1. [IdleRun EXCEPT !.pc = "list"] = s
  BY DEF IdleRun
<1>2. [s EXCEPT !.day = d]
        = [pc |-> "list", day |-> d, list |-> [o \in Objects |-> None], todo |-> {}]
  OBVIOUS
<1> QED
  <2> HIDE DEF s
  <2> QED BY <1>1, <1>2, Zenon

LEMMA RunFields ==
  ASSUME NEW r \in Run, NEW l, NEW t
  PROVE  /\ [r EXCEPT !.pc = "reconcile", !.list = l]
              = [pc |-> "reconcile", day |-> r.day, list |-> l, todo |-> r.todo]
         /\ [r EXCEPT !.pc = "examine", !.todo = t]
              = [pc |-> "examine", day |-> r.day, list |-> r.list, todo |-> t]
<1> DEFINE moved(pc) == [pc |-> pc, day |-> r.day, list |-> r.list, todo |-> r.todo]
<1>1. [r EXCEPT !.pc = "reconcile"] = moved("reconcile")
  BY DEF Run
<1>2. [r EXCEPT !.pc = "examine"] = moved("examine")
  BY DEF Run
<1>3. [moved("reconcile") EXCEPT !.list = l]
        = [pc |-> "reconcile", day |-> r.day, list |-> l, todo |-> r.todo]
  OBVIOUS
<1>4. [moved("examine") EXCEPT !.todo = t]
        = [pc |-> "examine", day |-> r.day, list |-> r.list, todo |-> t]
  OBVIOUS
<1> QED
  <2> HIDE DEF moved
  <2> QED BY <1>1, <1>2, <1>3, <1>4, Zenon

LEMMA PatrolStep ==
  ASSUME TypeOK, PatrolOK, [Next]_vars
  PROVE  PatrolOK'
<1>1. /\ run \in [Workers -> Run] /\ day \in Nat /\ day' \in Nat /\ day <= day'
      /\ ledger \in Ledger /\ draft \in Ledger /\ MaxPolicy \in Nat
      /\ policy.version \in Nat
  BY BusinessStep, ExceptionsAssumption, PatrolAssumption
     DEF PatrolOK, PatrolTypeOK, TypeOK, ExceptionsTypeOK
<1>2. ASSUME UNCHANGED <<holder, ledger, draft, run>>,
             policy' \in [version: 0..MaxPolicy, scope: Scopes \cup {{}}]
      PROVE  PatrolOK'
  <2>1. Earned(ledger, day') /\ Earned(draft, day')
    BY <1>1, EarnedLater DEF PatrolOK
  <2>2. ASSUME NEW w \in Workers
        PROVE  run[w].day <= day'
    <3>1. run[w].day \in Nat /\ run[w].day <= day
      BY <1>1, ExceptionsAssumption DEF Run, PatrolOK, DaysOK
    <3> QED BY <1>1, <3>1
  <2> QED BY <1>2, <2>1, <2>2 DEF PatrolOK, PatrolTypeOK, DaysOK, TodoOK
<1>3. ASSUME NEW w \in Workers, Begin(w)
      PROVE  PatrolOK'
  <2> DEFINE new == [pc |-> "list", day |-> day, list |-> [o \in Objects |-> None], todo |-> {}]
  <2>1. run' = [run EXCEPT ![w] = new]
    <3>1. [IdleRun EXCEPT !.pc = "list", !.day = day] = new
      BY BegunRun, Zenon
    <3>2. run' = [run EXCEPT ![w] = [IdleRun EXCEPT !.pc = "list", !.day = day]]
      BY <1>3 DEF Begin
    <3> QED BY <3>1, <3>2
  <2>2. new \in Run
    BY DEF Run, TypeOK, ExceptionsTypeOK
  <2>3. day' = day /\ UNCHANGED <<policy, ledger>> /\ draft' = ledger /\ holder' = w
    BY <1>3 DEF Begin, businessVars
  <2>4. run' \in [Workers -> Run] /\ DaysOK' /\ TodoOK'
    BY <1>1, <2>1, <2>2, <2>3, RunStep DEF PatrolOK
  <2> QED BY <2>3, <2>4 DEF PatrolOK, PatrolTypeOK
<1>4. ASSUME NEW w \in Workers, List(w)
      PROVE  PatrolOK'
  <2> DEFINE new == [pc |-> "reconcile", day |-> run[w].day, list |-> Listed,
                     todo |-> run[w].todo]
  <2>1. run[w] \in Run /\ run[w].pc = "list" /\ run[w].todo = {}
    BY <1>1, <1>4 DEF List, PatrolOK, TodoOK
  <2>2. run' = [run EXCEPT ![w] = new]
    <3>1. [run[w] EXCEPT !.pc = "reconcile", !.list = Listed] = new
      BY <2>1, RunFields, Zenon
    <3>2. run' = [run EXCEPT ![w] = [run[w] EXCEPT !.pc = "reconcile", !.list = Listed]]
      BY <1>1, <1>4 DEF List
    <3> QED BY <3>1, <3>2
  <2>3. Listed \in [Objects -> Observation \cup {None}]
    BY DEF Listed, Listing, Observation, TypeOK, ExceptionsTypeOK
  <2>4. new \in Run
    BY <2>1, <2>3 DEF Run
  <2>5. day' = day /\ UNCHANGED <<policy, holder, ledger, draft>>
    BY <1>4 DEF List, businessVars
  <2>6. run[w].day <= day
    BY DEF PatrolOK, DaysOK
  <2>7. run' \in [Workers -> Run] /\ DaysOK' /\ TodoOK'
    BY <2>1, <2>2, <2>4, <2>5, <2>6, RunStep DEF PatrolOK
  <2> QED BY <2>5, <2>7 DEF PatrolOK, PatrolTypeOK
<1>5. ASSUME NEW w \in Workers, Reconcile(w)
      PROVE  PatrolOK'
  <2> DEFINE listed == {o \in Objects : run[w].list[o] # None}
             new == [pc |-> "examine", day |-> run[w].day, list |-> run[w].list,
                     todo |-> listed]
  <2>1. run[w] \in Run
    BY <1>1
  <2>2. run' = [run EXCEPT ![w] = new]
    <3>1. [run[w] EXCEPT !.pc = "examine", !.todo = listed] = new
      <4> HIDE DEF listed
      <4> QED BY <2>1, RunFields, Zenon
    <3>2. run' = [run EXCEPT ![w] = [run[w] EXCEPT !.pc = "examine", !.todo = listed]]
      BY <1>1, <1>5 DEF Reconcile
    <3> QED BY <3>1, <3>2
  <2>3. new \in Run
    BY <2>1 DEF Run
  <2>4. day' = day /\ UNCHANGED <<policy, holder, ledger, draft>>
    BY <1>5 DEF Reconcile, businessVars
  <2>5. run[w].day <= day
    BY DEF PatrolOK, DaysOK
  <2>6. run' \in [Workers -> Run] /\ DaysOK' /\ TodoOK'
    BY <2>2, <2>3, <2>4, <2>5, RunStep DEF PatrolOK
  <2> QED BY <2>4, <2>6 DEF PatrolOK, PatrolTypeOK
<1>6. ASSUME NEW w \in Workers, NEW o \in Objects, Examine(w, o)
      PROVE  PatrolOK'
  <2> DEFINE rest == run[w].todo \ {o}
             new == [pc |-> run[w].pc, day |-> run[w].day, list |-> run[w].list, todo |-> rest]
  <2>1. run[w] \in Run /\ run[w].pc = "examine" /\ o \in run[w].todo
    BY <1>1, <1>6 DEF Examine
  <2>2. run' = [run EXCEPT ![w] = new]
    <3>1. [run[w] EXCEPT !.todo = rest] = new
      BY <2>1 DEF Run
    <3>2. run' = [run EXCEPT ![w] = [run[w] EXCEPT !.todo = rest]]
      BY <1>1, <1>6 DEF Examine
    <3> QED BY <3>1, <3>2
  <2>3. new \in Run
    BY <2>1 DEF Run
  <2>4. day' = day /\ UNCHANGED <<policy, holder, ledger>>
    BY <1>6 DEF Examine, businessVars
  <2>5. run[w].day <= day /\ \A p \in run[w].todo : run[w].list[p] # None
    BY DEF PatrolOK, DaysOK, TodoOK
  <2>6. run' \in [Workers -> Run] /\ DaysOK' /\ TodoOK'
    BY <2>1, <2>2, <2>3, <2>4, <2>5, RunStep DEF PatrolOK
  <2>7. draft' \in Ledger /\ Earned(draft', day)
    BY <1>6, <2>1, <2>5, ExamineStep DEF PatrolOK
  <2> QED BY <2>4, <2>6, <2>7 DEF PatrolOK, PatrolTypeOK
<1>7. ASSUME NEW w \in Workers, Commit(w)
      PROVE  PatrolOK'
  <2>1. /\ End(w) /\ run' = [run EXCEPT ![w] = IdleRun] /\ ledger' = draft
        /\ day' = day /\ policy' = policy
    BY <1>7 DEF Commit, businessVars
  <2> QED BY <1>1, <2>1, EndStep, IdleStep DEF PatrolOK, PatrolTypeOK
<1>8. ASSUME NEW w \in Workers, Rollback(w) \/ ReconcileUnanswered(w)
      PROVE  PatrolOK'
  <2>1. /\ End(w) /\ run' = [run EXCEPT ![w] = IdleRun] /\ ledger' = ledger
        /\ day' = day /\ policy' = policy
    BY <1>8 DEF Rollback, ReconcileUnanswered, businessVars
  <2> QED BY <1>1, <2>1, EndStep, IdleStep DEF PatrolOK, PatrolTypeOK
<1>9. ASSUME NEW w \in Workers, LoseRow(w)
      PROVE  PatrolOK'
  <2>1. End(w) /\ run' = run /\ ledger' = ledger /\ day' = day /\ policy' = policy
    BY <1>9 DEF LoseRow, businessVars
  <2>2. DaysOK' /\ TodoOK'
    BY <2>1 DEF PatrolOK, DaysOK, TodoOK
  <2> QED BY <1>1, <2>1, <2>2, EndStep DEF PatrolOK, PatrolTypeOK
<1>10. CASE SavePolicy
  <2>1. PICK scope \in Scopes \cup {{}} :
          policy' = [version |-> policy.version + 1, scope |-> scope]
    BY <1>10 DEF SavePolicy
  <2>2. policy.version + 1 \in 0..MaxPolicy
    BY <1>1, <1>10 DEF SavePolicy
  <2> QED BY <1>2, <1>10, <2>1, <2>2 DEF SavePolicy
<1>11. CASE Business \/ People \/ UNCHANGED vars
  BY <1>2, <1>11 DEF Business, People, vars, PatrolOK, PatrolTypeOK
<1> QED BY <1>3, <1>4, <1>5, <1>6, <1>7, <1>8, <1>9, <1>10, <1>11 DEF Next, Work, GiveUp, Fault

-----------------------------------------------------------------------------
(* The theorems.                                                            *)

LEMMA Split == IInv <=> /\ ExceptionsTypeOK /\ RowsOK /\ ListsTrue /\ SourcesOK
                        /\ EvidenceTrue /\ PagesOK /\ PatrolOK
BY DEF IInv, TypeOK, PatrolOK, PatrolTypeOK

LEMMA Initially == Init => IInv
<1> SUFFICES ASSUME Init
             PROVE  IInv
  OBVIOUS
<1>1. /\ 0 \in 0..MaxDay /\ 1 \in 1..MaxSource /\ 0 \in 0..MaxSource /\ 0 \in 0..MaxPolicy
  BY ExceptionsAssumption, PatrolAssumption
<1>2. NoRecord \in Record /\ RowOK(NoRecord) /\ NoRecord.status = "none"
  BY DEF NoRecord, Record, RowOK
<1>3. \A o \in Objects : source[o].version = 0 /\ source[o].day = 0 /\ facts[o].version = 1
  BY DEF Init, ExceptionsInit
<1>4. ExceptionsTypeOK /\ RowsOK
  BY <1>1, <1>2 DEF Init, ExceptionsInit, ExceptionsTypeOK, RowsOK
<1>5. SourcesOK /\ EvidenceTrue /\ PagesOK
  BY <1>3 DEF Init, ExceptionsInit, SourcesOK, EvidenceTrue, PagesOK, Newer
<1>6. ListsTrue /\ DaysOK /\ TodoOK /\ run \in [Workers -> Run]
  <2>1. run = [w \in Workers |-> IdleRun] /\ day = 0
    BY DEF Init, ExceptionsInit
  <2>2. \A w \in Workers : run[w] = IdleRun
    BY <2>1
  <2>3. \A o \in Objects : IdleRun.list[o] = None
    BY DEF IdleRun
  <2>4. ListsTrue
    BY <2>2, <2>3 DEF ListsTrue
  <2>5. DaysOK
    BY <2>1, <2>2, IdleIsRun DEF DaysOK
  <2>6. TodoOK
    BY <2>2, IdleIsRun DEF TodoOK
  <2> QED BY <2>1, <2>4, <2>5, <2>6, IdleIsRun
<1>7. policy \in [version: 0..MaxPolicy, scope: Scopes \cup {{}}]
  BY <1>1 DEF Init
<1>8. PatrolOK
  BY <1>6, <1>7, NothingEarned DEF Init, PatrolOK, PatrolTypeOK
<1> QED BY <1>4, <1>5, <1>6, <1>8, Split

LEMMA Stepwise == IInv /\ [Next]_vars => /\ IInv' /\ SourceNeverGoesBack(source, source')
                                         /\ DecidedAsSeen(mutation, mutation', exc)
<1> SUFFICES ASSUME IInv, [Next]_vars
             PROVE  /\ IInv' /\ SourceNeverGoesBack(source, source')
                    /\ DecidedAsSeen(mutation, mutation', exc)
  OBVIOUS
<1>1. /\ TypeOK /\ RowsOK /\ ListsTrue /\ SourcesOK /\ EvidenceTrue /\ PagesOK
      /\ PatrolOK
  BY Split DEF IInv
<1>2. ExceptionsTypeOK' /\ RowsOK'
  BY <1>1, RecordsStep, BusinessStep DEF ExceptionsTypeOK
<1>3. PagesOK' /\ DecidedAsSeen(mutation, mutation', exc)
  BY <1>1, PagesStep, DecisionsStep
<1>4. ListsTrue' /\ SourcesOK' /\ EvidenceTrue' /\ SourceNeverGoesBack(source, source')
  BY <1>1, EvidenceStep
<1>5. PatrolOK'
  BY <1>1, PatrolStep
<1>6. IInv'
  BY <1>2, <1>3, <1>4, <1>5 DEF IInv, TypeOK, PatrolOK, PatrolTypeOK
<1> QED BY <1>3, <1>4, <1>6

LEMMA Invariance == Spec => []IInv
<1>1. Init => IInv
  BY Initially
<1>2. IInv /\ [Next]_vars => IInv'
  BY Stepwise
<1> QED BY <1>1, <1>2, PTL DEF Spec

(* Every variable keeps its type: exceptions.ts:6 and the tables of patrol.ts:11-15. *)
THEOREM TypeCorrect == Spec => []TypeOK
<1>1. IInv => TypeOK
  BY DEF IInv
<1> QED BY <1>1, Invariance, PTL

(* Exceptions that know their order as it is agree with it (exceptions.ts:21-25). *)
THEOREM EvidenceCorrect == Spec => []EvidenceTrue
<1>1. IInv => EvidenceTrue
  BY DEF IInv
<1> QED BY <1>1, Invariance, PTL

(* No exception stays closed over an issue that is there (exceptions.ts:23,36). *)
THEOREM ClosedCorrect == Spec => []ClosedOnEvidence
<1>1. IInv => ClosedOnEvidence
  BY DEF IInv, RowsOK, RowOK, ClosedOnEvidence
<1> QED BY <1>1, Invariance, PTL

(* A decision that is accepted finds the record as its actor was shown it, status,
   evidence and owner (exceptions.ts:21-25,28,35-37). *)
THEOREM DecisionsCorrect == Spec => DecisionsAsSeen
<1>1. IInv /\ [Next]_vars => [DecidedAsSeen(mutation, mutation', exc)]_mutation
  BY Stepwise
<1> QED BY <1>1, Invariance, PTL DEF Spec, DecisionsAsSeen

(* No escalation is early, or of an episode that was undone (patrol.ts:39-45). *)
THEOREM EscalationsCorrect == Spec => []EscalationsEarned
<1>1. ASSUME IInv
      PROVE  EscalationsEarned
  <2> SUFFICES ASSUME NEW entry \in ledger.escalations
               PROVE  LET state == ledger.state[entry[1]][entry[2]]
                      IN  /\ entry[3] <= state.episode
                          /\ entry[3] = state.episode => state.first + Threshold <= day
    BY DEF EscalationsEarned
  <2>1. ledger.escalations \in SUBSET (Objects \X Issues \X Nat)
    BY <1>1 DEF IInv, TypeOK, Ledger
  <2>2. PICK o \in Objects, k \in Issues, n \in Nat : entry = <<o, k, n>>
    BY <2>1
  <2> QED BY <1>1, <2>2 DEF IInv, Earned
<1> QED BY <1>1, Invariance, PTL

(* An older observation never replaces a newer one (exceptions.ts:21). *)
THEOREM SourcesCorrect == Spec => SourceAdvances
<1>1. IInv /\ [Next]_vars => [SourceNeverGoesBack(source, source')]_source
  BY Stepwise
<1> QED BY <1>1, Invariance, PTL DEF Spec, SourceAdvances
=============================================================================
