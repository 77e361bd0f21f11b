-------------------------- MODULE EventFeed_proofs --------------------------
(***************************************************************************)
(* Proofs about the event feed, for every number of tenants, transactions, *)
(* overlapping pollers and page sizes.                                     *)
(***************************************************************************)
EXTENDS EventFeed, FiniteSetTheorems, TLAPS

-----------------------------------------------------------------------------
(* The parts of the inductive invariant.                                    *)

(* A transaction that writes a tenant's rows holds that tenant's lock. *)
Locked == \A x \in Writers : writer[x].tenant # None => lock[writer[x].tenant] = x

(* Positions are taken from one counter, and those of a running transaction lie
   behind everything its tenant has committed. *)
Ordered ==
  /\ \A t \in Tenants : \A e \in outbox[t] : 0 < e /\ e <= sequence
  /\ \A x \in Writers : \A e \in writer[x].rows :
       /\ writer[x].tenant # None /\ 0 < e /\ e <= sequence
       /\ \A f \in outbox[writer[x].tenant] : f < e

(* A position is one of the tenant's events, or the start. *)
Places(t) == outbox[t] \cup {0}

(* All of the tenant's events up to a position have been stored. *)
StoredUpTo(t, e) == \A f \in outbox[t] : f <= e => f \in activity[t]

Stored ==
  \A t \in Tenants :
    /\ activity[t] \subseteq outbox[t]
    /\ \A e \in activity[t] : StoredUpTo(t, e)
    /\ cursor[t] # None => cursor[t] \in Places(t) /\ StoredUpTo(t, cursor[t])

Polling ==
  \A p \in Pollers : poller[p].pc # "idle" =>
    /\ poller[p].after \in Places(poller[p].tenant)
    /\ StoredUpTo(poller[p].tenant, poller[p].after)
    /\ poller[p].page \subseteq outbox[poller[p].tenant]
    /\ \A e \in poller[p].page, f \in outbox[poller[p].tenant] :
         f <= e => f \in poller[p].page \cup activity[poller[p].tenant]

(* The retired position has been read. *)
RetiredRead == Retired \in Places(Demo) /\ StoredUpTo(Demo, Retired)

IInv == TypeOK /\ Locked /\ Ordered /\ Stored /\ Polling /\ RetiredRead

-----------------------------------------------------------------------------
LEMMA InitIInv == Init => IInv
<1> SUFFICES ASSUME Init PROVE IInv
  OBVIOUS
<1> USE FeedAssumption DEF Init
<1>1. outbox \in [Tenants -> SUBSET Nat] /\ outbox[Demo] = 1..Retired
  OBVIOUS
<1>2. TypeOK
  <2>1. cursor \in [Tenants -> Nat \cup {None}]
    OBVIOUS
  <2>2. jobs \in [Tenants -> SUBSET Nat]
    BY <1>1
  <2>3. writer \in [Writers -> WriterRow] /\ poller \in [Pollers -> PollerRow]
        /\ \A p \in Pollers : poller[p].pc = "idle"
    BY DEF IdleWriter, IdlePoller, WriterRow, PollerRow
  <2> QED BY <1>1, <2>1, <2>2, <2>3 DEF TypeOK
<1>3. Locked /\ Ordered /\ Polling
  BY DEF Locked, Ordered, Polling, IdleWriter, IdlePoller
<1>4. Stored
  BY DEF Stored, StoredUpTo, Places
<1>5. RetiredRead
  BY <1>1 DEF RetiredRead, StoredUpTo, Places
<1> QED BY <1>2, <1>3, <1>4, <1>5 DEF IInv

(* A page holds events of the log behind the position, and none before an event of
   the page is left out. *)
LEMMA PageFacts ==
  ASSUME TypeOK, Ordered, NEW t \in Tenants, NEW after \in Nat,
         NEW e \in NextPage(t, after), NEW f \in outbox[t], f <= e, f > after
  PROVE  f \in NextPage(t, after)
<1> DEFINE rest == {g \in outbox[t] : g > after}
           upTo(g) == {h \in rest : h <= g}
<1>1. outbox[t] \subseteq Nat /\ sequence \in Nat /\ outbox[t] \subseteq 0..sequence
  BY DEF TypeOK, Ordered
<1>2. IsFiniteSet(upTo(e)) /\ IsFiniteSet(upTo(f))
  <2>1. IsFiniteSet(0..sequence)
    BY <1>1, FS_Interval
  <2> QED BY <1>1, <2>1, FS_Subset
<1>3. f \in rest /\ e \in rest /\ Cardinality(upTo(e)) <= Page
  BY DEF NextPage
<1>4. upTo(f) \subseteq upTo(e)
  BY <1>1, <1>3
<1>5. Cardinality(upTo(f)) <= Cardinality(upTo(e))
  BY <1>2, <1>4, FS_Subset
<1>6. Cardinality(upTo(f)) \in Nat /\ Cardinality(upTo(e)) \in Nat /\ Page \in Nat
  BY <1>2, FS_CardinalityType, FeedAssumption
<1> QED BY <1>3, <1>5, <1>6 DEF NextPage

-----------------------------------------------------------------------------
(* Steps of the service.                                                    *)

(* A step that leaves the log and the platform alone. *)
LEMMA LogKept ==
  ASSUME Stored, Polling, RetiredRead, UNCHANGED <<outbox, platformVars, poller>>
  PROVE  Stored' /\ Polling' /\ RetiredRead'
  BY DEF Stored, Polling, RetiredRead, StoredUpTo, Places, platformVars

LEMMA BeginSafe ==
  ASSUME IInv, NEW x \in Writers, NEW t \in Tenants, Begin(x, t)
  PROVE  IInv'
<1> USE DEF IInv, Begin
<1>1. writer \in [Writers -> WriterRow] /\ lock \in [Tenants -> Writers \cup {None}]
  BY DEF TypeOK
<1>2. /\ writer'[x].tenant = t /\ writer'[x].rows = writer[x].rows
      /\ \A y \in Writers \ {x} : writer'[y] = writer[y]
  BY <1>1 DEF WriterRow
<1>3. TypeOK'
  BY <1>1 DEF TypeOK, WriterRow, platformVars
<1>4. Locked'
  BY <1>1, <1>2, FeedAssumption DEF Locked, Free, WriterRow
<1>5. Ordered'
  <2>1. writer[x].rows = {}
    BY DEF Ordered
  <2> QED BY <1>2, <2>1 DEF Ordered
<1> QED BY <1>3, <1>4, <1>5, LogKept

LEMMA InsertRowSafe ==
  ASSUME IInv, NEW x \in Writers, InsertRow(x)
  PROVE  IInv'
<1> USE DEF IInv, InsertRow
<1>1. writer \in [Writers -> WriterRow] /\ outbox \in [Tenants -> SUBSET Nat] /\ sequence \in Nat
  BY DEF TypeOK
<1>2. /\ writer'[x].tenant = writer[x].tenant
      /\ writer'[x].rows = writer[x].rows \cup {sequence + 1}
      /\ \A y \in Writers \ {x} : writer'[y] = writer[y]
  BY <1>1 DEF WriterRow
<1>3. TypeOK'
  BY <1>1 DEF TypeOK, WriterRow, platformVars
<1>4. Locked'
  BY <1>2 DEF Locked
<1>5. Ordered'
  <2>1. \A t \in Tenants : \A e \in outbox[t] : e \in Nat /\ 0 < e /\ e <= sequence
    BY <1>1 DEF Ordered
  <2>2. \A y \in Writers : writer[y].rows \subseteq Nat /\ writer[y].tenant \in Tenants \cup {None}
    BY <1>1 DEF WriterRow
  <2>3. ASSUME NEW y \in Writers, NEW e \in writer'[y].rows
        PROVE  /\ writer'[y].tenant # None /\ 0 < e /\ e <= sequence'
               /\ \A f \in outbox'[writer'[y].tenant] : f < e
    <3>1. CASE e \in writer[y].rows
      BY <1>1, <1>2, <2>2, <3>1 DEF Ordered
    <3>2. CASE e \notin writer[y].rows
      BY <1>1, <1>2, <2>1, <2>2, <2>3, <3>2
    <3> QED BY <3>1, <3>2
  <2> QED BY <1>1, <2>1, <2>3 DEF Ordered
<1> QED BY <1>3, <1>4, <1>5, LogKept

(* The end of a transaction frees its lock and forgets its rows. *)
LEMMA EndTransactionSafe ==
  ASSUME TypeOK, Locked, NEW x \in Writers, writer[x].tenant # None, EndTransaction(x)
  PROVE  /\ Locked' /\ writer'[x].rows = {} /\ \A y \in Writers \ {x} : writer'[y] = writer[y]
         /\ lock' \in [Tenants -> Writers \cup {None}] /\ writer' \in [Writers -> WriterRow]
<1>1. writer \in [Writers -> WriterRow] /\ lock \in [Tenants -> Writers \cup {None}]
  BY DEF TypeOK
<1>2. /\ writer'[x].tenant = None /\ writer'[x].rows = {}
      /\ \A y \in Writers \ {x} : writer'[y] = writer[y]
      /\ writer' \in [Writers -> WriterRow] /\ lock' \in [Tenants -> Writers \cup {None}]
  BY <1>1 DEF EndTransaction, IdleWriter, WriterRow
<1>3. ASSUME NEW y \in Writers, writer'[y].tenant # None
      PROVE  lock'[writer'[y].tenant] = y
  <2>1. y # x /\ writer[y].tenant # None /\ writer[y].tenant \in Tenants
    BY <1>1, <1>2, <1>3 DEF WriterRow
  <2>2. writer[y].tenant # writer[x].tenant
    BY <2>1 DEF Locked
  <2> QED BY <1>1, <1>2, <2>1, <2>2 DEF EndTransaction, Locked
<1> QED BY <1>2, <1>3 DEF Locked

LEMMA RollbackSafe ==
  ASSUME IInv, NEW x \in Writers, Rollback(x)
  PROVE  IInv'
<1> USE DEF IInv, Rollback
<1>1. TypeOK' /\ Locked'
  BY EndTransactionSafe DEF TypeOK, EndTransaction, platformVars
<1>2. Ordered'
  BY EndTransactionSafe DEF Ordered, EndTransaction
<1> QED BY <1>1, <1>2, LogKept DEF EndTransaction

(* What commits lies behind every event that was visible before. *)
LEMMA CommitSafe ==
  ASSUME IInv, NEW x \in Writers, Commit(x)
  PROVE  IInv'
<1> DEFINE t == writer[x].tenant
           new == writer[x].rows
<1> USE DEF IInv, Commit
<1>1. /\ t \in Tenants /\ new \subseteq Nat
      /\ outbox \in [Tenants -> SUBSET Nat] /\ sequence \in Nat
      /\ writer \in [Writers -> WriterRow] /\ poller \in [Pollers -> PollerRow]
      /\ cursor \in [Tenants -> Nat \cup {None}] /\ activity \in [Tenants -> SUBSET Nat]
  BY DEF TypeOK, WriterRow
<1>2. /\ outbox'[t] = outbox[t] \cup new
      /\ \A u \in Tenants \ {t} : outbox'[u] = outbox[u]
      /\ outbox' \in [Tenants -> SUBSET Nat]
      /\ UNCHANGED <<sequence, platformVars, poller>>
  BY <1>1 DEF EndTransaction
<1>3. \A e \in new : 0 < e /\ e <= sequence /\ \A f \in outbox[t] : f < e
  BY DEF Ordered
<1>4. TypeOK' /\ Locked'
  BY <1>2, EndTransactionSafe DEF TypeOK, platformVars
<1>5. Ordered'
  <2>1. \A u \in Tenants : \A e \in outbox'[u] : 0 < e /\ e <= sequence
    BY <1>2, <1>3 DEF Ordered
  <2>2. ASSUME NEW y \in Writers, NEW e \in writer'[y].rows
        PROVE  /\ writer'[y].tenant # None /\ 0 < e /\ e <= sequence
               /\ \A f \in outbox'[writer'[y].tenant] : f < e
    <3>1. y # x /\ writer'[y] = writer[y] /\ e \in writer[y].rows
      BY <2>2, EndTransactionSafe
    <3>2. writer[y].tenant # None /\ writer[y].tenant \in Tenants
      BY <1>1, <3>1 DEF Ordered, WriterRow
    <3>3. writer[y].tenant # t
      BY <3>1, <3>2 DEF Locked
    <3> QED BY <1>2, <3>1, <3>2, <3>3 DEF Ordered
  <2> QED BY <1>2, <2>1, <2>2 DEF Ordered
<1>6. ASSUME NEW u \in Tenants, NEW e \in Places(u), StoredUpTo(u, e)
      PROVE  e \in Places(u)' /\ StoredUpTo(u, e)'
  <2>1. ASSUME u = t PROVE e \in Nat /\ \A f \in new : ~(f <= e)
    BY <1>1, <1>3, <1>6, <2>1 DEF Places
  <2> QED BY <1>2, <1>6, <2>1 DEF Places, StoredUpTo, platformVars
<1>7. Stored'
  <2>1. ASSUME NEW u \in Tenants
        PROVE  /\ activity[u] \subseteq outbox'[u]
               /\ \A e \in activity[u] : StoredUpTo(u, e)'
               /\ cursor[u] # None => cursor[u] \in Places(u)' /\ StoredUpTo(u, cursor[u])'
    <3>1. activity[u] \subseteq outbox[u] /\ \A e \in activity[u] : StoredUpTo(u, e)
      BY DEF Stored
    <3>2. activity[u] \subseteq Places(u)
      BY <3>1 DEF Places
    <3>3. cursor[u] # None => cursor[u] \in Places(u) /\ StoredUpTo(u, cursor[u])
      BY DEF Stored
    <3>4. ASSUME cursor[u] # None PROVE cursor[u] \in Places(u)' /\ StoredUpTo(u, cursor[u])'
      BY <1>2, <1>6, <3>3, <3>4 DEF platformVars, StoredUpTo, Places
    <3>5. ASSUME NEW e \in activity[u] PROVE StoredUpTo(u, e)'
      BY <1>6, <3>1, <3>2
    <3> QED BY <1>2, <3>1, <3>4, <3>5
  <2> QED BY <1>2, <2>1 DEF Stored, platformVars, StoredUpTo, Places
<1>8. Polling'
  <2>1. ASSUME NEW p \in Pollers, poller[p].pc # "idle"
        PROVE  /\ poller[p].after \in Places(poller[p].tenant)'
               /\ StoredUpTo(poller[p].tenant, poller[p].after)'
               /\ poller[p].page \subseteq outbox'[poller[p].tenant]
               /\ \A e \in poller[p].page, f \in outbox'[poller[p].tenant] :
                    f <= e => f \in poller[p].page \cup activity[poller[p].tenant]
    <3> DEFINE u == poller[p].tenant
    <3>1. u \in Tenants /\ poller[p].page \subseteq outbox[u]
      BY <2>1 DEF TypeOK, Polling
    <3>2. poller[p].after \in Places(u) /\ StoredUpTo(u, poller[p].after)
      BY <2>1 DEF Polling
    <3>3. ASSUME NEW e \in poller[p].page, NEW f \in outbox'[u], f <= e
          PROVE  f \in outbox[u]
      BY <1>1, <1>2, <1>3, <3>1, <3>3
    <3>4. \A e \in poller[p].page, f \in outbox[u] : f <= e => f \in poller[p].page \cup activity[u]
      BY <2>1 DEF Polling
    <3> QED BY <1>2, <1>6, <3>1, <3>2, <3>3, <3>4
  <2> QED BY <1>2, <2>1 DEF Polling, platformVars, StoredUpTo, Places
<1>9. RetiredRead'
  BY <1>2, <1>6, FeedAssumption DEF RetiredRead, Places, StoredUpTo, platformVars
<1> QED BY <1>4, <1>5, <1>7, <1>8, <1>9

-----------------------------------------------------------------------------
(* Steps of a poller.                                                       *)

(* The log and its writers do not move. *)
LEMMA ServiceKept ==
  ASSUME Locked, Ordered, UNCHANGED serviceVars
  PROVE  Locked' /\ Ordered'
  BY DEF Locked, Ordered, serviceVars

LEMMA ReadCursorSafe ==
  ASSUME IInv, NEW p \in Pollers, NEW t \in Tenants, ReadCursor(p, t)
  PROVE  IInv'
<1> USE DEF IInv, ReadCursor
<1>1. /\ cursor \in [Tenants -> Nat \cup {None}] /\ poller \in [Pollers -> PollerRow]
      /\ outbox \in [Tenants -> SUBSET Nat] /\ Retired \in Nat /\ None \notin Nat
  BY FeedAssumption DEF TypeOK
<1>2. /\ Adopted(t) \in Nat \cup {None}
      /\ Adopted(t) # None => Adopted(t) \in Places(t) /\ StoredUpTo(t, Adopted(t))
  BY <1>1 DEF Adopted, Stored, RetiredRead
<1>3. Position(t) \in Nat /\ Position(t) \in Places(t) /\ StoredUpTo(t, Position(t))
  <2>1. ASSUME NEW f \in outbox[t], f <= 0 PROVE f \in activity[t]
    <3>1. outbox[t] \subseteq Nat /\ f = 0
      BY <1>1, <2>1
    <3> QED BY <2>1, <3>1 DEF Ordered
  <2> QED BY <1>1, <1>2, <2>1 DEF Position, Places, StoredUpTo
<1>4. /\ cursor'[t] = Adopted(t) /\ \A u \in Tenants \ {t} : cursor'[u] = cursor[u]
      /\ poller'[p] = [pc |-> "fetch", tenant |-> t, page |-> {}, after |-> Position(t)]
      /\ \A q \in Pollers \ {p} : poller'[q] = poller[q]
      /\ UNCHANGED <<sequence, lock, writer, outbox, activity, jobs>>
  BY <1>1 DEF serviceVars
<1>5. TypeOK'
  <2>1. poller'[p] \in PollerRow
    BY <1>3, <1>4 DEF PollerRow
  <2> QED BY <1>1, <1>2, <1>4, <2>1 DEF TypeOK
<1>6. Stored'
  BY <1>2, <1>4 DEF Stored, StoredUpTo, Places
<1>7. Polling'
  BY <1>3, <1>4 DEF Polling, StoredUpTo, Places
<1>8. RetiredRead'
  BY <1>4 DEF RetiredRead, StoredUpTo, Places
<1> QED BY <1>5, <1>6, <1>7, <1>8, ServiceKept

LEMMA FetchSafe ==
  ASSUME IInv, NEW p \in Pollers, Fetch(p)
  PROVE  IInv'
<1> DEFINE t == poller[p].tenant
           after == poller[p].after
<1> USE DEF IInv, Fetch
<1>1. /\ poller \in [Pollers -> PollerRow] /\ t \in Tenants /\ after \in Nat
      /\ outbox[t] \subseteq Nat
  BY DEF TypeOK, PollerRow
<1>2. /\ poller'[p].pc = "store" /\ poller'[p].tenant = t /\ poller'[p].after = after
      /\ poller'[p].page = NextPage(t, after)
      /\ \A q \in Pollers \ {p} : poller'[q] = poller[q]
      /\ UNCHANGED <<sequence, lock, writer, outbox, cursor, activity, jobs>>
  BY <1>1 DEF serviceVars, platformVars, PollerRow
<1>3. NextPage(t, after) \subseteq outbox[t]
  BY DEF NextPage
<1>4. ASSUME NEW e \in NextPage(t, after), NEW f \in outbox[t], f <= e
      PROVE  f \in NextPage(t, after) \cup activity[t]
  <2>1. CASE f > after
    BY <1>1, <1>4, <2>1, PageFacts
  <2>2. CASE ~(f > after)
    BY <1>1, <2>2 DEF Polling, StoredUpTo
  <2> QED BY <2>1, <2>2
<1>5. TypeOK'
  <2>1. poller' \in [Pollers -> PollerRow]
    BY <1>1, <1>3 DEF PollerRow
  <2> QED BY <1>1, <1>2, <2>1 DEF TypeOK
<1>6. Polling'
  <2>1. ASSUME NEW q \in Pollers, poller'[q].pc # "idle"
        PROVE  /\ poller'[q].after \in outbox[poller'[q].tenant] \cup {0}
               /\ \A f \in outbox[poller'[q].tenant] :
                    f <= poller'[q].after => f \in activity[poller'[q].tenant]
               /\ poller'[q].page \subseteq outbox[poller'[q].tenant]
               /\ \A e \in poller'[q].page, f \in outbox[poller'[q].tenant] :
                    f <= e => f \in poller'[q].page \cup activity[poller'[q].tenant]
    <3>1. CASE q = p
      <4>1. after \in outbox[t] \cup {0} /\ \A f \in outbox[t] : f <= after => f \in activity[t]
        BY DEF Polling, StoredUpTo, Places
      <4>2. /\ poller'[q].tenant = t /\ poller'[q].after = after
            /\ poller'[q].page = NextPage(t, after)
        BY <1>2, <3>1
      <4> HIDE DEF t, after
      <4> QED BY <1>3, <1>4, <4>1, <4>2
    <3>2. CASE q # p
      BY <1>2, <2>1, <3>2 DEF Polling, StoredUpTo, Places
    <3> QED BY <3>1, <3>2
  <2> QED BY <1>2, <2>1 DEF Polling, StoredUpTo, Places
<1>7. Stored' /\ RetiredRead'
  BY <1>2 DEF Stored, RetiredRead, StoredUpTo, Places
<1> QED BY <1>2, <1>5, <1>6, <1>7, ServiceKept DEF serviceVars

(* The event that is stored next is the tenant's first that is not stored yet, or
   one that already is. *)
LEMMA StoreFacts ==
  ASSUME IInv, NEW p \in Pollers, NEW e, Store(p, e)
  PROVE  /\ poller[p].tenant \in Tenants /\ e \in outbox[poller[p].tenant] /\ e \in Nat
         /\ \A f \in outbox[poller[p].tenant] : f < e => f \in activity[poller[p].tenant]
<1> DEFINE t == poller[p].tenant
<1>1. t \in Tenants /\ e \in poller[p].page /\ poller[p].pc # "idle"
  BY DEF IInv, TypeOK, Store
<1>2. poller[p].page \subseteq outbox[t] /\ outbox[t] \subseteq Nat
  BY <1>1 DEF IInv, TypeOK, Polling
<1>3. ASSUME NEW f \in outbox[t], f < e PROVE f \in activity[t]
  <2>1. f <= e /\ ~(e <= f)
    BY <1>1, <1>2, <1>3
  <2>2. f \notin poller[p].page
    BY <2>1 DEF Store, Earliest
  <2> QED BY <1>1, <2>1, <2>2 DEF IInv, Polling
<1> QED BY <1>1, <1>2, <1>3

LEMMA StoreSafe ==
  ASSUME IInv, NEW p \in Pollers, NEW e, Store(p, e)
  PROVE  IInv'
<1> DEFINE t == poller[p].tenant
<1> USE DEF IInv
<1>1. /\ cursor \in [Tenants -> Nat \cup {None}] /\ poller \in [Pollers -> PollerRow]
      /\ outbox \in [Tenants -> SUBSET Nat] /\ activity \in [Tenants -> SUBSET Nat]
      /\ jobs \in [Tenants -> SUBSET Nat]
  BY DEF TypeOK
<1>2. t \in Tenants /\ e \in outbox[t] /\ e \in Nat
  BY StoreFacts
<1>3. /\ activity'[t] = activity[t] \cup {e}
      /\ \A u \in Tenants \ {t} : activity'[u] = activity[u] /\ cursor'[u] = cursor[u]
      /\ cursor'[t] = Advanced(cursor[t], e)
      /\ poller'[p].pc = poller[p].pc /\ poller'[p].tenant = t
      /\ poller'[p].after = poller[p].after /\ poller'[p].page = poller[p].page \ {e}
      /\ \A q \in Pollers \ {p} : poller'[q] = poller[q]
      /\ UNCHANGED <<sequence, lock, writer, outbox>>
  BY <1>1, <1>2 DEF Store, serviceVars, PollerRow
<1>4. ASSUME NEW u \in Tenants, NEW f \in Nat, StoredUpTo(u, f) PROVE StoredUpTo(u, f)'
  BY <1>3, <1>4 DEF StoredUpTo
<1>5. StoredUpTo(t, e)'
  <2>1. ASSUME NEW f \in outbox[t], f <= e PROVE f \in activity[t] \cup {e}
    <3>1. f \in Nat /\ (f < e \/ f = e)
      BY <1>1, <1>2, <2>1
    <3> QED BY <3>1, StoreFacts
  <2> QED BY <1>3, <2>1 DEF StoredUpTo
<1>6. TypeOK'
  <2>1. /\ activity' \in [Tenants -> SUBSET Nat] /\ jobs' \in [Tenants -> SUBSET Nat]
        /\ cursor' \in [Tenants -> Nat \cup {None}]
    BY <1>1, <1>2 DEF Store, Advanced
  <2>2. poller' \in [Pollers -> PollerRow]
    BY <1>1 DEF Store, PollerRow
  <2> QED BY <1>3, <2>1, <2>2 DEF TypeOK
<1>7. Stored'
  <2>1. ASSUME NEW u \in Tenants
        PROVE  /\ activity'[u] \subseteq outbox[u]
               /\ \A f \in activity'[u] : StoredUpTo(u, f)'
    <3>1. activity[u] \subseteq outbox[u] /\ \A f \in activity[u] : StoredUpTo(u, f)
      BY DEF Stored
    <3>2. \A f \in activity[u] : StoredUpTo(u, f)'
      BY <1>1, <1>4, <3>1
    <3> QED BY <1>2, <1>3, <1>5, <3>1, <3>2
  <2>2. ASSUME NEW u \in Tenants, cursor'[u] # None
        PROVE  cursor'[u] \in Places(u)' /\ \A f \in outbox[u] : f <= cursor'[u] => f \in activity'[u]
    <3>1. CASE cursor'[u] = cursor[u]
      BY <1>1, <1>3, <2>2, <3>1 DEF Stored, Places, StoredUpTo
    <3>2. CASE cursor'[u] # cursor[u]
      <4>1. u = t /\ cursor'[u] = e
        BY <1>3, <3>2 DEF Advanced
      <4> QED BY <1>2, <1>3, <1>5, <4>1 DEF Places, StoredUpTo
    <3> QED BY <3>1, <3>2
  <2> QED BY <1>3, <2>1, <2>2 DEF Stored, StoredUpTo, Places
<1>8. Polling'
  <2>1. ASSUME NEW q \in Pollers, poller'[q].pc # "idle"
        PROVE  /\ poller'[q].after \in outbox[poller'[q].tenant] \cup {0}
               /\ \A f \in outbox[poller'[q].tenant] :
                    f <= poller'[q].after => f \in activity'[poller'[q].tenant]
               /\ poller'[q].page \subseteq outbox[poller'[q].tenant]
               /\ \A g \in poller'[q].page, f \in outbox[poller'[q].tenant] :
                    f <= g => f \in poller'[q].page \cup activity'[poller'[q].tenant]
    <3> DEFINE u == poller[q].tenant
    <3>1. /\ u \in Tenants /\ poller[q].pc # "idle" /\ poller'[q].tenant = u
          /\ poller'[q].after = poller[q].after
          /\ poller'[q].page \subseteq poller[q].page
          /\ poller[q].page \subseteq poller'[q].page \cup activity'[u]
      <4>1. poller'[q].tenant = u /\ poller[q].pc # "idle" /\ poller'[q].after = poller[q].after
        BY <1>3, <2>1
      <4>2. u \in Tenants
        BY <4>1 DEF TypeOK
      <4> QED BY <1>3, <4>1, <4>2
    <3>2. activity[u] \subseteq activity'[u]
      BY <1>3, <3>1
    <3>3. /\ poller[q].after \in Places(u) /\ StoredUpTo(u, poller[q].after)
          /\ poller[q].page \subseteq outbox[u]
          /\ \A g \in poller[q].page, f \in outbox[u] :
               f <= g => f \in poller[q].page \cup activity[u]
      BY <3>1 DEF Polling
    <3>4. /\ poller'[q].after \in outbox[u] \cup {0}
          /\ \A f \in outbox[u] : f <= poller'[q].after => f \in activity'[u]
      BY <3>1, <3>2, <3>3 DEF Places, StoredUpTo
    <3>5. \A g \in poller'[q].page, f \in outbox[u] :
            f <= g => f \in poller'[q].page \cup activity'[u]
      BY <3>1, <3>2, <3>3
    <3>6. poller'[q].page \subseteq outbox[u]
      BY <3>1, <3>3
    <3> QED BY <3>1, <3>4, <3>5, <3>6
  <2> QED BY <1>3, <2>1 DEF Polling, StoredUpTo, Places
<1>9. RetiredRead'
  <2>1. Demo \in Tenants /\ Retired \in Nat
    BY FeedAssumption
  <2> QED BY <1>3, <1>4, <2>1 DEF RetiredRead, Places
<1> QED BY <1>3, <1>6, <1>7, <1>8, <1>9, ServiceKept DEF serviceVars

LEMMA StopSafe ==
  ASSUME IInv, NEW p \in Pollers, EndPoll(p) \/ PollFails(p)
  PROVE  IInv'
<1> USE DEF IInv, EndPoll, PollFails, serviceVars, platformVars
<1>1. /\ poller' = [poller EXCEPT ![p] = IdlePoller]
      /\ UNCHANGED <<sequence, lock, writer, outbox, cursor, activity, jobs>>
  OBVIOUS
<1>2. /\ poller' \in [Pollers -> PollerRow] /\ poller'[p].pc = "idle"
      /\ \A q \in Pollers \ {p} : poller'[q] = poller[q]
  BY <1>1 DEF TypeOK, PollerRow, IdlePoller
<1>3. TypeOK' /\ Polling'
  BY <1>1, <1>2 DEF TypeOK, Polling, StoredUpTo, Places
<1>4. Stored' /\ RetiredRead'
  BY <1>1 DEF Stored, RetiredRead, StoredUpTo, Places
<1> QED BY <1>1, <1>3, <1>4, ServiceKept

LEMMA NextIInv == IInv /\ [Next]_vars => IInv'
<1> SUFFICES ASSUME IInv, [Next]_vars PROVE IInv'
  OBVIOUS
<1>1. CASE UNCHANGED vars
  BY <1>1 DEF vars, IInv, TypeOK, Locked, Ordered, Stored, Polling, RetiredRead, StoredUpTo, Places
<1> QED BY <1>1, BeginSafe, InsertRowSafe, CommitSafe, RollbackSafe, ReadCursorSafe, FetchSafe,
           StoreSafe, StopSafe DEF Next, Poll

LEMMA Invariance == Spec => []IInv
  BY InitIInv, NextIInv, PTL DEF Spec

(* Type correctness of the feed. *)
THEOREM TypeCorrect == Spec => []TypeOK
<1>1. IInv => TypeOK
  BY DEF IInv
<1> QED BY <1>1, Invariance, PTL

(* What is recorded and analysed has a job: both are written in one transaction. *)
Queued == \A t \in Tenants : \A e \in activity[t] : <<t, e>> \in InScope => e \in jobs[t]

LEMMA AllQueued == Spec => []Queued
<1>1. Init => Queued
  BY DEF Init, Queued
<1>2. IInv /\ Queued /\ [Next]_vars => Queued'
  <2> SUFFICES ASSUME IInv, Queued, [Next]_vars, NEW t \in Tenants, NEW e \in activity'[t],
                      <<t, e>> \in InScope
               PROVE  e \in jobs'[t]
    BY DEF Queued
  <2>1. activity \in [Tenants -> SUBSET Nat] /\ jobs \in [Tenants -> SUBSET Nat]
    BY DEF IInv, TypeOK
  <2>2. ASSUME NEW p \in Pollers, NEW f, Store(p, f) PROVE e \in jobs'[t]
    <3>1. jobs[t] \subseteq jobs'[t]
      BY <2>1, <2>2 DEF Store
    <3>2. CASE e \in activity[t]
      BY <3>1, <3>2 DEF Queued
    <3>3. CASE e \notin activity[t]
      <4>1. t = poller[p].tenant /\ e = f
        BY <2>1, <2>2, <3>3 DEF Store
      <4> QED BY <2>1, <2>2, <4>1 DEF Store
    <3> QED BY <3>2, <3>3
  <2>3. CASE UNCHANGED <<activity, jobs>>
    BY <2>3 DEF Queued
  <2> QED BY <2>2, <2>3 DEF Next, Begin, InsertRow, Commit, Rollback, EndTransaction, ReadCursor,
       Poll, Fetch, EndPoll, PollFails, platformVars, serviceVars, vars
<1> QED BY <1>1, <1>2, Invariance, PTL DEF Spec

(* No cursor passes an event that was not stored, however transactions overlap: the
   tenant's lock makes positions commit in the order in which they were taken. *)
THEOREM NothingSkipped == Spec => []NoEventSkipped
<1>1. IInv /\ Queued => NoEventSkipped
  BY DEF IInv, Stored, StoredUpTo, Queued, NoEventSkipped
<1> QED BY <1>1, Invariance, AllQueued, PTL

(* Overlapping pollers never move a cursor back. *)
THEOREM CursorCorrect == Spec => CursorAdvances
<1>1. ASSUME IInv, [Next]_vars, NEW t \in Tenants, cursor[t] # None
      PROVE  cursor'[t] # None /\ cursor'[t] >= cursor[t]
  <2>1. cursor \in [Tenants -> Nat \cup {None}] /\ cursor[t] \in Nat /\ None \notin Nat
    BY <1>1, FeedAssumption DEF IInv, TypeOK
  <2>2. CASE UNCHANGED cursor
    BY <1>1, <2>1, <2>2
  <2>3. ASSUME NEW p \in Pollers, NEW u \in Tenants, ReadCursor(p, u)
        PROVE  cursor'[t] = cursor[t]
    BY <1>1, <2>1, <2>3 DEF ReadCursor, Adopted
  <2>4. ASSUME NEW p \in Pollers, NEW e, Store(p, e)
        PROVE  cursor'[t] # None /\ cursor'[t] >= cursor[t]
    <3>1. e \in Nat
      BY <1>1, <2>4, StoreFacts
    <3>2. cursor'[t] \in {cursor[t], Advanced(cursor[t], e)}
      BY <2>1, <2>4 DEF Store
    <3> QED BY <1>1, <2>1, <3>1, <3>2 DEF Advanced
  <2>5. ASSUME NEW x \in Writers,
               InsertRow(x) \/ Commit(x) \/ Rollback(x) \/ \E u \in Tenants : Begin(x, u)
        PROVE  UNCHANGED cursor
    BY <2>5 DEF Begin, InsertRow, Commit, Rollback, EndTransaction, platformVars
  <2>6. ASSUME NEW p \in Pollers, Fetch(p) \/ EndPoll(p) \/ PollFails(p)
        PROVE  UNCHANGED cursor
    BY <2>6 DEF Fetch, EndPoll, PollFails, platformVars
  <2>7. CASE UNCHANGED vars
    BY <2>2, <2>7 DEF vars
  <2>8. cursor'[t] = cursor[t] => cursor'[t] # None /\ cursor'[t] >= cursor[t]
    BY <1>1, <2>1
  <2> QED BY <1>1, <2>2, <2>3, <2>4, <2>5, <2>6, <2>7, <2>8 DEF Next, Poll
<1>2. IInv /\ [Next]_vars =>
        [\A t \in Tenants : cursor[t] # None => cursor'[t] # None /\ cursor'[t] >= cursor[t]]_vars
  BY <1>1
<1> QED BY <1>2, Invariance, PTL DEF Spec, CursorAdvances

(* The feed implements EventLog: a tenant's activity is its log, read in order, each
   event once. *)
THEOREM Refinement == Spec => KeepsLog
<1>1. Init => Log!Init
  BY FeedAssumption DEF Init, Log!Init
<1>2. IInv /\ [Next]_vars => [Log!Next]_(Log!vars)
  <2> SUFFICES ASSUME IInv, [Next]_vars PROVE Log!Next \/ UNCHANGED <<outbox, activity>>
    BY DEF Log!vars
  <2>1. ASSUME NEW x \in Writers, Commit(x) PROVE Log!Next
    <3> DEFINE t == writer[x].tenant
               new == writer[x].rows
    <3>1. t \in Tenants /\ outbox \in [Tenants -> SUBSET Nat] /\ UNCHANGED activity
      BY <2>1 DEF IInv, TypeOK, Commit, EndTransaction, platformVars, WriterRow
    <3>2. outbox' = [outbox EXCEPT ![t] = @ \cup new] /\ outbox'[t] = outbox[t] \cup new
      BY <2>1, <3>1 DEF Commit
    <3>3. \A e \in new, f \in outbox[t] : e > f
      BY DEF IInv, Ordered
    <3> QED BY <3>1, <3>2, <3>3 DEF Log!Next, Log!Publish
  <2>2. ASSUME NEW p \in Pollers, NEW e, Store(p, e) PROVE Log!Next \/ UNCHANGED <<outbox, activity>>
    <3> DEFINE t == poller[p].tenant
    <3>1. /\ t \in Tenants /\ e \in outbox[t]
          /\ \A f \in outbox[t] : f < e => f \in activity[t]
      BY <2>2, StoreFacts
    <3>2. activity' = [activity EXCEPT ![t] = @ \cup {e}] /\ UNCHANGED outbox
      BY <2>2 DEF Store, serviceVars
    <3>3. CASE e \in activity[t]
      BY <3>1, <3>2, <3>3 DEF IInv, TypeOK
    <3>4. CASE e \notin activity[t]
      BY <3>1, <3>2, <3>4 DEF Log!Next, Log!Deliver
    <3> QED BY <3>3, <3>4
  <2> QED BY <2>1, <2>2 DEF Next, Begin, InsertRow, Rollback, EndTransaction, ReadCursor, Poll, Fetch,
       EndPoll, PollFails, platformVars, serviceVars, vars
<1> QED BY <1>1, <1>2, Invariance, PTL DEF Spec, KeepsLog, Log!Spec
=============================================================================
