------------------------- MODULE MessageStoreProofs -------------------------
(***************************************************************************)
(* Proofs about MessageStore, for any set of users, client ids and         *)
(* timestamps and any bound on messages and retries.                       *)
(***************************************************************************)
EXTENDS MessageStore, TLAPS

Entry(n) == [score : Nat, member : 1..n]

\* An entry of a ledger of n messages is one of any larger ledger.
LEMMA EntryGrows ==
  ASSUME NEW n \in Nat PROVE Entry(n) \subseteq Entry(n + 1)
BY DEF Entry

\* ZAdd and ZRem stay within the entries a sorted set may hold.
LEMMA ZSetType ==
  ASSUME NEW n \in Nat, NEW z \in SUBSET Entry(n), NEW m \in 1..n, NEW s \in Nat
  PROVE  /\ ZRem(z, m) \in SUBSET Entry(n)
         /\ ZAdd(z, s, m) \in SUBSET Entry(n)
BY DEF Entry, ZRem, ZAdd

\* The empty ledger has its types.
LEMMA TypeInit == Init => TypeOK
BY StoreAssumption DEF Init, EmptyMap, TypeOK

\* kCreateMessageScript keeps the types.
LEMMA TypeCreate ==
  ASSUME TypeOK, NEW from \in Uid, NEW to \in Uid, NEW cid \in ClientMsgId,
         NEW now \in Time, next_id < MaxMsgId, createMessage(from, to, cid, now)
  PROVE  TypeOK'
<1>1. CASE UNCHANGED storeVars
  BY <1>1 DEF TypeOK, storeVars
<1>2. CASE ~IdempotencyHit(from, cid)
  <2> DEFINE id == next_id + 1
  <2>0. /\ next_id \in Nat /\ id \in Nat /\ now \in Nat /\ id \in 1..id
        /\ next_id' = id
    BY <1>2, StoreAssumption DEF TypeOK, createMessage, IdempotencyHit, storeVars
  <2>1. next_id' \in 0..MaxMsgId
    BY <2>0, StoreAssumption DEF TypeOK
  <2>2. msg' = Put(msg, id, NewRecord(from, to, cid, now))
    BY <1>2 DEF createMessage
  <2>3. NewRecord(from, to, cid, now) \in MessageRecord
    BY DEF NewRecord, MessageRecord, MessageStatus
  <2>4. DOMAIN msg' = 1..next_id' /\ \A i \in DOMAIN msg' : msg'[i] \in MessageRecord
    BY <2>0, <2>2, <2>3 DEF TypeOK, Put
  <2>5. /\ DOMAIN idem' \subseteq Uid \X ClientMsgId
        /\ \A k \in DOMAIN idem' : idem'[k] \in 1..next_id'
    BY <1>2, <2>0 DEF createMessage, TypeOK, Put, MakeIdempotencyKey
  <2>6. pending' \in [Uid -> SUBSET Entry(id)]
    <3>1. \A u \in Uid : pending[u] \in SUBSET Entry(id)
      BY <2>0, EntryGrows DEF TypeOK, Entry
    <3>2. ZAdd(pending[to], now, id) \in SUBSET Entry(id)
      BY <2>0, <3>1, ZSetType
    <3> QED BY <1>2, <3>1, <3>2 DEF createMessage, TypeOK
  <2>7. recent' \in [Uid -> SUBSET Entry(id)]
    <3>1. \A u \in Uid : recent[u] \in SUBSET Entry(id)
      BY <2>0, EntryGrows DEF TypeOK, Entry
    <3>2. \A u \in Uid : ZAdd(recent[u], now, id) \in SUBSET Entry(id)
      BY <2>0, <3>1, ZSetType
    <3> QED BY <1>2, <3>1, <3>2 DEF createMessage, RecentOwners
  <2>8. delivered_timeout' \in SUBSET Entry(id)
    BY <1>2, <2>0, EntryGrows DEF createMessage, TypeOK, Entry
  <2> QED BY <2>0, <2>1, <2>4, <2>5, <2>6, <2>7, <2>8 DEF TypeOK, Entry
<1> QED BY <1>1, <1>2 DEF createMessage

\* The scripts other than kCreateMessageScript change one existing record and
\* the two redelivery indexes.
LEMMA TypeRewrite ==
  ASSUME TypeOK, NEW id \in DOMAIN msg, NEW r \in MessageRecord,
         msg' = [msg EXCEPT ![id] = r],
         pending' \in [Uid -> SUBSET Entry(next_id)],
         delivered_timeout' \in SUBSET Entry(next_id),
         UNCHANGED <<next_id, idem, recent>>
  PROVE  TypeOK'
BY DEF TypeOK, Entry

\* The status scripts keep the types.
LEMMA TypeStatus ==
  ASSUME TypeOK, NEW id,
         \/ \E now \in Time : markDelivered(id, now)
         \/ markPending(id)
         \/ \E ack_uid \in Uid : markAcked(id, ack_uid)
         \/ markFailed(id)
         \/ incrementRetryCount(id)
  PROVE  TypeOK'
<1>1. CASE UNCHANGED storeVars
  BY <1>1 DEF TypeOK, storeVars
<1>2. CASE id \in DOMAIN msg
  <2>0. /\ next_id \in Nat /\ id \in 1..next_id
        /\ msg[id] \in MessageRecord
        /\ \A u \in Uid : pending[u] \in SUBSET Entry(next_id)
        /\ pending = [u \in Uid |-> pending[u]]
        /\ delivered_timeout \in SUBSET Entry(next_id)
    BY <1>2 DEF TypeOK, Entry
  <2>1. msg[id].to_uid \in Uid /\ msg[id].created_at_ms \in Nat /\ Time \subseteq Nat
    BY <2>0, StoreAssumption DEF MessageRecord
  <2>a. \A u \in Uid : /\ ZRem(pending[u], id) \in SUBSET Entry(next_id)
                      /\ \A s \in Nat : ZAdd(pending[u], s, id) \in SUBSET Entry(next_id)
    BY <2>0, ZSetType
  <2>b. /\ ZRem(delivered_timeout, id) \in SUBSET Entry(next_id)
        /\ \A s \in Nat : ZAdd(delivered_timeout, s, id) \in SUBSET Entry(next_id)
    BY <2>0, ZSetType
  <2>2. ASSUME NEW now \in Time, markDelivered(id, now) PROVE TypeOK'
    <3> DEFINE r == [msg[id] EXCEPT !.status = "Delivered", !.delivered_at_ms = now]
    <3>1. r \in MessageRecord
      BY <2>0 DEF MessageRecord, MessageStatus
    <3>2. msg' = [msg EXCEPT ![id] = r]
      BY <2>2, <1>2 DEF markDelivered, TypeOK
    <3>3. pending' \in [Uid -> SUBSET Entry(next_id)]
      BY <2>0, <2>1, <2>2, <2>a, <1>2 DEF markDelivered
    <3>4. delivered_timeout' \in SUBSET Entry(next_id)
      BY <2>1, <2>2, <2>b, <1>2 DEF markDelivered
    <3> QED BY <1>2, <2>2, <3>1, <3>2, <3>3, <3>4, TypeRewrite DEF markDelivered
  <2>3. ASSUME markPending(id) PROVE TypeOK'
    <3> DEFINE r == [msg[id] EXCEPT !.status = "Pending"]
    <3>1. r \in MessageRecord
      BY <2>0 DEF MessageRecord, MessageStatus
    <3>2. msg' = [msg EXCEPT ![id] = r]
      BY <2>3, <1>2 DEF markPending, TypeOK
    <3>3. pending' \in [Uid -> SUBSET Entry(next_id)]
      BY <2>0, <2>1, <2>3, <2>a, <1>2 DEF markPending
    <3>4. delivered_timeout' \in SUBSET Entry(next_id)
      BY <2>3, <2>b, <1>2 DEF markPending
    <3> QED BY <1>2, <2>3, <3>1, <3>2, <3>3, <3>4, TypeRewrite DEF markPending
  <2>4. ASSUME NEW st \in MessageStatus, Retire(id, st) PROVE TypeOK'
    <3> DEFINE r == [msg[id] EXCEPT !.status = st]
    <3>1. r \in MessageRecord
      BY <2>0 DEF MessageRecord
    <3>2. msg' = [msg EXCEPT ![id] = r]
      BY <2>4, <1>2 DEF Retire, TypeOK
    <3>3. pending' \in [Uid -> SUBSET Entry(next_id)]
      BY <2>0, <2>1, <2>4, <2>a DEF Retire
    <3>4. delivered_timeout' \in SUBSET Entry(next_id)
      BY <2>4, <2>b DEF Retire
    <3> QED BY <1>2, <2>4, <3>1, <3>2, <3>3, <3>4, TypeRewrite DEF Retire
  <2>5. ASSUME incrementRetryCount(id) PROVE TypeOK'
    <3> DEFINE r == [msg[id] EXCEPT !.retry_count = @ + 1]
    <3>1. r \in MessageRecord
      BY <2>0 DEF MessageRecord
    <3>2. msg' = [msg EXCEPT ![id] = r]
      BY <2>5, <1>2 DEF incrementRetryCount, TypeOK
    <3> QED BY <1>2, <2>0, <2>5, <3>1, <3>2, TypeRewrite DEF incrementRetryCount
  <2> QED BY <1>1, <2>2, <2>3, <2>4, <2>5
          DEF markAcked, markFailed, MessageStatus
<1> QED BY <1>1, <1>2
        DEF markDelivered, markPending, markAcked, markFailed, incrementRetryCount

\* Every state of the ledger has the declared types.
THEOREM StoreTypeCorrect == Spec => []TypeOK
<1>1. TypeOK /\ [Next]_storeVars => TypeOK'
  <2> SUFFICES ASSUME TypeOK, [Next]_storeVars PROVE TypeOK'
    OBVIOUS
  <2>1. CASE UNCHANGED storeVars
    BY <2>1 DEF TypeOK, storeVars
  <2>2. CASE Next
    BY <2>2, TypeCreate, TypeStatus DEF Next
  <2> QED BY <2>1, <2>2
<1> QED BY <1>1, TypeInit, PTL DEF Spec

-----------------------------------------------------------------------------
(* The indexes.  Rewriting the record of one message removes that message  *)
(* from what the indexes should hold and adds it where its new status puts *)
(* it; the scripts do the same with ZREM and ZADD.                         *)

\* What the Pending index of u should hold after one record was rewritten.
LEMMA PendingAfterRewrite ==
  ASSUME TypeOK, NEW id \in DOMAIN msg, NEW r \in MessageRecord,
         r.to_uid = msg[id].to_uid, r.created_at_ms = msg[id].created_at_ms,
         msg' = [msg EXCEPT ![id] = r], NEW u \in Uid
  PROVE  PendingEntries(u)' =
           IF r.to_uid = u /\ r.status = "Pending"
           THEN ZAdd(PendingEntries(u), r.created_at_ms, id)
           ELSE ZRem(PendingEntries(u), id)
<1>1. DOMAIN msg' = DOMAIN msg /\ msg'[id] = r /\ \A i \in DOMAIN msg \ {id} : msg'[i] = msg[i]
  BY DEF TypeOK
<1>2. ASSUME NEW e
      PROVE  e \in PendingEntries(u)' <=>
               \/ e \in ZRem(PendingEntries(u), id)
               \/ /\ r.to_uid = u /\ r.status = "Pending"
                  /\ e = [score |-> r.created_at_ms, member |-> id]
  BY <1>1 DEF PendingEntries, ZRem
<1> QED BY <1>2 DEF ZAdd

\* What the timeout index should hold after one record was rewritten.
LEMMA DeliveredAfterRewrite ==
  ASSUME TypeOK, NEW id \in DOMAIN msg, NEW r \in MessageRecord,
         msg' = [msg EXCEPT ![id] = r]
  PROVE  DeliveredEntries' =
           IF r.status = "Delivered"
           THEN ZAdd(DeliveredEntries, r.delivered_at_ms, id)
           ELSE ZRem(DeliveredEntries, id)
<1>1. DOMAIN msg' = DOMAIN msg /\ msg'[id] = r /\ \A i \in DOMAIN msg \ {id} : msg'[i] = msg[i]
  BY DEF TypeOK
<1>2. ASSUME NEW e
      PROVE  e \in DeliveredEntries' <=>
               \/ e \in ZRem(DeliveredEntries, id)
               \/ /\ r.status = "Delivered"
                  /\ e = [score |-> r.delivered_at_ms, member |-> id]
  BY <1>1 DEF DeliveredEntries, ZRem
<1> QED BY <1>2 DEF ZAdd

\* Removing a message from the index of a user it is not addressed to, or
\* from an index it is not in, changes nothing.
LEMMA RemoveForeign ==
  ASSUME TypeOK, NEW id \in DOMAIN msg
  PROVE  /\ \A u \in Uid : msg[id].to_uid # u \/ msg[id].status # "Pending"
              => ZRem(PendingEntries(u), id) = PendingEntries(u)
         /\ msg[id].status # "Delivered"
              => ZRem(DeliveredEntries, id) = DeliveredEntries
BY DEF ZRem, PendingEntries, DeliveredEntries

\* The status scripts keep the indexes equal to what the hashes say.
LEMMA IndexStatus ==
  ASSUME TypeOK, IndexMatchesStatus, NEW id,
         \/ \E now \in Time : markDelivered(id, now)
         \/ markPending(id)
         \/ \E ack_uid \in Uid : markAcked(id, ack_uid)
         \/ markFailed(id)
         \/ incrementRetryCount(id)
  PROVE  IndexMatchesStatus'
<1>1. CASE UNCHANGED storeVars
  BY <1>1 DEF IndexMatchesStatus, PendingEntries, DeliveredEntries, storeVars
<1>2. CASE id \in DOMAIN msg
  <2>0. /\ msg[id] \in MessageRecord
        /\ msg[id].to_uid \in Uid
        /\ pending \in [Uid -> SUBSET Entry(next_id)]
    BY <1>2 DEF TypeOK, MessageRecord, Entry
  <2>1. ASSUME NEW now \in Time, markDelivered(id, now) PROVE IndexMatchesStatus'
    <3> DEFINE r == [msg[id] EXCEPT !.status = "Delivered", !.delivered_at_ms = now]
    <3>1. /\ r \in MessageRecord
          /\ r.to_uid = msg[id].to_uid /\ r.created_at_ms = msg[id].created_at_ms
          /\ r.status = "Delivered" /\ r.delivered_at_ms = now
      BY <2>0 DEF MessageRecord, MessageStatus
    <3>2. msg' = [msg EXCEPT ![id] = r]
      BY <2>1, <1>2 DEF markDelivered, TypeOK
    <3> HIDE DEF r
    <3>3. ASSUME NEW u \in Uid PROVE pending'[u] = PendingEntries(u)'
      <4>1. PendingEntries(u)' = ZRem(PendingEntries(u), id)
        BY <1>2, <3>1, <3>2, PendingAfterRewrite
      <4>2. pending'[u] = IF msg[id].to_uid = u THEN ZRem(pending[u], id)
                                                ELSE pending[u]
        BY <1>2, <2>0, <2>1 DEF markDelivered
      <4>3. pending[u] = PendingEntries(u)
        BY DEF IndexMatchesStatus
      <4>4. msg[id].to_uid # u => ZRem(PendingEntries(u), id) = PendingEntries(u)
        BY <1>2, RemoveForeign
      <4> QED BY <4>1, <4>2, <4>3, <4>4
    <3>4. delivered_timeout' = DeliveredEntries'
      BY <1>2, <2>1, <3>1, <3>2, DeliveredAfterRewrite
      DEF markDelivered, IndexMatchesStatus
    <3> QED BY <3>3, <3>4 DEF IndexMatchesStatus
  <2>2. ASSUME markPending(id) PROVE IndexMatchesStatus'
    <3> DEFINE r == [msg[id] EXCEPT !.status = "Pending"]
    <3>1. /\ r \in MessageRecord
          /\ r.to_uid = msg[id].to_uid /\ r.created_at_ms = msg[id].created_at_ms
          /\ r.status = "Pending"
      BY <2>0 DEF MessageRecord, MessageStatus
    <3>2. msg' = [msg EXCEPT ![id] = r]
      BY <2>2, <1>2 DEF markPending, TypeOK
    <3> HIDE DEF r
    <3>3. ASSUME NEW u \in Uid PROVE pending'[u] = PendingEntries(u)'
      <4>1. PendingEntries(u)' = IF r.to_uid = u
                                 THEN ZAdd(PendingEntries(u), r.created_at_ms, id)
                                 ELSE ZRem(PendingEntries(u), id)
        BY <1>2, <3>1, <3>2, PendingAfterRewrite
      <4>2. pending'[u] = IF msg[id].to_uid = u
                          THEN ZAdd(pending[u], msg[id].created_at_ms, id)
                          ELSE pending[u]
        BY <1>2, <2>0, <2>2 DEF markPending
      <4>3. pending[u] = PendingEntries(u)
        BY DEF IndexMatchesStatus
      <4>4. msg[id].to_uid # u => ZRem(PendingEntries(u), id) = PendingEntries(u)
        BY <1>2, RemoveForeign
      <4> QED BY <3>1, <4>1, <4>2, <4>3, <4>4
    <3>4. delivered_timeout' = DeliveredEntries'
      BY <1>2, <2>2, <3>1, <3>2, DeliveredAfterRewrite
      DEF markPending, IndexMatchesStatus
    <3> QED BY <3>3, <3>4 DEF IndexMatchesStatus
  <2>3. ASSUME NEW st \in {"Acked", "Failed"}, Retire(id, st)
        PROVE  IndexMatchesStatus'
    <3> DEFINE r == [msg[id] EXCEPT !.status = st]
    <3>1. /\ r \in MessageRecord
          /\ r.to_uid = msg[id].to_uid /\ r.created_at_ms = msg[id].created_at_ms
          /\ r.status = st
      BY <2>0 DEF MessageRecord, MessageStatus
    <3>2. msg' = [msg EXCEPT ![id] = r]
      BY <2>3, <1>2 DEF Retire, TypeOK
    <3> HIDE DEF r
    <3>3. ASSUME NEW u \in Uid PROVE pending'[u] = PendingEntries(u)'
      <4>1. PendingEntries(u)' = ZRem(PendingEntries(u), id)
        BY <1>2, <3>1, <3>2, PendingAfterRewrite
      <4> QED BY <1>2, <2>0, <2>3, <4>1, RemoveForeign DEF Retire, IndexMatchesStatus
    <3>4. delivered_timeout' = DeliveredEntries'
      BY <1>2, <2>3, <3>1, <3>2, DeliveredAfterRewrite DEF Retire, IndexMatchesStatus
    <3> QED BY <3>3, <3>4 DEF IndexMatchesStatus
  <2>4. ASSUME incrementRetryCount(id) PROVE IndexMatchesStatus'
    <3>1. /\ DOMAIN msg' = DOMAIN msg
          /\ \A i \in DOMAIN msg :
               /\ msg'[i].to_uid = msg[i].to_uid
               /\ msg'[i].status = msg[i].status
               /\ msg'[i].created_at_ms = msg[i].created_at_ms
               /\ msg'[i].delivered_at_ms = msg[i].delivered_at_ms
      BY <1>2, <2>4 DEF incrementRetryCount, TypeOK, MessageRecord
    <3>2. DeliveredEntries' = DeliveredEntries
      BY <3>1 DEF DeliveredEntries
    <3>3. \A u \in Uid : PendingEntries(u)' = PendingEntries(u)
      BY <3>1 DEF PendingEntries
    <3> QED BY <1>2, <2>4, <3>2, <3>3 DEF incrementRetryCount, IndexMatchesStatus
  <2> QED BY <1>1, <2>1, <2>2, <2>3, <2>4 DEF markAcked, markFailed
<1> QED BY <1>1, <1>2
        DEF markDelivered, markPending, markAcked, markFailed, incrementRetryCount

\* A new message enters the receiver's Pending index and no other.
LEMMA IndexCreate ==
  ASSUME TypeOK, IndexMatchesStatus, NEW from \in Uid, NEW to \in Uid,
         NEW cid \in ClientMsgId, NEW now \in Time, createMessage(from, to, cid, now)
  PROVE  IndexMatchesStatus'
<1>1. CASE UNCHANGED storeVars
  BY <1>1 DEF IndexMatchesStatus, PendingEntries, DeliveredEntries, storeVars
<1>2. CASE ~IdempotencyHit(from, cid)
  <2> DEFINE id == next_id + 1
             r == NewRecord(from, to, cid, now)
  <2>1. /\ id \notin DOMAIN msg
        /\ DOMAIN msg' = DOMAIN msg \cup {id}
        /\ msg'[id] = r
        /\ \A i \in DOMAIN msg : msg'[i] = msg[i]
    BY <1>2 DEF createMessage, Put, TypeOK
  <2>2. r.to_uid = to /\ r.status = "Pending" /\ r.created_at_ms = now
    BY DEF NewRecord
  <2> HIDE DEF id, r
  <2>3. DeliveredEntries' = DeliveredEntries
    BY <2>1, <2>2 DEF DeliveredEntries
  <2>4. ASSUME NEW u \in Uid PROVE pending'[u] = PendingEntries(u)'
    <3>1. ASSUME NEW e
          PROVE  e \in PendingEntries(u)' <=>
                   \/ e \in PendingEntries(u)
                   \/ to = u /\ e = [score |-> now, member |-> id]
      BY <2>1, <2>2 DEF PendingEntries
    <3>2. ZRem(PendingEntries(u), id) = PendingEntries(u)
      BY <2>1 DEF PendingEntries, ZRem
    <3>3. pending'[u] = IF to = u THEN ZAdd(pending[u], now, id) ELSE pending[u]
      BY <1>2 DEF createMessage, TypeOK, id
    <3>4. pending[u] = PendingEntries(u)
      BY DEF IndexMatchesStatus
    <3> QED BY <3>1, <3>2, <3>3, <3>4 DEF ZAdd
  <2> QED BY <1>2, <2>3, <2>4 DEF createMessage, IndexMatchesStatus
<1> QED BY <1>1, <1>2 DEF createMessage

\* Whatever the workers and the delivery thread do, and in whatever order,
\* the redelivery indexes agree with the message hashes: no message is lost
\* to redelivery and none is in both indexes.
THEOREM StoreIndexes == Spec => []IndexMatchesStatus
<1>1. Init => IndexMatchesStatus
  BY DEF Init, EmptyMap, IndexMatchesStatus, PendingEntries, DeliveredEntries
<1>2. TypeOK /\ IndexMatchesStatus /\ [Next]_storeVars => IndexMatchesStatus'
  <2> SUFFICES ASSUME TypeOK, IndexMatchesStatus, [Next]_storeVars
               PROVE  IndexMatchesStatus'
    OBVIOUS
  <2>1. CASE UNCHANGED storeVars
    BY <2>1 DEF IndexMatchesStatus, PendingEntries, DeliveredEntries, storeVars
  <2>2. CASE Next
    BY <2>2, IndexCreate, IndexStatus DEF Next
  <2> QED BY <2>1, <2>2
<1> QED BY <1>1, <1>2, StoreTypeCorrect, PTL DEF Spec

-----------------------------------------------------------------------------
(* The identity of messages.  All scripts but the first leave every        *)
(* message where it is and only change its status, delivery time or count. *)

SameMessages ==
  /\ UNCHANGED <<next_id, idem, recent>>
  /\ DOMAIN msg' = DOMAIN msg
  /\ \A i \in DOMAIN msg :
       /\ msg'[i].from_uid = msg[i].from_uid
       /\ msg'[i].to_uid = msg[i].to_uid
       /\ msg'[i].client_msg_id = msg[i].client_msg_id
       /\ msg'[i].created_at_ms = msg[i].created_at_ms
       /\ msg'[i].retry_count >= msg[i].retry_count

\* A status script keeps the messages.
LEMMA StatusKeepsMessages ==
  ASSUME TypeOK, NEW id,
         \/ \E now \in Time : markDelivered(id, now)
         \/ markPending(id)
         \/ \E ack_uid \in Uid : markAcked(id, ack_uid)
         \/ markFailed(id)
         \/ incrementRetryCount(id)
  PROVE  SameMessages
<1>0. \A i \in DOMAIN msg : msg[i] \in MessageRecord /\ msg[i].retry_count \in Nat
  BY DEF TypeOK, MessageRecord
<1>1. CASE UNCHANGED storeVars
  BY <1>0, <1>1 DEF SameMessages, storeVars
<1>2. CASE id \in DOMAIN msg /\ ~UNCHANGED storeVars
  <2>1. ASSUME NEW now \in Time, markDelivered(id, now) PROVE SameMessages
    <3> DEFINE r == [msg[id] EXCEPT !.status = "Delivered", !.delivered_at_ms = now]
    <3>1. msg' = [msg EXCEPT ![id] = r]
      BY <1>2, <2>1 DEF markDelivered, TypeOK
    <3>2. /\ r.from_uid = msg[id].from_uid /\ r.to_uid = msg[id].to_uid
          /\ r.client_msg_id = msg[id].client_msg_id
          /\ r.created_at_ms = msg[id].created_at_ms
          /\ r.retry_count = msg[id].retry_count
      BY <1>0, <1>2 DEF MessageRecord
    <3> HIDE DEF r
    <3>3. /\ DOMAIN msg' = DOMAIN msg /\ msg'[id] = r
          /\ \A i \in DOMAIN msg \ {id} : msg'[i] = msg[i]
      BY <1>2, <3>1 DEF TypeOK
    <3>4. UNCHANGED <<next_id, idem, recent>>
      BY <1>2, <2>1 DEF markDelivered
    <3> QED BY <1>0, <3>2, <3>3, <3>4 DEF SameMessages
  <2>2. ASSUME markPending(id) PROVE SameMessages
    BY <1>0, <1>2, <2>2 DEF SameMessages, markPending, MessageRecord
  <2>3. ASSUME NEW st, Retire(id, st) PROVE SameMessages
    BY <1>0, <1>2, <2>3 DEF SameMessages, Retire, MessageRecord
  <2>4. ASSUME incrementRetryCount(id) PROVE SameMessages
    BY <1>0, <1>2, <2>4 DEF SameMessages, incrementRetryCount, MessageRecord
  <2> QED BY <1>1, <2>1, <2>2, <2>3, <2>4 DEF markAcked, markFailed
<1> QED BY <1>1, <1>2
        DEF markDelivered, markPending, markAcked, markFailed, incrementRetryCount

\* kCreateMessageScript adds a message and keeps the others.
LEMMA CreateAddsOne ==
  ASSUME TypeOK, NEW from \in Uid, NEW to \in Uid, NEW cid \in ClientMsgId,
         NEW now \in Time, createMessage(from, to, cid, now), ~IdempotencyHit(from, cid)
  PROVE  /\ next_id + 1 \notin DOMAIN msg
         /\ DOMAIN msg' = DOMAIN msg \cup {next_id + 1}
         /\ msg'[next_id + 1] = NewRecord(from, to, cid, now)
         /\ \A i \in DOMAIN msg : msg'[i] = msg[i]
BY DEF createMessage, Put, TypeOK

\* One message per (from_uid, client_msg_id), reachable through its
\* idempotency key, however often and from wherever a client repeats it.
THEOREM StoreIdempotency == Spec => []IdempotentCreate
<1>1. Init => IdempotentCreate
  BY DEF Init, EmptyMap, IdempotentCreate
<1>2. TypeOK /\ IdempotentCreate /\ [Next]_storeVars => IdempotentCreate'
  <2> SUFFICES ASSUME TypeOK, IdempotentCreate, [Next]_storeVars
               PROVE  IdempotentCreate'
    OBVIOUS
  <2>0. CASE UNCHANGED storeVars
    BY <2>0 DEF IdempotentCreate, storeVars
  <2>1. CASE SameMessages
    <3>1. \A k \in DOMAIN idem : idem[k] \in DOMAIN msg
      BY DEF TypeOK
    <3> QED BY <2>1, <3>1 DEF SameMessages, IdempotentCreate
  <2>2. ASSUME NEW from \in Uid, NEW to \in Uid, NEW cid \in ClientMsgId,
               NEW now \in Time, createMessage(from, to, cid, now),
               ~IdempotencyHit(from, cid)
        PROVE  IdempotentCreate'
    <3> DEFINE id == next_id + 1
               key == MakeIdempotencyKey(from, cid)
               keyOf(r) == MakeIdempotencyKey(r.from_uid, r.client_msg_id)
    <3>1. /\ id \notin DOMAIN msg
          /\ DOMAIN msg' = DOMAIN msg \cup {id}
          /\ msg'[id] = NewRecord(from, to, cid, now)
          /\ \A i \in DOMAIN msg : msg'[i] = msg[i]
      BY <2>2, CreateAddsOne
    <3>2. keyOf(NewRecord(from, to, cid, now)) = key
      BY DEF NewRecord
    <3>3. key \notin DOMAIN idem
      BY <2>2 DEF IdempotencyHit, TypeOK
    <3>4. /\ DOMAIN idem' = DOMAIN idem \cup {key}
          /\ idem'[key] = id
          /\ \A k \in DOMAIN idem : idem'[k] = idem[k]
      BY <2>2, <3>3 DEF createMessage, Put
    <3>5. \A i \in DOMAIN msg : keyOf(msg[i]) \in DOMAIN idem /\ idem[keyOf(msg[i])] = i
      BY DEF IdempotentCreate
    <3>6. \A k \in DOMAIN idem : idem[k] \in DOMAIN msg /\ keyOf(msg[idem[k]]) = k
      BY DEF IdempotentCreate, TypeOK
    <3> HIDE DEF id, key, keyOf
    <3>7. \A i \in DOMAIN msg' : keyOf(msg'[i]) \in DOMAIN idem' /\ idem'[keyOf(msg'[i])] = i
      BY <3>1, <3>2, <3>4, <3>5
    <3>8. \A k \in DOMAIN idem' : keyOf(msg'[idem'[k]]) = k
      BY <3>1, <3>2, <3>4, <3>6
    <3> QED BY <3>7, <3>8 DEF IdempotentCreate, keyOf
  <2> QED BY <2>0, <2>1, <2>2, StatusKeepsMessages DEF Next, createMessage
<1> QED BY <1>1, <1>2, StoreTypeCorrect, PTL DEF Spec

\* Every message stays in the history of both its parties.
THEOREM StoreRecent == Spec => []RecentIsComplete
<1>1. Init => RecentIsComplete
  BY DEF Init, EmptyMap, RecentIsComplete, RecentEntries
<1>2. TypeOK /\ RecentIsComplete /\ [Next]_storeVars => RecentIsComplete'
  <2> SUFFICES ASSUME TypeOK, RecentIsComplete, [Next]_storeVars
               PROVE  RecentIsComplete'
    OBVIOUS
  <2>0. CASE UNCHANGED storeVars
    BY <2>0 DEF RecentIsComplete, RecentEntries, storeVars
  <2>1. CASE SameMessages
    <3>1. \A u \in Uid : RecentEntries(u)' = RecentEntries(u)
      BY <2>1 DEF SameMessages, RecentEntries
    <3> QED BY <2>1, <3>1 DEF SameMessages, RecentIsComplete
  <2>2. ASSUME NEW from \in Uid, NEW to \in Uid, NEW cid \in ClientMsgId,
               NEW now \in Time, createMessage(from, to, cid, now),
               ~IdempotencyHit(from, cid), NEW u \in Uid
        PROVE  recent'[u] = RecentEntries(u)'
    <3> DEFINE id == next_id + 1
               r == NewRecord(from, to, cid, now)
    <3>1. /\ id \notin DOMAIN msg
          /\ DOMAIN msg' = DOMAIN msg \cup {id}
          /\ msg'[id] = r
          /\ \A i \in DOMAIN msg : msg'[i] = msg[i]
      BY <2>2, CreateAddsOne
    <3>2. r.from_uid = from /\ r.to_uid = to /\ r.created_at_ms = now
      BY DEF NewRecord
    <3>3. recent'[u] = IF u \in {from, to} THEN ZAdd(recent[u], now, id) ELSE recent[u]
      BY <2>2 DEF createMessage, RecentOwners
    <3>4. recent[u] = RecentEntries(u)
      BY DEF RecentIsComplete
    <3> HIDE DEF id, r
    <3>5. ASSUME NEW e
          PROVE  e \in RecentEntries(u)' <=>
                   \/ e \in RecentEntries(u)
                   \/ u \in {from, to} /\ e = [score |-> now, member |-> id]
      BY <3>1, <3>2 DEF RecentEntries
    <3>6. ZRem(RecentEntries(u), id) = RecentEntries(u)
      BY <3>1 DEF RecentEntries, ZRem
    <3> QED BY <3>3, <3>4, <3>5, <3>6 DEF ZAdd
  <2> QED BY <2>0, <2>1, <2>2, StatusKeepsMessages
          DEF Next, createMessage, RecentIsComplete
<1> QED BY <1>1, <1>2, StoreTypeCorrect, PTL DEF Spec

\* No step drops, readdresses or renumbers a message, or lowers its count.
THEOREM StoreOnlyGrows == Spec => LedgerOnlyGrows
<1> DEFINE A == \A i \in DOMAIN msg :
       /\ i \in DOMAIN msg'
       /\ \A f \in {"from_uid", "to_uid", "client_msg_id", "created_at_ms"} :
            msg'[i][f] = msg[i][f]
       /\ msg'[i].retry_count >= msg[i].retry_count
<1>1. TypeOK /\ [Next]_storeVars => [A]_storeVars
  <2> SUFFICES ASSUME TypeOK, Next PROVE A \/ UNCHANGED storeVars
    OBVIOUS
  <2>1. CASE SameMessages
    BY <2>1 DEF SameMessages
  <2>2. ASSUME NEW from \in Uid, NEW to \in Uid, NEW cid \in ClientMsgId,
               NEW now \in Time, createMessage(from, to, cid, now),
               ~IdempotencyHit(from, cid)
        PROVE  A
    BY <2>2, CreateAddsOne DEF TypeOK, MessageRecord
  <2> QED BY <2>1, <2>2, StatusKeepsMessages DEF Next, createMessage
<1> QED BY <1>1, StoreTypeCorrect, PTL DEF Spec, LedgerOnlyGrows

=============================================================================
