--------------------- MODULE ServerEventDispatcherProofs --------------------
(***************************************************************************)
(* What the dispatcher promises whatever its threads, its clients and      *)
(* Redis do, for any number of workers, connections, users and messages:   *)
(* a closed connection is forgotten, a sender is told the truth, Acked is  *)
(* the receiver's word, and a message is retried exactly as often as       *)
(* kMaxDeliveryRetryCount says before it is given up.                      *)
(***************************************************************************)
EXTENDS ServerEventDispatcher, TLAPS

-----------------------------------------------------------------------------
(* Sorted sets, and the list of their members by rank.                     *)

Entry == [score : Nat, member : Nat]

\* The values of a sorted set: finite, with one entry for a member.
ZSet == {z \in SUBSET Entry :
           /\ IsFiniteSet(z)
           /\ \A d, e \in z : d.member = e.member => d = e}
\* What the proofs below use of sorted sets: their values are closed under
\* the Redis commands, and the list of a sorted set by rank names members of
\* it, each once. SortedSets, at the end of the module, proves it.
SortedSetFacts ==
  /\ {} \in ZSet
  /\ \A z \in ZSet :
       /\ \A y \in SUBSET z : y \in ZSet
       /\ \A s, m \in Nat : ZRem(z, m) \in ZSet /\ ZAdd(z, s, m) \in ZSet
       /\ ByScore(z) \in Seq(Nat)
       /\ \A i \in DOMAIN ByScore(z) : \E e \in z : ByScore(z)[i] = e.member
       /\ \A i, j \in DOMAIN ByScore(z) : ByScore(z)[i] = ByScore(z)[j] => i = j

LEMMA ZSetEmpty == ASSUME SortedSetFacts PROVE {} \in ZSet
BY Zenon DEF SortedSetFacts

LEMMA ZSetSubset ==
  ASSUME SortedSetFacts, NEW z \in ZSet, NEW y \in SUBSET z PROVE y \in ZSet
BY Zenon DEF SortedSetFacts

LEMMA ZSetWrite ==
  ASSUME SortedSetFacts, NEW z \in ZSet, NEW s \in Nat, NEW m \in Nat
  PROVE  /\ ZRem(z, m) \in ZSet
         /\ ZAdd(z, s, m) \in ZSet
BY Zenon DEF SortedSetFacts

LEMMA ByScoreIs ==
  ASSUME SortedSetFacts, NEW z \in ZSet
  PROVE  /\ ByScore(z) \in Seq(Nat)
         /\ \A i \in DOMAIN ByScore(z) : \E e \in z : ByScore(z)[i] = e.member
         /\ \A i, j \in DOMAIN ByScore(z) : ByScore(z)[i] = ByScore(z)[j] => i = j
BY Zenon DEF SortedSetFacts

-----------------------------------------------------------------------------
(* The message store under the dispatcher.                                 *)

User == Uid \cup Receiver

StoredRecord ==
  [from_uid : User, to_uid : User, client_msg_id : ClientMsgId,
   status : Store!MessageStatus, created_at_ms : Nat,
   delivered_at_ms : Nat, retry_count : Nat]

\* The types of the store; an idempotency key leads to a message that was
\* created under that key, and only stored messages wait for a timeout.
Ledger ==
  /\ SortedSetFacts
  /\ next_id \in Nat
  /\ msg \in [1..next_id -> StoredRecord]
  /\ \A k \in DOMAIN idem :
       /\ idem[k] \in 1..next_id
       /\ k = <<msg[idem[k]].from_uid, msg[idem[k]].client_msg_id>>
  /\ pending \in [User -> ZSet]
  /\ recent \in [User -> ZSet]
  /\ delivered_timeout \in ZSet
  /\ \A e \in delivered_timeout : e.member \in 1..next_id

\* What a script leaves of the messages that are there: who sent them and
\* under which client_msg_id, the retry counters, and Acked and Failed.
KeepsNames ==
  \A i \in DOMAIN msg :
    /\ i \in DOMAIN msg'
    /\ msg'[i].from_uid = msg[i].from_uid
    /\ msg'[i].client_msg_id = msg[i].client_msg_id

KeepsCounts ==
  /\ \A i \in DOMAIN msg : i \in DOMAIN msg' /\ msg'[i].retry_count = msg[i].retry_count
  /\ \A i \in DOMAIN msg' \ DOMAIN msg : msg'[i].retry_count = 0

MakesNo(status) ==
  \A i \in DOMAIN msg' :
    msg'[i].status = status => i \in DOMAIN msg /\ msg[i].status = status

\* The store's instance of the sorted-set and map operators.
LEMMA StoreOperators ==
  /\ \A z, m : Store!ZRem(z, m) = ZRem(z, m)
  /\ \A z, t, m : Store!ZAdd(z, t, m) = ZAdd(z, t, m)
  /\ \A f, k, v : Store!Put(f, k, v) = Put(f, k, v)
BY Zenon DEF Store!ZRem, ZRem, Store!ZAdd, ZAdd, Store!Put, Put

LEMMA StoreUnchanged ==
  ASSUME Ledger, UNCHANGED storeVars
  PROVE  Ledger' /\ KeepsNames /\ KeepsCounts /\ MakesNo("Acked") /\ MakesNo("Failed")
BY Zenon DEF Ledger, storeVars, KeepsNames, KeepsCounts, MakesNo

\* kCreateMessageScript: at most one message is added; it starts at zero retries.
LEMMA LedgerCreate ==
  ASSUME Ledger, NEW from \in User, NEW to \in User, NEW cid \in ClientMsgId,
         NEW now \in Nat, Store!createMessage(from, to, cid, now)
  PROVE  /\ Ledger' /\ KeepsNames /\ KeepsCounts
         /\ MakesNo("Acked") /\ MakesNo("Failed")
         /\ ~Store!IdempotencyHit(from, cid) =>
              /\ next_id + 1 \in DOMAIN msg'
              /\ msg'[next_id + 1].from_uid = from
              /\ msg'[next_id + 1].client_msg_id = cid
<1>1. CASE Store!IdempotencyHit(from, cid)
  BY Zenon, <1>1, StoreUnchanged DEF Store!createMessage, Store!storeVars, storeVars
<1>2. CASE ~Store!IdempotencyHit(from, cid)
  <2> DEFINE id == next_id + 1
             r == Store!NewRecord(from, to, cid, now)
  <2>1. /\ next_id' = id
        /\ idem' = Put(idem, <<from, cid>>, id)
        /\ msg' = Put(msg, id, r)
        /\ pending' = [pending EXCEPT ![to] = ZAdd(@, now, id)]
        /\ recent' = [u \in User |-> IF u \in Store!RecentOwners(from, to)
                                     THEN ZAdd(recent[u], now, id) ELSE recent[u]]
        /\ delivered_timeout' = delivered_timeout
    BY Zenon, <1>2, StoreOperators
    DEF Store!createMessage, Store!storeVars, Store!MakeIdempotencyKey, User
  <2>2. r \in StoredRecord /\ r.from_uid = from /\ r.client_msg_id = cid
        /\ r.retry_count = 0 /\ r.status = "Pending"
    BY Zenon DEF Store!NewRecord, StoredRecord, Store!MessageStatus
  <2> HIDE DEF r
  <2>3. /\ id \in Nat /\ 1..id = 1..next_id \cup {id} /\ id \notin 1..next_id
        /\ DOMAIN msg = 1..next_id
    BY DEF Ledger
  <2> HIDE DEF id
  <2>4. /\ DOMAIN msg' = DOMAIN msg \cup {id} /\ id \notin DOMAIN msg
        /\ msg'[id] = r /\ \A i \in DOMAIN msg : msg'[i] = msg[i]
    BY Zenon, <2>1, <2>3 DEF Put
  <2>5. msg' \in [1..next_id' -> StoredRecord]
    <3>1. msg' = [x \in 1..next_id' |-> IF x = id THEN r ELSE msg[x]]
      BY Zenon, <2>1, <2>3 DEF Put
    <3> QED BY Zenon, <2>1, <2>2, <2>3, <3>1 DEF Ledger
  <2>6. \A k \in DOMAIN idem' :
          /\ idem'[k] \in 1..next_id'
          /\ k = <<msg'[idem'[k]].from_uid, msg'[idem'[k]].client_msg_id>>
    BY Zenon, <2>1, <2>2, <2>3, <2>4 DEF Put, Ledger
  <2>7. pending' \in [User -> ZSet]
    BY Zenon, <2>1, <2>3, ZSetWrite DEF Ledger
  <2>8. recent' \in [User -> ZSet]
    BY Zenon, <2>1, <2>3, ZSetWrite DEF Ledger
  <2>9. Ledger'
    BY Zenon, <2>1, <2>3, <2>5, <2>6, <2>7, <2>8 DEF Ledger
  <2>10. KeepsNames /\ KeepsCounts /\ MakesNo("Acked") /\ MakesNo("Failed")
    BY Zenon, <2>2, <2>4 DEF KeepsNames, KeepsCounts, MakesNo
  <2> QED BY Zenon, <2>2, <2>4, <2>9, <2>10 DEF id
<1> QED BY Zenon, <1>1, <1>2

\* One record is rewritten under the same names.
LEMMA LedgerRewrite ==
  ASSUME Ledger, NEW id \in DOMAIN msg, NEW r \in StoredRecord,
         msg' = [msg EXCEPT ![id] = r],
         r.from_uid = msg[id].from_uid, r.client_msg_id = msg[id].client_msg_id,
         next_id' = next_id, idem' = idem, recent' = recent,
         pending' \in [User -> ZSet], delivered_timeout' \in ZSet,
         \A e \in delivered_timeout' : e.member \in 1..next_id
  PROVE  /\ Ledger' /\ KeepsNames
         /\ DOMAIN msg' = DOMAIN msg /\ msg'[id] = r
         /\ \A i \in DOMAIN msg \ {id} : msg'[i] = msg[i]
<1>1. /\ DOMAIN msg' = DOMAIN msg /\ msg'[id] = r
      /\ \A i \in DOMAIN msg \ {id} : msg'[i] = msg[i]
  BY Zenon DEF Ledger
<1>2. msg' \in [1..next_id -> StoredRecord]
  BY Zenon DEF Ledger
<1>3. \A k \in DOMAIN idem :
        k = <<msg'[idem[k]].from_uid, msg'[idem[k]].client_msg_id>>
  BY <1>1 DEF Ledger
<1> QED BY Zenon, <1>1, <1>2, <1>3 DEF Ledger, KeepsNames

LEMMA MarkDelivered ==
  ASSUME Ledger, NEW id, NEW now \in Nat, Store!markDelivered(id, now)
  PROVE  Ledger' /\ KeepsNames /\ KeepsCounts /\ MakesNo("Acked") /\ MakesNo("Failed")
<1>1. CASE id \notin DOMAIN msg
  BY Zenon, <1>1, StoreUnchanged DEF Store!markDelivered, Store!storeVars, storeVars
<1>2. CASE id \in DOMAIN msg
  <2> DEFINE r == [msg[id] EXCEPT !.status = "Delivered", !.delivered_at_ms = now]
  <2>0. msg[id] \in StoredRecord /\ msg[id].to_uid \in User /\ id \in 1..next_id /\ id \in Nat
    BY <1>2 DEF Ledger, StoredRecord
  <2>1. /\ r \in StoredRecord
        /\ r.from_uid = msg[id].from_uid /\ r.client_msg_id = msg[id].client_msg_id
        /\ r.retry_count = msg[id].retry_count /\ r.status = "Delivered"
    BY Zenon, <2>0 DEF StoredRecord, Store!MessageStatus
  <2>2. /\ msg' = [msg EXCEPT ![id] = r]
        /\ pending' = [pending EXCEPT ![msg[id].to_uid] = ZRem(@, id)]
        /\ delivered_timeout' = ZAdd(delivered_timeout, now, id)
        /\ next_id' = next_id /\ idem' = idem /\ recent' = recent
    BY Zenon, <1>2, StoreOperators DEF Store!markDelivered, Ledger
  <2> HIDE DEF r
  <2>3. pending' \in [User -> ZSet] /\ delivered_timeout' \in ZSet
    BY Zenon, <2>0, <2>2, ZSetWrite DEF Ledger
  <2>4. \A e \in delivered_timeout' : e.member \in 1..next_id
    BY <2>0, <2>2 DEF Ledger, ZAdd, ZRem
  <2>5. /\ Ledger' /\ KeepsNames
        /\ DOMAIN msg' = DOMAIN msg /\ msg'[id] = r
        /\ \A i \in DOMAIN msg \ {id} : msg'[i] = msg[i]
    BY Zenon, <1>2, <2>1, <2>2, <2>3, <2>4, LedgerRewrite
  <2> QED BY Zenon, <2>1, <2>5 DEF KeepsCounts, MakesNo
<1> QED BY Zenon, <1>1, <1>2

LEMMA MarkPending ==
  ASSUME Ledger, NEW id, Store!markPending(id)
  PROVE  Ledger' /\ KeepsNames /\ KeepsCounts /\ MakesNo("Acked") /\ MakesNo("Failed")
<1>1. CASE id \notin DOMAIN msg
  BY Zenon, <1>1, StoreUnchanged DEF Store!markPending, Store!storeVars, storeVars
<1>2. CASE id \in DOMAIN msg
  <2> DEFINE r == [msg[id] EXCEPT !.status = "Pending"]
  <2>0. /\ msg[id] \in StoredRecord /\ msg[id].to_uid \in User
        /\ msg[id].created_at_ms \in Nat /\ id \in Nat
    BY <1>2 DEF Ledger, StoredRecord
  <2>1. /\ r \in StoredRecord
        /\ r.from_uid = msg[id].from_uid /\ r.client_msg_id = msg[id].client_msg_id
        /\ r.retry_count = msg[id].retry_count /\ r.status = "Pending"
    BY Zenon, <2>0 DEF StoredRecord, Store!MessageStatus
  <2>2. /\ msg' = [msg EXCEPT ![id] = r]
        /\ pending' = [pending EXCEPT ![msg[id].to_uid] =
                                        ZAdd(@, msg[id].created_at_ms, id)]
        /\ delivered_timeout' = ZRem(delivered_timeout, id)
        /\ next_id' = next_id /\ idem' = idem /\ recent' = recent
    BY Zenon, <1>2, StoreOperators DEF Store!markPending, Ledger
  <2> HIDE DEF r
  <2>3. pending' \in [User -> ZSet] /\ delivered_timeout' \in ZSet
    BY Zenon, <2>0, <2>2, ZSetWrite DEF Ledger
  <2>4. \A e \in delivered_timeout' : e.member \in 1..next_id
    BY Zenon, <2>2 DEF Ledger, ZRem
  <2>5. /\ Ledger' /\ KeepsNames
        /\ DOMAIN msg' = DOMAIN msg /\ msg'[id] = r
        /\ \A i \in DOMAIN msg \ {id} : msg'[i] = msg[i]
    BY Zenon, <1>2, <2>1, <2>2, <2>3, <2>4, LedgerRewrite
  <2> QED BY Zenon, <2>1, <2>5 DEF KeepsCounts, MakesNo
<1> QED BY Zenon, <1>1, <1>2

\* Acked and Failed: only this message gets the status.
LEMMA RetireIs ==
  ASSUME Ledger, NEW id \in DOMAIN msg, NEW st \in {"Acked", "Failed"},
         Store!Retire(id, st)
  PROVE  /\ Ledger' /\ KeepsNames /\ KeepsCounts
         /\ DOMAIN msg' = DOMAIN msg /\ msg'[id].status = st
         /\ \A i \in DOMAIN msg \ {id} : msg'[i] = msg[i]
<1> DEFINE r == [msg[id] EXCEPT !.status = st]
<1>0. msg[id] \in StoredRecord /\ msg[id].to_uid \in User /\ id \in Nat
  BY DEF Ledger, StoredRecord
<1>1. /\ r \in StoredRecord
      /\ r.from_uid = msg[id].from_uid /\ r.client_msg_id = msg[id].client_msg_id
      /\ r.retry_count = msg[id].retry_count /\ r.status = st
  BY Zenon, <1>0 DEF StoredRecord, Store!MessageStatus
<1>2. /\ msg' = [msg EXCEPT ![id] = r]
      /\ pending' = [pending EXCEPT ![msg[id].to_uid] = ZRem(@, id)]
      /\ delivered_timeout' = ZRem(delivered_timeout, id)
      /\ next_id' = next_id /\ idem' = idem /\ recent' = recent
  BY Zenon, StoreOperators DEF Store!Retire, Ledger
<1> HIDE DEF r
<1>3. pending' \in [User -> ZSet] /\ delivered_timeout' \in ZSet
  BY Zenon, <1>0, <1>2, ZSetWrite DEF Ledger
<1>4. \A e \in delivered_timeout' : e.member \in 1..next_id
  BY Zenon, <1>2 DEF Ledger, ZRem
<1>5. /\ Ledger' /\ KeepsNames
      /\ DOMAIN msg' = DOMAIN msg /\ msg'[id] = r
      /\ \A i \in DOMAIN msg \ {id} : msg'[i] = msg[i]
  BY Zenon, <1>1, <1>2, <1>3, <1>4, LedgerRewrite
<1> QED BY Zenon, <1>1, <1>5 DEF KeepsCounts

LEMMA MarkAcked ==
  ASSUME Ledger, NEW id, NEW uid, Store!markAcked(id, uid)
  PROVE  /\ Ledger' /\ KeepsNames /\ KeepsCounts /\ MakesNo("Failed")
         /\ \A i \in DOMAIN msg' : msg'[i].status = "Acked" =>
              i = id \/ (i \in DOMAIN msg /\ msg[i].status = "Acked")
<1>1. CASE UNCHANGED storeVars
  BY Zenon, <1>1, StoreUnchanged DEF MakesNo
<1>2. CASE id \in DOMAIN msg /\ Store!Retire(id, "Acked")
  BY Zenon, <1>2, RetireIs DEF MakesNo
<1> QED BY Zenon, <1>1, <1>2 DEF Store!markAcked, Store!storeVars, storeVars

LEMMA MarkFailed ==
  ASSUME Ledger, NEW id, Store!markFailed(id)
  PROVE  /\ Ledger' /\ KeepsNames /\ KeepsCounts /\ MakesNo("Acked")
         /\ \A i \in DOMAIN msg' : msg'[i].status = "Failed" =>
              i = id \/ (i \in DOMAIN msg /\ msg[i].status = "Failed")
<1>1. CASE UNCHANGED storeVars
  BY Zenon, <1>1, StoreUnchanged DEF MakesNo
<1>2. CASE id \in DOMAIN msg /\ Store!Retire(id, "Failed")
  BY Zenon, <1>2, RetireIs DEF MakesNo
<1> QED BY Zenon, <1>1, <1>2 DEF Store!markFailed, Store!storeVars, storeVars

LEMMA IncrementRetryCount ==
  ASSUME Ledger, NEW id \in DOMAIN msg, Store!incrementRetryCount(id)
  PROVE  /\ Ledger' /\ KeepsNames /\ MakesNo("Acked")
         /\ DOMAIN msg' = DOMAIN msg
         /\ msg'[id].retry_count = msg[id].retry_count + 1
         /\ msg'[id].status = msg[id].status
         /\ \A i \in DOMAIN msg \ {id} : msg'[i] = msg[i]
<1> DEFINE r == [msg[id] EXCEPT !.retry_count = @ + 1]
<1>0. msg[id] \in StoredRecord
  BY Zenon DEF Ledger
<1>1. /\ r \in StoredRecord
      /\ r.from_uid = msg[id].from_uid /\ r.client_msg_id = msg[id].client_msg_id
      /\ r.retry_count = msg[id].retry_count + 1 /\ r.status = msg[id].status
  BY <1>0 DEF StoredRecord
<1>2. /\ msg' = [msg EXCEPT ![id] = r]
      /\ pending' = pending /\ delivered_timeout' = delivered_timeout
      /\ next_id' = next_id /\ idem' = idem /\ recent' = recent
  BY Zenon DEF Store!incrementRetryCount, Ledger
<1> HIDE DEF r
<1>3. /\ Ledger' /\ KeepsNames
      /\ DOMAIN msg' = DOMAIN msg /\ msg'[id] = r
      /\ \A i \in DOMAIN msg \ {id} : msg'[i] = msg[i]
  <2>1. /\ pending' \in [User -> ZSet] /\ delivered_timeout' \in ZSet
        /\ \A e \in delivered_timeout' : e.member \in 1..next_id
    BY Zenon, <1>2 DEF Ledger
  <2> QED BY Zenon, <1>1, <1>2, <2>1, LedgerRewrite
<1> QED BY Zenon, <1>1, <1>3 DEF MakesNo

-----------------------------------------------------------------------------
(* The types of what the threads and the network hold.                     *)

Chat == [type : {"chat"}, conn : Conn, to : Receiver, cid : ClientMsgId]

QueuedEvent ==
  [type : {"login", "closed", "other"}, conn : Conn] \cup Chat
    \cup [type : {"ack"}, conn : Conn, id : Nat]

PositiveAck == [type : {"ack"}, ok : {TRUE}, cid : ClientMsgId, id : Nat]

Envelope ==
  {LoginResp} \cup [type : {"push"}, id : Nat, history : BOOLEAN]
    \cup PositiveAck
    \cup [type : {"ack"}, ok : {FALSE}, cid : ClientMsgId \cup {"none"}, id : {0}]

Ids == Seq(Nat) \ {<<>>}
Reply == {NoReply} \cup [conn : Conn, ack : PositiveAck]

Job ==
  {Idle} \cup [at : {"login_resp"}, conn : Conn]
    \cup [at : {"login_pending", "login_recent"}, uid : Uid]
    \cup [at : {"login_fetch"}, uid : Uid, ids : Ids, got : Seq(Nat)]
    \cup [at : {"target"}, ids : Ids, reply : Reply]
    \cup [at : {"push", "mark"}, ids : Ids, reply : Reply, target : SUBSET Conn]
    \cup [at : {"create"}, event : Chat]
    \cup [at : {"ack"}, id : Nat, uid : Uid]

Fetched == [id : Nat, retry_count : Nat]
Batch == Seq(Fetched) \ {<<>>}

CourierState ==
  {Idle} \cup [at : {"fetch"}, now : Nat, ids : Ids, got : Seq(Fetched)]
    \cup [at : {"each", "mark"}, got : Batch]
    \cup [at : {"push"}, got : Batch, target : SUBSET Conn]

Tables ==
  /\ DOMAIN conn_states \subseteq Conn
  /\ \A c \in DOMAIN conn_states : conn_states[c].uid \in Uid \cup {0}
  /\ \A u \in DOMAIN uid_to_conn : uid_to_conn[u] \in Conn

Threads ==
  /\ job \in [Worker -> Job]
  /\ courier \in CourierState
  /\ clock \in Nat

Network ==
  /\ link \in [Conn -> {"new", "open", "ready", "closed"}]
  /\ inbox \in [Conn -> Seq(Envelope)]
  /\ queue \in [Worker -> Seq(QueuedEvent)]

Types == Ledger /\ Tables /\ Threads /\ Network

LEMMA JobAt ==
  ASSUME NEW j \in Job
  PROVE  /\ j.at = "login_resp" => j.conn \in Conn
         /\ j.at \in {"login_pending", "login_fetch", "login_recent"} => j.uid \in Uid
         /\ j.at = "login_fetch" => j.ids \in Ids /\ j.got \in Seq(Nat)
         /\ j.at \in {"target", "push", "mark"} => j.ids \in Ids /\ j.reply \in Reply
         /\ j.at = "push" =>
              j \in [at : {"push"}, ids : Ids, reply : Reply, target : SUBSET Conn]
         /\ j.at = "create" => j.event \in Chat
         /\ j.at = "ack" => j.id \in Nat /\ j.uid \in Uid
BY DEF Job, Idle

LEMMA CourierAt ==
  ASSUME NEW c \in CourierState
  PROVE  /\ c.at = "fetch" => c.now \in Nat /\ c.ids \in Ids /\ c.got \in Seq(Fetched)
         /\ c.at \in {"each", "push", "mark"} => c.got \in Batch
         /\ c.at = "push" => c.target \in SUBSET Conn
BY DEF CourierState, Idle

LEMMA EventIs ==
  ASSUME NEW e \in QueuedEvent
  PROVE  /\ e.conn \in Conn
         /\ e.type = "chat" => e \in Chat /\ e.to \in Receiver /\ e.cid \in ClientMsgId
         /\ e.type = "ack" => e.id \in Nat
BY Zenon DEF QueuedEvent, Chat

LEMMA NonEmpty ==
  ASSUME NEW S, NEW s \in Seq(S), s # <<>>
  PROVE  Head(s) \in S /\ Tail(s) \in Seq(S)
OBVIOUS

\* The next job of a worker, the next round of the delivery thread.
LEMMA JobType ==
  /\ Idle \in Job
  /\ \A ids \in Seq(Nat), r \in Reply : Deliver(ids, r) \in Job
  /\ \A uid \in Uid, ids, got \in Seq(Nat) : Fetching(uid, ids, got) \in Job
BY DEF Job, Deliver, Fetching, Ids, Reply

LEMMA RoundType ==
  \A now \in Nat, ids \in Seq(Nat), got \in Seq(Fetched) : Round(now, ids, got) \in CourierState
BY Zenon DEF CourierState, Round, Ids, Batch

LEMMA SentType ==
  ASSUME Network, NEW c \in Conn, NEW es \in Seq(Envelope)
  PROVE  Sent(c, es) \in [Conn -> Seq(Envelope)]
<1>1. inbox[c] \o es \in Seq(Envelope)
  BY DEF Network
<1> QED BY Zenon, <1>1 DEF Network, Sent

LEMMA EnvelopeType ==
  /\ <<LoginResp>> \in Seq(Envelope)
  /\ \A id \in Nat, h \in BOOLEAN : <<Push(id, h)>> \in Seq(Envelope)
  /\ \A ack \in PositiveAck : <<ack>> \in Seq(Envelope)
  /\ \A cid \in ClientMsgId \cup {"none"} : <<ErrorAck(cid)>> \in Seq(Envelope)
<1>1. \A id \in Nat, h \in BOOLEAN : Push(id, h) \in Envelope
  BY Zenon DEF Envelope, Push
<1>2. \A cid \in ClientMsgId \cup {"none"} : ErrorAck(cid) \in Envelope
  BY Zenon DEF Envelope, ErrorAck
<1>3. LoginResp \in Envelope /\ PositiveAck \subseteq Envelope
  BY Zenon DEF Envelope
<1>4. \A e \in Envelope : <<e>> \in Seq(Envelope)
  OBVIOUS
<1> QED BY Zenon, <1>1, <1>2, <1>3, <1>4

LEMMA PushAllType ==
  ASSUME NEW l \in Seq(Nat)
  PROVE  [i \in DOMAIN l |-> Push(l[i], TRUE)] \in Seq(Envelope)
<1>1. \A id \in Nat : Push(id, TRUE) \in Envelope
  BY Zenon DEF Envelope, Push
<1>2. DOMAIN l = 1..Len(l) /\ Len(l) \in Nat /\ \A i \in DOMAIN l : l[i] \in Nat
  OBVIOUS
<1> DEFINE f == [i \in DOMAIN l |-> Push(l[i], TRUE)]
<1>3. f \in [1..Len(l) -> Envelope]
  BY Zenon, <1>1, <1>2
<1> HIDE DEF f
<1>4. f \in Seq(Envelope)
  BY <1>2, <1>3
<1> QED BY Zenon, <1>4 DEF f

LEMMA LatestType ==
  ASSUME Ledger, NEW uid \in Uid PROVE Latest(uid) \in Seq(Nat)
<1> DEFINE ids == ByScore(recent[uid])
           first == Len(ids) - kLoginRecentMessageLimit + 1
<1>1. ids \in Seq(Nat)
  BY Zenon, ByScoreIs DEF Ledger, User
<1> HIDE DEF ids
<1>2. Len(ids) \in Nat /\ kLoginRecentMessageLimit \in Nat
  BY <1>1, DispatcherAssumption
<1>3. \A m \in 1..Len(ids) + 1 : SubSeq(ids, m, Len(ids)) \in Seq(Nat)
  BY <1>1, <1>2
<1>4. (IF first > 1 THEN first ELSE 1) \in 1..Len(ids) + 1
  BY <1>2
<1> QED BY Zenon, <1>3, <1>4 DEF Latest, ids

LEMMA LostType ==
  ASSUME NEW s \in Seq(Nat), NEW k \in DOMAIN s
  PROVE  SubSeq(s, 1, k - 1) \o SubSeq(s, k + 1, Len(s)) \in Seq(Nat)
<1>1. k \in 1..Len(s) /\ Len(s) \in Nat
  OBVIOUS
<1>2. SubSeq(s, 1, k - 1) \in Seq(Nat) /\ SubSeq(s, k + 1, Len(s)) \in Seq(Nat)
  BY <1>1
<1> QED BY <1>2

LEMMA TypesInit == SortedSetFacts /\ Init => Types
<1> SUFFICES ASSUME SortedSetFacts, Init PROVE Types
  BY Zenon
<1>1. Ledger
  <2>1. /\ next_id = 0 /\ idem = Store!EmptyMap /\ msg = Store!EmptyMap
        /\ pending = [u \in User |-> {}] /\ recent = [u \in User |-> {}]
        /\ delivered_timeout = {}
    BY Zenon DEF Init, Store!Init, User
  <2>2. msg \in [1..next_id -> StoredRecord] /\ DOMAIN idem = {}
    BY <2>1 DEF Store!EmptyMap
  <2> QED BY Zenon, <2>1, <2>2, ZSetEmpty DEF Ledger
<1>2. Tables
  BY Zenon DEF Init, Users!Init, Users!EmptyMap, Tables
<1>3. Threads
  BY Zenon, JobType DEF Init, Threads, CourierState
<1>4. Network
  BY DEF Init, Network
<1> QED BY Zenon, <1>1, <1>2, <1>3, <1>4 DEF Types

\* A worker takes the next event of its queue.
LEMMA BeginIs ==
  ASSUME Types, NEW w \in Worker, NEW type, Begin(w, type)
  PROVE  /\ Event(w) \in QueuedEvent /\ Event(w).type = type
         /\ queue[w] # <<>> /\ job[w] = Idle
         /\ queue' = [queue EXCEPT ![w] = Tail(queue[w])]
         /\ queue' \in [Worker -> Seq(QueuedEvent)]
<1>1. queue[w] \in Seq(QueuedEvent) /\ queue[w] # <<>>
  BY Zenon DEF Types, Network, Begin
<1>2. Head(queue[w]) \in QueuedEvent /\ Tail(queue[w]) \in Seq(QueuedEvent)
  BY Zenon, <1>1, NonEmpty
<1> QED BY Zenon, <1>1, <1>2 DEF Types, Network, Begin, Event

\* The user tables.
LEMMA BindType ==
  ASSUME Tables, NEW c \in Conn, NEW u \in Uid, Users!bindUser(c, u)
  PROVE  Tables' /\ DOMAIN conn_states' = DOMAIN conn_states \cup {c}
<1> DEFINE index == Users!WithoutEntryOf(c)
           states == [x \in DOMAIN conn_states |->
                        IF x \in Users!FormerConn(index, c, u)
                        THEN Users!NotLoggedIn ELSE conn_states[x]]
<1>1. \A v \in DOMAIN index : v \in DOMAIN uid_to_conn /\ index[v] = uid_to_conn[v]
  BY Zenon DEF Users!WithoutEntryOf, Users!Erase, Users!Restrict
<1>2. DOMAIN states = DOMAIN conn_states /\ \A x \in DOMAIN states : states[x].uid \in Uid \cup {0}
  BY Zenon DEF Tables, Users!NotLoggedIn
<1> HIDE DEF index, states
<1>3. /\ conn_states' = Users!Put(states, c, [uid |-> u, state |-> "Authenticated"])
      /\ uid_to_conn' = Users!Put(index, u, c)
  BY Zenon DEF Users!bindUser, index, states
<1> QED BY Zenon, <1>1, <1>2, <1>3 DEF Tables, Users!Put

LEMMA RemoveType ==
  ASSUME Tables, NEW c \in Conn, Users!removeConnection(c)
  PROVE  Tables' /\ DOMAIN conn_states' = DOMAIN conn_states \ {c}
BY Zenon DEF Tables, Users!removeConnection, Users!WithoutEntryOf, Users!Erase, Users!Restrict

LEMMA TargetType ==
  ASSUME Tables PROVE \A u : Users!getConnByUid(u) \in SUBSET Conn
BY Zenon DEF Tables, Users!getConnByUid

\* sendRecentMessages pushes a list of messages on a connection, or nothing.
LEMMA RecentIs ==
  ASSUME Types, NEW w \in Worker, LoginRecent(w)
  PROVE  \/ inbox' = inbox
         \/ \E d \in Conn, l \in Seq(Nat) :
              inbox' = Sent(d, [i \in DOMAIN l |-> Push(l[i], TRUE)])
<1> DEFINE latest == Latest(job[w].uid)
           Lost(k) == SubSeq(latest, 1, k - 1) \o SubSeq(latest, k + 1, Len(latest))
           some == {<<>>} \cup {Lost(k) : k \in DOMAIN latest}
<1>1. job[w].uid \in Uid
  BY Zenon, JobAt DEF LoginRecent, Types, Threads
<1>2. latest \in Seq(Nat)
  BY Zenon, <1>1, LatestType DEF Types
<1>3. some \subseteq Seq(Nat)
  <2>1. \A k \in DOMAIN latest : Lost(k) \in Seq(Nat)
    BY Zenon, <1>2, LostType
  <2>2. <<>> \in Seq(Nat)
    OBVIOUS
  <2> QED BY <2>1, <2>2, Zenon
<1>4. \E l \in {latest} \cup some :
        inbox' = IF \E c \in Users!getConnByUid(job[w].uid) : Connected(c)
                 THEN Sent(uid_to_conn[job[w].uid], [i \in DOMAIN l |-> Push(l[i], TRUE)])
                 ELSE inbox
  BY Zenon DEF LoginRecent
<1> HIDE DEF latest, some
<1>5. PICK l \in Seq(Nat) :
        inbox' = IF \E c \in Users!getConnByUid(job[w].uid) : Connected(c)
                 THEN Sent(uid_to_conn[job[w].uid], [i \in DOMAIN l |-> Push(l[i], TRUE)])
                 ELSE inbox
  BY Zenon, <1>2, <1>3, <1>4
<1>6. (\E c \in Users!getConnByUid(job[w].uid) : Connected(c)) => uid_to_conn[job[w].uid] \in Conn
  BY Zenon DEF Users!getConnByUid, Types, Tables
<1> QED BY Zenon, <1>5, <1>6

\* handleLogin keeps the types.
LEMMA TypesLogin ==
  ASSUME Types, NEW w \in Worker, handleLogin(w)
  PROVE  Types' /\ KeepsNames
<1>0. job \in [Worker -> Job] /\ job[w] \in Job
  BY Zenon DEF Types, Threads
<1>1. CASE LoginBind(w)
  <2>1. /\ Event(w).conn \in Conn /\ queue' \in [Worker -> Seq(QueuedEvent)]
    BY Zenon, <1>1, BeginIs, EventIs DEF LoginBind
  <2>2. UserOf[Event(w).conn] \in Uid
    BY Zenon, <2>1, DispatcherAssumption
  <2>3. Tables'
    BY Zenon, <1>1, <2>1, <2>2, BindType DEF LoginBind, Types
  <2>4. job' \in [Worker -> Job]
    BY Zenon, <1>0, <1>1, <2>1 DEF LoginBind, Goto, Job
  <2>5. Ledger' /\ KeepsNames
    BY Zenon, <1>1, StoreUnchanged DEF LoginBind, Types
  <2> QED BY Zenon, <1>1, <2>1, <2>3, <2>4, <2>5
          DEF LoginBind, Types, Threads, Network, netVars, envVars
<1>2. CASE LoginResponse(w)
  <2>1. job[w].conn \in Conn /\ UserOf[job[w].conn] \in Uid
    BY Zenon, <1>0, <1>2, JobAt, DispatcherAssumption DEF LoginResponse
  <2>2. inbox' \in [Conn -> Seq(Envelope)]
    BY Zenon, <1>2, <2>1, SentType, EnvelopeType DEF LoginResponse, Types
  <2>3. job' \in [Worker -> Job]
    BY Zenon, <1>0, <1>2, <2>1 DEF LoginResponse, Goto, Job
  <2>4. Ledger' /\ KeepsNames
    BY Zenon, <1>2, StoreUnchanged DEF LoginResponse, Types
  <2> QED BY Zenon, <1>2, <2>2, <2>3, <2>4
          DEF LoginResponse, Types, Threads, Network, Tables, userVars, envVars
<1>3. CASE LoginPending(w)
  <2>1. job[w].uid \in Uid
    BY Zenon, <1>0, <1>3, JobAt DEF LoginPending
  <2>2. ByScore(pending[job[w].uid]) \in Seq(Nat)
    BY Zenon, <2>1, ByScoreIs DEF Types, Ledger, User
  <2>3. job' \in [Worker -> Job]
    <3>0. <<>> \in Seq(Nat)
      OBVIOUS
    <3>1. /\ Fetching(job[w].uid, ByScore(pending[job[w].uid]), <<>>) \in Job
          /\ Fetching(job[w].uid, <<>>, <<>>) \in Job
      BY Zenon, <2>1, <2>2, <3>0, JobType
    <3> QED BY Zenon, <1>0, <1>3, <3>1 DEF LoginPending, Goto
  <2>4. Ledger' /\ KeepsNames
    BY Zenon, <1>3, StoreUnchanged DEF LoginPending, Types
  <2> QED BY Zenon, <1>3, <2>3, <2>4
          DEF LoginPending, Types, Threads, Network, Tables, userVars, netVars, envVars
<1>4. CASE LoginFetch(w)
  <2>1. /\ job[w].uid \in Uid /\ job[w].got \in Seq(Nat)
        /\ Head(job[w].ids) \in Nat /\ Tail(job[w].ids) \in Seq(Nat)
    BY <1>0, <1>4, JobAt DEF LoginFetch, Ids
  <2>2. Append(job[w].got, Head(job[w].ids)) \in Seq(Nat)
    BY <2>1
  <2>3. job' \in [Worker -> Job]
    <3>1. \A got \in {job[w].got, Append(job[w].got, Head(job[w].ids))} :
            Fetching(job[w].uid, Tail(job[w].ids), got) \in Job
      BY Zenon, <2>1, <2>2, JobType
    <3>2. \E j \in Job : job' = [job EXCEPT ![w] = j]
      BY Zenon, <1>4, <3>1 DEF LoginFetch, Goto
    <3> QED BY Zenon, <1>0, <3>2
  <2>4. Ledger' /\ KeepsNames
    BY Zenon, <1>4, StoreUnchanged DEF LoginFetch, Types
  <2> QED BY Zenon, <1>4, <2>3, <2>4
          DEF LoginFetch, Types, Threads, Network, Tables, userVars, netVars, envVars
<1>5. CASE LoginRecent(w)
  <2>1. inbox' \in [Conn -> Seq(Envelope)]
    BY Zenon, <1>5, RecentIs, PushAllType, SentType DEF Types, Network
  <2>2. job' \in [Worker -> Job]
    BY Zenon, <1>0, <1>5, JobType DEF LoginRecent, Goto
  <2>3. Ledger' /\ KeepsNames
    BY Zenon, <1>5, StoreUnchanged DEF LoginRecent, Types
  <2> QED BY Zenon, <1>5, <2>1, <2>2, <2>3
          DEF LoginRecent, Types, Threads, Network, Tables, userVars, envVars
<1> QED BY Zenon, <1>1, <1>2, <1>3, <1>4, <1>5 DEF handleLogin

LEMMA NextMessageType ==
  ASSUME Types, NEW w \in Worker, job[w].at \in {"push", "mark"}, NextMessage(w)
  PROVE  /\ job' \in [Worker -> Job]
         /\ inbox' \in [Conn -> Seq(Envelope)]
<1> DEFINE rest == Tail(job[w].ids)
           reply == job[w].reply
<1>1. rest \in Seq(Nat) /\ reply \in Reply
  BY Zenon, JobAt, NonEmpty DEF Types, Threads, Ids
<1>2. /\ job' = [job EXCEPT ![w] = Deliver(rest, reply)]
      /\ inbox' = IF rest = <<>> /\ reply # NoReply
                  THEN Sent(reply.conn, <<reply.ack>>) ELSE inbox
  BY Zenon DEF NextMessage, Goto
<1> HIDE DEF rest, reply
<1>3. job' \in [Worker -> Job]
  BY Zenon, <1>1, <1>2, JobType DEF Types, Threads
<1>4. CASE reply # NoReply
  <2>1. reply.conn \in Conn /\ reply.ack \in PositiveAck
    BY Zenon, <1>1, <1>4 DEF Reply
  <2>2. Sent(reply.conn, <<reply.ack>>) \in [Conn -> Seq(Envelope)]
    BY Zenon, <2>1, EnvelopeType, SentType DEF Types
  <2> QED BY Zenon, <1>2, <1>3, <2>2 DEF Types, Network
<1> QED BY Zenon, <1>2, <1>3, <1>4 DEF Types, Network

\* tryDeliverMessage keeps the types.
LEMMA TypesDeliver ==
  ASSUME Types, NEW w \in Worker, tryDeliverMessage(w)
  PROVE  Types' /\ KeepsNames
<1>0. job \in [Worker -> Job] /\ job[w] \in Job
  BY Zenon DEF Types, Threads
<1>1. CASE DeliverTarget(w)
  <2>1. job[w].ids \in Ids /\ job[w].reply \in Reply
    BY Zenon, <1>0, <1>1, JobAt DEF DeliverTarget
  <2>2. Target(Head(job[w].ids)) \in SUBSET Conn
    BY Zenon, TargetType DEF Types, Target
  <2>3. job' \in [Worker -> Job]
    BY Zenon, <1>0, <1>1, <2>1, <2>2 DEF DeliverTarget, Goto, Job
  <2>4. Ledger' /\ KeepsNames
    BY Zenon, <1>1, StoreUnchanged DEF DeliverTarget, Types
  <2> QED BY Zenon, <1>1, <2>3, <2>4
          DEF DeliverTarget, Types, Threads, Network, Tables, userVars, netVars, envVars
<1>2. CASE DeliverOffline(w)
  <2>1. Ledger' /\ KeepsNames
    BY Zenon, <1>2, StoreUnchanged, MarkPending DEF DeliverOffline, Script, Types
  <2>2. job' \in [Worker -> Job] /\ inbox' \in [Conn -> Seq(Envelope)]
    BY Zenon, <1>2, NextMessageType DEF DeliverOffline
  <2> QED BY Zenon, <1>2, <2>1, <2>2
          DEF DeliverOffline, Types, Threads, Network, Tables, userVars, envVars
<1>3. CASE DeliverPush(w)
  <2>1. job[w] \in [at : {"push"}, ids : Ids, reply : Reply, target : SUBSET Conn]
    BY Zenon, <1>0, <1>3, JobAt DEF DeliverPush
  <2>2. Head(job[w].ids) \in Nat
    BY Zenon, <2>1, NonEmpty DEF Ids
  <2>3. inbox' \in [Conn -> Seq(Envelope)]
    <3>1. PICK c \in job[w].target : inbox' = Sent(c, <<Push(Head(job[w].ids), FALSE)>>)
      BY Zenon, <1>3 DEF DeliverPush
    <3> QED BY Zenon, <2>1, <2>2, <3>1, SentType, EnvelopeType DEF Types
  <2>4. job' \in [Worker -> Job]
    BY Zenon, <1>0, <1>3, <2>1 DEF DeliverPush, Goto, Job
  <2>5. Ledger' /\ KeepsNames
    BY Zenon, <1>3, StoreUnchanged DEF DeliverPush, Types
  <2> QED BY Zenon, <1>3, <2>3, <2>4, <2>5
          DEF DeliverPush, Types, Threads, Network, Tables, userVars, envVars
<1>4. CASE DeliverMark(w)
  <2>1. Ledger' /\ KeepsNames
    BY Zenon, <1>4, StoreUnchanged, MarkDelivered DEF DeliverMark, Script, Types, Threads
  <2>2. job' \in [Worker -> Job] /\ inbox' \in [Conn -> Seq(Envelope)]
    BY Zenon, <1>4, NextMessageType DEF DeliverMark
  <2> QED BY Zenon, <1>4, <2>1, <2>2
          DEF DeliverMark, Types, Threads, Network, Tables, userVars, envVars
<1> QED BY Zenon, <1>1, <1>2, <1>3, <1>4 DEF tryDeliverMessage

\* What createMessage of MessageStore.cpp leaves behind: the store, and the
\* id that the dispatcher puts in its ACK.
AckedId(from, cid) ==
  IF Store!IdempotencyHit(from, cid)
  THEN idem[Store!MakeIdempotencyKey(from, cid)] ELSE next_id + 1

LEMMA CreateIs ==
  ASSUME Types, NEW e \in Chat, NEW result, createMessage(e, result)
  PROVE  /\ Ledger' /\ KeepsNames /\ KeepsCounts
         /\ MakesNo("Acked") /\ MakesNo("Failed")
         /\ AckedId(UserOf[e.conn], e.cid) \in Nat
         /\ result # "failed" =>
              LET id == AckedId(UserOf[e.conn], e.cid)
              IN  /\ id \in DOMAIN msg'
                  /\ msg'[id].from_uid = UserOf[e.conn]
                  /\ msg'[id].client_msg_id = e.cid
<1> DEFINE from == UserOf[e.conn]
           id == AckedId(from, e.cid)
<1>1. from \in User /\ e.to \in User /\ e.cid \in ClientMsgId /\ clock \in Nat
  BY Zenon, DispatcherAssumption DEF Chat, User, Types, Threads
<1>2. Ledger
  BY Zenon DEF Types
<1> HIDE DEF from
<1>3. CASE UNCHANGED storeVars /\ result = "failed"
  <2>1. id \in Nat
    BY <1>2 DEF AckedId, Store!IdempotencyHit, Store!MakeIdempotencyKey, Ledger
  <2> QED BY Zenon, <1>2, <1>3, <2>1, StoreUnchanged DEF from
<1>4. CASE Store!createMessage(from, e.to, e.cid, clock)
  <2>1. /\ Ledger' /\ KeepsNames /\ KeepsCounts
        /\ MakesNo("Acked") /\ MakesNo("Failed")
        /\ ~Store!IdempotencyHit(from, e.cid) =>
             /\ next_id + 1 \in DOMAIN msg'
             /\ msg'[next_id + 1].from_uid = from
             /\ msg'[next_id + 1].client_msg_id = e.cid
    BY Zenon, <1>1, <1>2, <1>4, LedgerCreate
  <2>2. CASE Store!IdempotencyHit(from, e.cid)
    <3>1. /\ id \in DOMAIN msg /\ id \in Nat
          /\ msg[id].from_uid = from /\ msg[id].client_msg_id = e.cid
      BY <1>2, <2>2 DEF AckedId, Store!IdempotencyHit, Store!MakeIdempotencyKey, Ledger
    <3> HIDE DEF id
    <3>2. id \in DOMAIN msg' /\ msg'[id].from_uid = from /\ msg'[id].client_msg_id = e.cid
      BY Zenon, <2>1, <3>1 DEF KeepsNames
    <3> QED BY Zenon, <2>1, <3>1, <3>2 DEF id, from
  <2>3. CASE ~Store!IdempotencyHit(from, e.cid)
    <3>1. id = next_id + 1 /\ id \in Nat
      BY <1>2, <2>3 DEF AckedId, Ledger
    <3> HIDE DEF id
    <3> QED BY Zenon, <2>1, <2>3, <3>1 DEF id, from
  <2> QED BY Zenon, <2>2, <2>3
<1> QED BY Zenon, <1>3, <1>4 DEF createMessage, from

LEMMA ChatCreateIs ==
  ASSUME Types, NEW w \in Worker, ChatCreate(w)
  PROVE  LET e   == job[w].event
             id  == AckedId(UserOf[e.conn], e.cid)
             ack == Ack(e.cid, id)
         IN  /\ e \in Chat /\ ack \in PositiveAck
             /\ \/ /\ createMessage(e, "duplicate")
                   /\ Goto(w, Idle) /\ inbox' = Sent(e.conn, <<ack>>)
                \/ /\ createMessage(e, "created")
                   /\ Goto(w, Deliver(<<id>>, [conn |-> e.conn, ack |-> ack]))
                   /\ inbox' = inbox
                \/ /\ createMessage(e, "failed")
                   /\ Goto(w, Idle) /\ inbox' = Sent(e.conn, <<ErrorAck(e.cid)>>)
<1> DEFINE e == job[w].event
           id == AckedId(UserOf[e.conn], e.cid)
<1>1. e \in Chat
  BY Zenon, JobAt DEF ChatCreate, Types, Threads
<1>2. \E r \in {"duplicate", "created", "failed"} : createMessage(e, r)
  BY Zenon DEF ChatCreate
<1>3. id \in Nat
  BY Zenon, <1>1, <1>2, CreateIs
<1>4. Ack(e.cid, id) \in PositiveAck
  BY Zenon, <1>1, <1>3 DEF Ack, PositiveAck, Chat
<1> QED BY Zenon, <1>1, <1>4 DEF ChatCreate, AckedId

\* handleChat, handleAck, handleConnectionClosed and the rest keep the types.
LEMMA TypesRequests ==
  ASSUME Types, NEW w \in Worker,
         \/ ChatCheck(w) \/ ChatCreate(w) \/ AckCheck(w) \/ AckMark(w)
         \/ handleConnectionClosed(w) \/ handleUnsupported(w)
  PROVE  Types' /\ KeepsNames
<1>0. job \in [Worker -> Job] /\ job[w] \in Job
  BY Zenon DEF Types, Threads
<1>1. CASE ChatCheck(w)
  <2>1. /\ Event(w) \in Chat /\ Event(w).conn \in Conn /\ Event(w).cid \in ClientMsgId
        /\ queue' \in [Worker -> Seq(QueuedEvent)]
    BY Zenon, <1>1, BeginIs, EventIs DEF ChatCheck
  <2>2. inbox' \in [Conn -> Seq(Envelope)]
    <3>1. Sent(Event(w).conn, <<ErrorAck(Event(w).cid)>>) \in [Conn -> Seq(Envelope)]
      BY Zenon, <2>1, SentType, EnvelopeType DEF Types
    <3> QED BY Zenon, <1>1, <3>1 DEF ChatCheck, Types, Network
  <2>3. job' \in [Worker -> Job]
    <3>1. [at |-> "create", event |-> Event(w)] \in Job
      BY Zenon, <2>1 DEF Job
    <3> QED BY Zenon, <1>0, <1>1, <3>1 DEF ChatCheck, Goto
  <2>4. Ledger' /\ KeepsNames
    BY Zenon, <1>1, StoreUnchanged DEF ChatCheck, Types
  <2> QED BY Zenon, <1>1, <2>1, <2>2, <2>3, <2>4
          DEF ChatCheck, Types, Threads, Network, Tables, userVars, envVars
<1>2. CASE ChatCreate(w)
  <2> DEFINE e == job[w].event
             id == AckedId(UserOf[e.conn], e.cid)
             ack == Ack(e.cid, id)
  <2>1. /\ e \in Chat /\ ack \in PositiveAck
        /\ \/ /\ createMessage(e, "duplicate")
              /\ Goto(w, Idle) /\ inbox' = Sent(e.conn, <<ack>>)
           \/ /\ createMessage(e, "created")
              /\ Goto(w, Deliver(<<id>>, [conn |-> e.conn, ack |-> ack]))
              /\ inbox' = inbox
           \/ /\ createMessage(e, "failed")
              /\ Goto(w, Idle) /\ inbox' = Sent(e.conn, <<ErrorAck(e.cid)>>)
    BY Zenon, <1>2, ChatCreateIs
  <2>2. Ledger' /\ KeepsNames /\ id \in Nat
    BY Zenon, <2>1, CreateIs
  <2>3. e.conn \in Conn /\ e.cid \in ClientMsgId
    BY Zenon, <2>1 DEF Chat
  <2> HIDE DEF e, id, ack
  <2>4. /\ Sent(e.conn, <<ack>>) \in [Conn -> Seq(Envelope)]
        /\ Sent(e.conn, <<ErrorAck(e.cid)>>) \in [Conn -> Seq(Envelope)]
    BY Zenon, <2>1, <2>3, SentType, EnvelopeType DEF Types
  <2>5. Deliver(<<id>>, [conn |-> e.conn, ack |-> ack]) \in Job
    <3>1. <<id>> \in Seq(Nat) /\ [conn |-> e.conn, ack |-> ack] \in Reply
      BY <2>1, <2>2, <2>3 DEF Reply
    <3> QED BY Zenon, <3>1, JobType
  <2>6. inbox' \in [Conn -> Seq(Envelope)] /\ job' \in [Worker -> Job]
    BY Zenon, <1>0, <2>1, <2>4, <2>5, JobType DEF Goto, Types, Network
  <2> QED BY Zenon, <1>2, <2>2, <2>6
          DEF ChatCreate, Types, Threads, Network, Tables, userVars, envVars
<1>3. CASE AckCheck(w)
  <2> DEFINE uid == Users!getUidByConn(Event(w).conn)
  <2>1. /\ Event(w).conn \in Conn /\ Event(w).id \in Nat
        /\ queue' \in [Worker -> Seq(QueuedEvent)]
    BY Zenon, <1>3, BeginIs, EventIs DEF AckCheck
  <2>2. uid \in Uid \cup {0}
    BY Zenon DEF Types, Tables, Users!getUidByConn
  <2>3. job' = [job EXCEPT ![w] = IF Event(w).id = 0 \/ uid = 0 THEN Idle
                                  ELSE [at |-> "ack", id |-> Event(w).id, uid |-> uid]]
    BY Zenon, <1>3 DEF AckCheck, Goto
  <2> HIDE DEF uid
  <2>4. job' \in [Worker -> Job]
    BY Zenon, <1>0, <2>1, <2>2, <2>3 DEF Job
  <2>5. Ledger' /\ KeepsNames
    BY Zenon, <1>3, StoreUnchanged DEF AckCheck, Types
  <2> QED BY Zenon, <1>3, <2>1, <2>4, <2>5
          DEF AckCheck, Types, Threads, Network, Tables, userVars, netVars, envVars
<1>4. CASE AckMark(w)
  <2>1. Ledger' /\ KeepsNames
    BY Zenon, <1>4, StoreUnchanged, MarkAcked DEF AckMark, Script, Types
  <2>2. job' \in [Worker -> Job]
    BY Zenon, <1>0, <1>4, JobType DEF AckMark, Goto
  <2> QED BY Zenon, <1>4, <2>1, <2>2
          DEF AckMark, Types, Threads, Network, Tables, userVars, netVars, envVars
<1>5. CASE handleConnectionClosed(w)
  <2>1. Event(w).conn \in Conn /\ queue' \in [Worker -> Seq(QueuedEvent)]
    BY Zenon, <1>5, BeginIs, EventIs DEF handleConnectionClosed
  <2>2. Tables'
    BY Zenon, <1>5, <2>1, RemoveType DEF handleConnectionClosed, Types
  <2>3. Ledger' /\ KeepsNames
    BY Zenon, <1>5, StoreUnchanged DEF handleConnectionClosed, Types
  <2> QED BY Zenon, <1>5, <2>1, <2>2, <2>3
          DEF handleConnectionClosed, Types, Threads, Network, netVars, envVars
<1>6. CASE handleUnsupported(w)
  <2>1. Event(w).conn \in Conn /\ queue' \in [Worker -> Seq(QueuedEvent)]
    BY Zenon, <1>6, BeginIs, EventIs DEF handleUnsupported
  <2>2. inbox' \in [Conn -> Seq(Envelope)]
    BY Zenon, <1>6, <2>1, SentType, EnvelopeType DEF handleUnsupported, Types
  <2>3. Ledger' /\ KeepsNames
    BY Zenon, <1>6, StoreUnchanged DEF handleUnsupported, Types
  <2> QED BY Zenon, <1>6, <2>1, <2>2, <2>3
          DEF handleUnsupported, Types, Threads, Network, Tables, userVars, envVars
<1> QED BY Zenon, <1>1, <1>2, <1>3, <1>4, <1>5, <1>6

LEMMA NextRecordType ==
  ASSUME Types, courier.at \in {"each", "push", "mark"}
  PROVE  /\ Record \in Fetched /\ Record.id \in Nat
         /\ Round(0, <<>>, Tail(courier.got)) \in CourierState
<1>1. courier.got \in Seq(Fetched) /\ courier.got # <<>>
  BY Zenon, CourierAt DEF Types, Threads, Batch
<1>2. Head(courier.got) \in Fetched /\ Tail(courier.got) \in Seq(Fetched)
  BY Zenon, <1>1, NonEmpty
<1>3. <<>> \in Seq(Nat)
  OBVIOUS
<1> QED BY Zenon, <1>2, <1>3, RoundType DEF Record, Fetched

\* A round handles stored messages, each once, and the retry counters it
\* fetched are still those of the store when it comes to use them: nobody
\* else counts retries, and the round does not meet a message twice.
Rounds ==
  /\ courier.at = "fetch" =>
       /\ \A i \in DOMAIN courier.ids : courier.ids[i] \in DOMAIN msg
       /\ \A i, j \in DOMAIN courier.ids : courier.ids[i] = courier.ids[j] => i = j
       /\ \A i \in DOMAIN courier.ids, k \in DOMAIN courier.got :
            courier.ids[i] # courier.got[k].id
  /\ courier.at \in {"fetch", "each", "push", "mark"} =>
       /\ \A j, k \in DOMAIN courier.got : courier.got[j].id = courier.got[k].id => j = k
       /\ \A k \in DOMAIN courier.got :
            /\ courier.got[k].id \in DOMAIN msg
            /\ courier.at # "mark" \/ k # 1 =>
                 courier.got[k].retry_count = msg[courier.got[k].id].retry_count
  /\ courier.at = "push" => ~Exhausted(Record)

\* What fetching one record adds to the round.
LEMMA FetchIs ==
  ASSUME Types, CourierFetch
  PROVE  LET id == Head(courier.ids)
             rest == Tail(courier.ids)
             f == [id |-> id, retry_count |-> msg[id].retry_count]
         IN  \/ courier' = Round(courier.now, rest, courier.got)
             \/ courier' = Round(courier.now, rest, courier.got \o <<f>>)
<1> DEFINE id == Head(courier.ids)
           rest == Tail(courier.ids)
           f == [id |-> id, retry_count |-> msg[id].retry_count]
           taken(r) == IF r # <<>> /\ Store!IsTimedOut(Head(r), courier.now, kAckTimeoutMs)
                       THEN <<[id |-> id, retry_count |-> Head(r).retry_count]>> ELSE <<>>
<1>1. courier.got \o <<>> = courier.got
  <2>1. courier.got \in Seq(Fetched)
    BY Zenon, CourierAt DEF Types, Threads, CourierFetch
  <2> QED BY <2>1
<1>2. PICK r \in {<<>>, <<msg[id]>>} : courier' = Round(courier.now, rest, courier.got \o taken(r))
  BY Zenon DEF CourierFetch
<1>3. Head(<<msg[id]>>) = msg[id]
  OBVIOUS
<1>4. taken(r) = <<>> \/ taken(r) = <<f>>
  BY Zenon, <1>3
<1> QED BY <1>1, <1>2, <1>4, Zenon

\* deliveryLoop keeps the types.
LEMMA TypesCourier ==
  ASSUME Types, Rounds, deliveryLoop
  PROVE  Types' /\ KeepsNames
<1>0. courier \in CourierState /\ clock \in Nat
  BY Zenon DEF Types, Threads
<1>1. CASE CourierScan
  <2>1. Store!TimeoutCandidates(clock, kAckTimeoutMs) \in ZSet
    BY Zenon, ZSetSubset DEF Store!TimeoutCandidates, Types, Ledger
  <2>2. ByScore(Store!TimeoutCandidates(clock, kAckTimeoutMs)) \in Seq(Nat)
    BY Zenon, <2>1, ByScoreIs DEF Types, Ledger
  <2>a. <<>> \in Seq(Fetched)
    OBVIOUS
  <2>3. courier' \in CourierState
    BY Zenon, <1>0, <1>1, <2>2, <2>a, RoundType DEF CourierScan
  <2>4. Ledger' /\ KeepsNames
    BY Zenon, <1>1, StoreUnchanged DEF CourierScan, Types
  <2> QED BY Zenon, <1>1, <2>3, <2>4
          DEF CourierScan, Types, Threads, Network, Tables, userVars, netVars, envVars
<1>2. CASE CourierFetch
  <2> DEFINE id == Head(courier.ids)
             rest == Tail(courier.ids)
             f == [id |-> id, retry_count |-> msg[id].retry_count]
  <2>1. /\ courier.now \in Nat /\ courier.got \in Seq(Fetched)
        /\ id \in Nat /\ rest \in Seq(Nat)
    BY Zenon, <1>0, <1>2, CourierAt, NonEmpty DEF CourierFetch, Ids
  <2>2. id \in DOMAIN msg
    <3>1. courier.ids \in Seq(Nat) /\ courier.ids # <<>>
      BY Zenon, <1>0, <1>2, CourierAt DEF CourierFetch, Ids
    <3>2. 1 \in DOMAIN courier.ids /\ id = courier.ids[1]
      BY <3>1
    <3> QED BY Zenon, <1>2, <3>2 DEF Rounds, CourierFetch
  <2>3. \/ courier' = Round(courier.now, rest, courier.got)
        \/ courier' = Round(courier.now, rest, courier.got \o <<f>>)
    BY Zenon, <1>2, FetchIs
  <2> HIDE DEF id, rest
  <2>4. f \in Fetched
    BY Zenon, <2>1, <2>2 DEF Fetched, Types, Ledger, StoredRecord
  <2> HIDE DEF f
  <2>5. courier.got \o <<f>> \in Seq(Fetched)
    BY <2>1, <2>4
  <2>6. courier' \in CourierState
    BY Zenon, <2>1, <2>3, <2>5, RoundType
  <2>7. Ledger' /\ KeepsNames
    BY Zenon, <1>2, StoreUnchanged DEF CourierFetch, Types
  <2> QED BY Zenon, <1>2, <2>6, <2>7
          DEF CourierFetch, Types, Threads, Network, Tables, userVars, netVars, envVars
<1>3. CASE CourierFail
  <2>1. Ledger' /\ KeepsNames
    BY Zenon, <1>3, StoreUnchanged, MarkFailed DEF CourierFail, Script, Types
  <2>2. courier' \in CourierState
    BY Zenon, <1>3, NextRecordType DEF CourierFail, NextRecord
  <2> QED BY Zenon, <1>3, <2>1, <2>2
          DEF CourierFail, Types, Threads, Network, Tables, userVars, netVars, envVars
<1>4. CASE CourierTarget
  <2>1. Target(Record.id) \in SUBSET Conn
    BY Zenon, TargetType DEF Types, Target
  <2>2. courier.got \in Batch
    BY Zenon, <1>0, <1>4, CourierAt DEF CourierTarget
  <2>3. courier' \in CourierState
    BY Zenon, <1>4, <2>1, <2>2 DEF CourierTarget, CourierState
  <2>4. Ledger' /\ KeepsNames
    BY Zenon, <1>4, StoreUnchanged DEF CourierTarget, Types
  <2> QED BY Zenon, <1>4, <2>3, <2>4
          DEF CourierTarget, Types, Threads, Network, Tables, userVars, netVars, envVars
<1>5. CASE CourierOffline
  <2>1. Ledger' /\ KeepsNames
    BY Zenon, <1>5, StoreUnchanged, MarkPending DEF CourierOffline, Script, Types
  <2>2. courier' \in CourierState
    BY Zenon, <1>5, NextRecordType DEF CourierOffline, NextRecord
  <2> QED BY Zenon, <1>5, <2>1, <2>2
          DEF CourierOffline, Types, Threads, Network, Tables, userVars, netVars, envVars
<1>6. CASE CourierPush
  <2>1. /\ courier.got \in Batch /\ courier.target \in SUBSET Conn /\ Record.id \in Nat
    BY Zenon, <1>0, <1>6, CourierAt, NextRecordType DEF CourierPush
  <2>2. Record.id \in DOMAIN msg
    <3>1. courier.got \in Seq(Fetched) /\ courier.got # <<>>
      BY Zenon, <2>1 DEF Batch
    <3>2. 1 \in DOMAIN courier.got /\ Record = courier.got[1]
      BY <3>1 DEF Record
    <3> QED BY Zenon, <1>6, <3>2 DEF Rounds, CourierPush
  <2>3. Ledger' /\ KeepsNames
    BY Zenon, <1>6, <2>2, StoreUnchanged, IncrementRetryCount DEF CourierPush, Script, Types
  <2>4. inbox' \in [Conn -> Seq(Envelope)]
    <3>1. PICK c \in courier.target : inbox' = Sent(c, <<Push(Record.id, FALSE)>>)
      BY Zenon, <1>6 DEF CourierPush
    <3> QED BY Zenon, <2>1, <3>1, SentType, EnvelopeType DEF Types
  <2>5. courier' \in CourierState
    BY Zenon, <1>6, <2>1 DEF CourierPush, CourierState
  <2> QED BY Zenon, <1>6, <2>3, <2>4, <2>5
          DEF CourierPush, Types, Threads, Network, Tables, userVars, envVars
<1>7. CASE CourierMark
  <2>1. Ledger' /\ KeepsNames
    BY Zenon, <1>0, <1>7, StoreUnchanged, MarkDelivered DEF CourierMark, Script, Types
  <2>2. courier' \in CourierState
    BY Zenon, <1>7, NextRecordType DEF CourierMark, NextRecord
  <2> QED BY Zenon, <1>7, <2>1, <2>2
          DEF CourierMark, Types, Threads, Network, Tables, userVars, netVars, envVars
<1> QED BY Zenon, <1>1, <1>2, <1>3, <1>4, <1>5, <1>6, <1>7 DEF deliveryLoop

\* An event goes to the end of the queue of the worker of its connection.
LEMMA EnqueueIs ==
  ASSUME Network, NEW e \in QueuedEvent, Enqueue(e)
  PROVE  /\ Shard[e.conn] \in Worker
         /\ queue' = [queue EXCEPT ![Shard[e.conn]] = Append(queue[Shard[e.conn]], e)]
         /\ queue' \in [Worker -> Seq(QueuedEvent)]
<1>1. Shard[e.conn] \in Worker
  BY Zenon, EventIs, DispatcherAssumption
<1>2. queue[Shard[e.conn]] \in Seq(QueuedEvent)
  BY Zenon, <1>1 DEF Network
<1>3. Append(queue[Shard[e.conn]], e) \in Seq(QueuedEvent)
  BY <1>2
<1>4. queue' = [queue EXCEPT ![Shard[e.conn]] = Append(queue[Shard[e.conn]], e)]
  BY Zenon, <1>1 DEF Enqueue, ShardOf, Network
<1> QED BY Zenon, <1>1, <1>3, <1>4 DEF Network

LEMMA EventType ==
  /\ \A c \in Conn : LoginRequest(c) \in QueuedEvent /\ ConnectionClosed(c) \in QueuedEvent
  /\ \A c \in Conn, to \in Receiver, cid \in ClientMsgId : ChatRequest(c, to, cid) \in QueuedEvent
  /\ \A c \in Conn, id \in Nat : ClientAck(c, id) \in QueuedEvent
  /\ \A c \in Conn : [type |-> "other", conn |-> c] \in QueuedEvent
BY Zenon DEF LoginRequest, ConnectionClosed, ChatRequest, ClientAck, QueuedEvent, Chat

\* What a client reads.
LEMMA InboxIs ==
  ASSUME Types, NEW c \in Conn, inbox[c] # <<>>
  PROVE  /\ inbox[c] \in Seq(Envelope)
         /\ Head(inbox[c]) \in Envelope /\ Tail(inbox[c]) \in Seq(Envelope)
         /\ Head(inbox[c]).type = "push" => Head(inbox[c]).id \in Nat
<1>1. inbox[c] \in Seq(Envelope)
  BY Zenon DEF Types, Network
<1>2. Head(inbox[c]) \in Envelope /\ Tail(inbox[c]) \in Seq(Envelope)
  BY Zenon, <1>1, NonEmpty
<1>3. \A e \in Envelope : e.type = "push" => e.id \in Nat
  <2>1. LoginResp.type = "login_resp"
    BY Zenon DEF LoginResp
  <2>2. \A e \in [type : {"push"}, id : Nat, history : BOOLEAN] : e.id \in Nat
    BY Zenon
  <2>3. \A e \in PositiveAck : e.type = "ack"
    BY Zenon DEF PositiveAck
  <2>4. \A e \in [type : {"ack"}, ok : {FALSE}, cid : ClientMsgId \cup {"none"}, id : {0}] :
          e.type = "ack"
    BY Zenon
  <2> QED BY Zenon, <2>1, <2>2, <2>3, <2>4 DEF Envelope
<1> QED BY Zenon, <1>1, <1>2, <1>3

\* The clients, TCP, the clock and a crash keep the types.
LEMMA TypesEnvironment ==
  ASSUME Types,
         \/ \E c \in Conn : Connect(c) \/ ClientSend(c) \/ ClientReceive(c) \/ Disconnect(c)
         \/ Tick \/ Crash
  PROVE  Types' /\ KeepsNames
<1>0. Network
  BY Zenon DEF Types
<1>1. ASSUME NEW c \in Conn, Connect(c) PROVE Types' /\ KeepsNames
  <2>1. queue' \in [Worker -> Seq(QueuedEvent)]
    BY Zenon, <1>0, <1>1, EventType, EnqueueIs DEF Connect
  <2>2. link' \in [Conn -> {"new", "open", "ready", "closed"}]
    BY Zenon, <1>0, <1>1 DEF Connect, Network
  <2>3. Ledger' /\ KeepsNames
    BY Zenon, <1>1, StoreUnchanged DEF Connect, Types
  <2> QED BY Zenon, <1>1, <2>1, <2>2, <2>3
          DEF Connect, Types, Threads, Network, Tables, userVars, envVars
<1>2. ASSUME NEW c \in Conn, ClientSend(c) PROVE Types' /\ KeepsNames
  <2>1. queue' \in [Worker -> Seq(QueuedEvent)]
    BY Zenon, <1>0, <1>2, EventType, EnqueueIs DEF ClientSend
  <2>2. Ledger' /\ KeepsNames
    BY Zenon, <1>2, StoreUnchanged DEF ClientSend, Types
  <2> QED BY Zenon, <1>2, <2>1, <2>2
          DEF ClientSend, Types, Threads, Network, Tables, userVars, netVars
<1>3. ASSUME NEW c \in Conn, ClientReceive(c) PROVE Types' /\ KeepsNames
  <2>1. /\ Tail(inbox[c]) \in Seq(Envelope)
        /\ Head(inbox[c]).type = "push" => Head(inbox[c]).id \in Nat
    BY Zenon, <1>3, InboxIs DEF ClientReceive
  <2>2. queue' \in [Worker -> Seq(QueuedEvent)]
    <3>1. CASE queue' = queue
      BY Zenon, <1>0, <3>1 DEF Network
    <3>2. CASE Head(inbox[c]).type = "push" /\ Enqueue(ClientAck(c, Head(inbox[c]).id))
      BY Zenon, <1>0, <2>1, <3>2, EventType, EnqueueIs
    <3> QED BY Zenon, <1>3, <3>1, <3>2 DEF ClientReceive
  <2>3. /\ inbox' \in [Conn -> Seq(Envelope)]
        /\ link' \in [Conn -> {"new", "open", "ready", "closed"}]
    BY Zenon, <1>0, <1>3, <2>1 DEF ClientReceive, Network
  <2>4. Ledger' /\ KeepsNames
    BY Zenon, <1>3, StoreUnchanged DEF ClientReceive, Types
  <2> QED BY Zenon, <1>3, <2>2, <2>3, <2>4
          DEF ClientReceive, Types, Threads, Network, Tables, userVars
<1>4. ASSUME NEW c \in Conn, Disconnect(c) PROVE Types' /\ KeepsNames
  <2>1. queue' \in [Worker -> Seq(QueuedEvent)]
    BY Zenon, <1>0, <1>4, EventType, EnqueueIs DEF Disconnect
  <2>2. /\ inbox' \in [Conn -> Seq(Envelope)]
        /\ link' \in [Conn -> {"new", "open", "ready", "closed"}]
    BY <1>0, <1>4 DEF Disconnect, Network
  <2>3. Ledger' /\ KeepsNames
    BY Zenon, <1>4, StoreUnchanged DEF Disconnect, Types
  <2> QED BY Zenon, <1>4, <2>1, <2>2, <2>3
          DEF Disconnect, Types, Threads, Network, Tables, userVars, envVars
<1>5. CASE Tick
  <2>1. Ledger' /\ KeepsNames
    BY Zenon, <1>5, StoreUnchanged DEF Tick, Types
  <2> QED BY <1>5, <2>1 DEF Tick, Types, Threads, Network, Tables, userVars, netVars
<1>6. CASE Crash
  <2>1. Ledger' /\ KeepsNames
    BY Zenon, <1>6, StoreUnchanged DEF Crash, Types
  <2>2. Tables'
    BY Zenon, <1>6 DEF Crash, Tables, EmptyMap
  <2>3. Threads'
    BY Zenon, <1>6, JobType DEF Crash, Types, Threads, CourierState
  <2>4. Network'
    BY <1>6 DEF Crash, Network
  <2> QED BY Zenon, <2>1, <2>2, <2>3, <2>4 DEF Types
<1> QED BY Zenon, <1>1, <1>2, <1>3, <1>4, <1>5, <1>6

LEMMA TypesNext ==
  ASSUME Types, Rounds, [Next]_vars
  PROVE  Types' /\ KeepsNames
<1>1. CASE UNCHANGED vars
  <2>1. Ledger' /\ KeepsNames
    BY Zenon, <1>1, StoreUnchanged DEF vars, Types
  <2> QED BY Zenon, <1>1, <2>1
          DEF vars, Types, Threads, Network, Tables, userVars, netVars, envVars
<1>2. ASSUME NEW w \in Worker, WorkerStep(w) PROVE Types' /\ KeepsNames
  BY Zenon, <1>2, TypesLogin, TypesDeliver, TypesRequests DEF WorkerStep
<1> QED BY Zenon, <1>1, <1>2, TypesCourier, TypesEnvironment DEF Next

-----------------------------------------------------------------------------
(* Retries.                                                                *)

\* No step of a worker, of a client or of the environment touches a retry
\* counter or gives a message up, and only AckMark acknowledges one.
LEMMA OthersKeep ==
  ASSUME Types,
         \/ \E w \in Worker : WorkerStep(w)
         \/ \E c \in Conn : Connect(c) \/ ClientSend(c) \/ ClientReceive(c) \/ Disconnect(c)
         \/ Tick \/ Crash
  PROVE  /\ KeepsCounts /\ MakesNo("Failed")
         /\ MakesNo("Acked") \/ \E w \in Worker : AckMark(w)
         /\ courier' \in {courier, Idle}
<1> DEFINE Goal == /\ KeepsCounts /\ MakesNo("Failed")
                   /\ MakesNo("Acked") \/ \E w \in Worker : AckMark(w)
                   /\ courier' \in {courier, Idle}
<1>0. Ledger /\ clock \in Nat
  BY Zenon DEF Types, Threads
<1>1. ASSUME NEW w \in Worker, handleLogin(w) PROVE Goal
  BY Zenon, <1>0, <1>1, StoreUnchanged
  DEF handleLogin, LoginBind, LoginResponse, LoginPending, LoginFetch, LoginRecent
<1>2. ASSUME NEW w \in Worker, DeliverTarget(w) \/ DeliverPush(w) PROVE Goal
  BY Zenon, <1>0, <1>2, StoreUnchanged DEF DeliverTarget, DeliverPush
<1>3. ASSUME NEW w \in Worker, DeliverOffline(w) PROVE Goal
  BY Zenon, <1>0, <1>3, StoreUnchanged, MarkPending DEF DeliverOffline, Script
<1>4. ASSUME NEW w \in Worker, DeliverMark(w) PROVE Goal
  BY Zenon, <1>0, <1>4, StoreUnchanged, MarkDelivered DEF DeliverMark, Script
<1>5. ASSUME NEW w \in Worker, ChatCreate(w) PROVE Goal
  BY Zenon, <1>5, ChatCreateIs, CreateIs DEF ChatCreate
<1>6. ASSUME NEW w \in Worker, AckMark(w) PROVE Goal
  BY Zenon, <1>0, <1>6, StoreUnchanged, MarkAcked DEF AckMark, Script
<1>7. ASSUME NEW w \in Worker,
             ChatCheck(w) \/ AckCheck(w) \/ handleConnectionClosed(w) \/ handleUnsupported(w)
      PROVE  Goal
  BY Zenon, <1>0, <1>7, StoreUnchanged
  DEF ChatCheck, AckCheck, handleConnectionClosed, handleUnsupported
<1>8. ASSUME NEW c \in Conn, Connect(c) \/ ClientSend(c) \/ ClientReceive(c) \/ Disconnect(c)
      PROVE  Goal
  BY Zenon, <1>0, <1>8, StoreUnchanged DEF Connect, ClientSend, ClientReceive, Disconnect
<1>9. ASSUME Tick \/ Crash PROVE Goal
  BY Zenon, <1>0, <1>9, StoreUnchanged DEF Tick, Crash
<1> HIDE DEF Goal
<1>10. Goal
  BY Zenon, <1>1, <1>2, <1>3, <1>4, <1>5, <1>6, <1>7, <1>8, <1>9 DEF WorkerStep, tryDeliverMessage
<1> QED BY Zenon, <1>10 DEF Goal

\* Counters that stay, and no message given up, keep what RetriesAreExact says.
LEMMA ExactKept ==
  ASSUME RetriesAreExact, KeepsCounts, MakesNo("Failed")
  PROVE  RetriesAreExact'
<1>1. 0 <= kMaxDeliveryRetryCount
  BY DispatcherAssumption
<1> QED BY Zenon, <1>1 DEF RetriesAreExact, KeepsCounts, MakesNo

LEMMA RoundsKept ==
  ASSUME Rounds, KeepsCounts, courier' \in {courier, Idle}
  PROVE  Rounds'
<1>1. CASE courier' = courier
  BY Zenon, <1>1 DEF Rounds, KeepsCounts, Record, Exhausted
<1>2. CASE courier' = Idle
  BY Zenon, <1>2 DEF Rounds, Idle
<1> QED BY Zenon, <1>1, <1>2

\* What the rest of a round must satisfy.
LEMMA RoundGood ==
  ASSUME NEW now, NEW ids, NEW g, courier' = Round(now, ids, g),
         \A i \in DOMAIN ids : ids[i] \in DOMAIN msg',
         \A i, j \in DOMAIN ids : ids[i] = ids[j] => i = j,
         \A i \in DOMAIN ids, k \in DOMAIN g : ids[i] # g[k].id,
         \A j, k \in DOMAIN g : g[j].id = g[k].id => j = k,
         \A k \in DOMAIN g : /\ g[k].id \in DOMAIN msg'
                             /\ g[k].retry_count = msg'[g[k].id].retry_count
  PROVE  Rounds'
BY Zenon DEF Rounds, Round, Idle

\* The delivery thread goes on to the next record of its batch.
LEMMA NextRecordGood ==
  ASSUME Types, Rounds, KeepsCounts, courier.at \in {"each", "push", "mark"}, NextRecord
  PROVE  Rounds'
<1> DEFINE g == Tail(courier.got)
<1>1. courier.got \in Seq(Fetched) /\ courier.got # <<>>
  BY Zenon, CourierAt DEF Types, Threads, Batch
<1>2. /\ Len(courier.got) \in Nat
      /\ \A k \in DOMAIN g : /\ k + 1 \in DOMAIN courier.got /\ k + 1 # 1
                             /\ g[k] = courier.got[k + 1]
  BY <1>1
<1>3. \A k \in DOMAIN g : k \in Nat
  BY <1>1
<1> HIDE DEF g
<1>4. \A j, k \in DOMAIN g : g[j].id = g[k].id => j = k
  BY <1>2, <1>3 DEF Rounds
<1>5. \A k \in DOMAIN g : /\ g[k].id \in DOMAIN msg'
                          /\ g[k].retry_count = msg'[g[k].id].retry_count
  BY <1>2 DEF Rounds, KeepsCounts
<1>6. courier' = Round(0, <<>>, g) /\ DOMAIN <<>> = {}
  BY DEF NextRecord, g
<1> QED BY Zenon, <1>4, <1>5, <1>6, RoundGood

\* The record in hand.
LEMMA RecordIs ==
  ASSUME Types, Rounds, courier.at \in {"each", "push"}
  PROVE  /\ courier.got \in Seq(Fetched) /\ courier.got # <<>>
         /\ 1 \in DOMAIN courier.got /\ Record = courier.got[1]
         /\ Record.id \in DOMAIN msg /\ Record.retry_count \in Nat
         /\ Record.retry_count = msg[Record.id].retry_count
<1>1. courier.got \in Seq(Fetched) /\ courier.got # <<>>
  BY Zenon, CourierAt DEF Types, Threads, Batch
<1>2. 1 \in DOMAIN courier.got /\ Record = courier.got[1] /\ Record \in Fetched
  BY <1>1 DEF Record
<1> QED BY Zenon, <1>1, <1>2 DEF Rounds, Fetched

LEMMA RetriesCourier ==
  ASSUME Types, Rounds, RetriesAreExact, deliveryLoop
  PROVE  Rounds' /\ RetriesAreExact' /\ MakesNo("Acked")
<1>0. Ledger /\ clock \in Nat /\ courier \in CourierState
  BY Zenon DEF Types, Threads
<1>1. CASE CourierScan
  <2> DEFINE z == Store!TimeoutCandidates(clock, kAckTimeoutMs)
             ids == ByScore(z)
  <2>1. z \in ZSet /\ z \subseteq delivered_timeout
    BY Zenon, ZSetSubset DEF Store!TimeoutCandidates, Types, Ledger
  <2>2. KeepsCounts /\ MakesNo("Failed") /\ MakesNo("Acked") /\ msg' = msg
    BY Zenon, <1>0, <1>1, StoreUnchanged DEF CourierScan, storeVars
  <2>3. courier' = Round(clock, ids, <<>>)
    BY Zenon, <1>1 DEF CourierScan
  <2> HIDE DEF z
  <2>4. /\ \A i \in DOMAIN ids : \E e \in z : ids[i] = e.member
        /\ \A i, j \in DOMAIN ids : ids[i] = ids[j] => i = j
    BY Zenon, <2>1, ByScoreIs DEF Types, Ledger
  <2>5. \A i \in DOMAIN ids : ids[i] \in DOMAIN msg'
    BY Zenon, <1>0, <2>1, <2>2, <2>4 DEF Ledger
  <2> HIDE DEF ids
  <2>6. DOMAIN <<>> = {}
    OBVIOUS
  <2>7. Rounds'
    BY Zenon, <2>3, <2>4, <2>5, <2>6, RoundGood
  <2> QED BY Zenon, <2>2, <2>7, ExactKept
<1>2. CASE CourierFetch
  <2> DEFINE id == Head(courier.ids)
             rest == Tail(courier.ids)
             got == courier.got
             f == [id |-> id, retry_count |-> msg[id].retry_count]
  <2>1. courier.at = "fetch" /\ courier.ids \in Seq(Nat) /\ courier.ids # <<>> /\ got \in Seq(Fetched)
    BY Zenon, <1>0, <1>2, CourierAt DEF CourierFetch, Ids
  <2>2. /\ 1 \in DOMAIN courier.ids /\ id = courier.ids[1]
        /\ \A i \in DOMAIN rest : /\ i \in Nat /\ i + 1 \in DOMAIN courier.ids /\ i + 1 # 1
                                  /\ rest[i] = courier.ids[i + 1]
    BY <2>1
  <2>3. KeepsCounts /\ MakesNo("Failed") /\ MakesNo("Acked") /\ msg' = msg
    BY Zenon, <1>0, <1>2, StoreUnchanged DEF CourierFetch, storeVars
  <2>4. \/ courier' = Round(courier.now, rest, got)
        \/ courier' = Round(courier.now, rest, got \o <<f>>)
    BY Zenon, <1>2, FetchIs
  <2>5. /\ f.id = id /\ f.retry_count = msg[id].retry_count /\ id \in DOMAIN msg
    BY <2>1, <2>2 DEF Rounds
  <2> HIDE DEF f, rest, id
  <2>6. /\ \A i \in DOMAIN rest : rest[i] \in DOMAIN msg' /\ rest[i] # id
        /\ \A i, j \in DOMAIN rest : rest[i] = rest[j] => i = j
        /\ \A i \in DOMAIN rest, k \in DOMAIN got : rest[i] # got[k].id
    BY <2>1, <2>2, <2>3 DEF Rounds
  <2>7. /\ \A j, k \in DOMAIN got : got[j].id = got[k].id => j = k
        /\ \A k \in DOMAIN got : /\ got[k].id \in DOMAIN msg' /\ got[k].id # id
                                 /\ got[k].retry_count = msg'[got[k].id].retry_count
    BY Zenon, <2>1, <2>2, <2>3 DEF Rounds
  <2> HIDE DEF got
  <2>8. CASE courier' = Round(courier.now, rest, got)
    <3>1. Rounds'
      BY Zenon, <2>6, <2>7, <2>8, RoundGood
    <3> QED BY Zenon, <2>3, <3>1, ExactKept
  <2>9. CASE courier' = Round(courier.now, rest, got \o <<f>>)
    <3> DEFINE g == got \o <<f>>
    <3>1. /\ DOMAIN g = DOMAIN got \cup {Len(got) + 1} /\ Len(got) + 1 \notin DOMAIN got
          /\ g[Len(got) + 1] = f /\ \A k \in DOMAIN got : g[k] = got[k]
      BY <2>1
    <3> HIDE DEF g
    <3>2. /\ \A j, k \in DOMAIN g : g[j].id = g[k].id => j = k
          /\ \A k \in DOMAIN g : /\ g[k].id \in DOMAIN msg'
                                 /\ g[k].retry_count = msg'[g[k].id].retry_count
      BY Zenon, <2>3, <2>5, <2>7, <3>1
    <3>3. \A i \in DOMAIN rest, k \in DOMAIN g : rest[i] # g[k].id
      BY Zenon, <2>5, <2>6, <3>1
    <3>4. courier' = Round(courier.now, rest, g)
      BY Zenon, <2>9 DEF g
    <3>5. Rounds'
      BY Zenon, <2>6, <3>2, <3>3, <3>4, RoundGood
    <3> QED BY Zenon, <2>3, <3>5, ExactKept
  <2> QED BY Zenon, <2>4, <2>8, <2>9
<1>3. CASE CourierFail
  <2>1. /\ Record.id \in DOMAIN msg /\ Record.retry_count = msg[Record.id].retry_count
        /\ Record.retry_count \in Nat
    BY Zenon, <1>3, RecordIs DEF CourierFail
  <2>2. /\ KeepsCounts /\ MakesNo("Acked")
        /\ \A i \in DOMAIN msg' : msg'[i].status = "Failed" =>
             i = Record.id \/ (i \in DOMAIN msg /\ msg[i].status = "Failed")
    BY Zenon, <1>0, <1>3, StoreUnchanged, MarkFailed DEF CourierFail, Script, MakesNo
  <2>3. msg[Record.id].retry_count = kMaxDeliveryRetryCount
    BY <1>3, <2>1, DispatcherAssumption DEF CourierFail, Exhausted, RetriesAreExact
  <2>4. RetriesAreExact'
    <3>1. 0 <= kMaxDeliveryRetryCount
      BY DispatcherAssumption
    <3> QED BY Zenon, <2>1, <2>2, <2>3, <3>1 DEF RetriesAreExact, KeepsCounts
  <2> QED BY Zenon, <1>3, <2>2, <2>4, NextRecordGood DEF CourierFail
<1>4. CASE CourierTarget
  <2>1. KeepsCounts /\ MakesNo("Failed") /\ MakesNo("Acked") /\ msg' = msg
    BY Zenon, <1>0, <1>4, StoreUnchanged DEF CourierTarget, storeVars
  <2>2. Rounds'
    BY Zenon, <1>4, <2>1 DEF CourierTarget, Rounds, Record, Exhausted
  <2> QED BY Zenon, <2>1, <2>2, ExactKept
<1>5. CASE CourierOffline
  <2>1. KeepsCounts /\ MakesNo("Failed") /\ MakesNo("Acked")
    BY Zenon, <1>0, <1>5, StoreUnchanged, MarkPending DEF CourierOffline, Script
  <2> QED BY Zenon, <1>5, <2>1, ExactKept, NextRecordGood DEF CourierOffline
<1>6. CASE CourierPush
  <2>1. /\ 1 \in DOMAIN courier.got /\ Record = courier.got[1]
        /\ Record.id \in DOMAIN msg /\ Record.retry_count \in Nat
        /\ Record.retry_count = msg[Record.id].retry_count
    BY Zenon, <1>6, RecordIs DEF CourierPush
  <2>2. Record.retry_count < kMaxDeliveryRetryCount
    BY <1>6, <2>1, DispatcherAssumption DEF CourierPush, Rounds, Exhausted
  <2>3. courier' = [at |-> "mark", got |-> courier.got] /\ courier.at = "push"
    BY Zenon, <1>6 DEF CourierPush
  <2>4. CASE UNCHANGED storeVars
    <3>1. KeepsCounts /\ MakesNo("Failed") /\ MakesNo("Acked") /\ msg' = msg
      BY Zenon, <1>0, <2>4, StoreUnchanged DEF storeVars
    <3>2. Rounds'
      BY Zenon, <2>3, <3>1 DEF Rounds
    <3> QED BY Zenon, <3>1, <3>2, ExactKept
  <2>5. CASE Store!incrementRetryCount(Record.id)
    <3>1. /\ MakesNo("Acked")
          /\ DOMAIN msg' = DOMAIN msg
          /\ msg'[Record.id].retry_count = msg[Record.id].retry_count + 1
          /\ msg'[Record.id].status = msg[Record.id].status
          /\ \A i \in DOMAIN msg \ {Record.id} : msg'[i] = msg[i]
      BY Zenon, <1>0, <2>1, <2>5, IncrementRetryCount
    <3>2. msg[Record.id].status # "Failed"
      BY <2>1, <2>2 DEF RetriesAreExact
    <3>3. \A a, b \in Nat : a < b => a + 1 <= b
      OBVIOUS
    <3>4. msg'[Record.id].retry_count <= kMaxDeliveryRetryCount
      BY Zenon, <2>1, <2>2, <3>1, <3>3, DispatcherAssumption
    <3>5. RetriesAreExact'
      BY Zenon, <3>1, <3>2, <3>4 DEF RetriesAreExact
    <3>6. Rounds'
      BY ZenonT(60), <2>1, <2>3, <3>1 DEF Rounds
    <3> QED BY Zenon, <3>1, <3>5, <3>6
  <2> QED BY Zenon, <1>6, <2>4, <2>5 DEF CourierPush, Script
<1>7. CASE CourierMark
  <2>1. KeepsCounts /\ MakesNo("Failed") /\ MakesNo("Acked")
    BY Zenon, <1>0, <1>7, StoreUnchanged, MarkDelivered DEF CourierMark, Script
  <2> QED BY Zenon, <1>7, <2>1, ExactKept, NextRecordGood DEF CourierMark
<1> QED BY Zenon, <1>1, <1>2, <1>3, <1>4, <1>5, <1>6, <1>7 DEF deliveryLoop

RetryInv == Types /\ Rounds /\ RetriesAreExact

LEMMA RetryInductive ==
  /\ SortedSetFacts /\ Init => RetryInv
  /\ RetryInv /\ [Next]_vars => RetryInv'
<1>1. SortedSetFacts /\ Init => RetryInv
  BY TypesInit DEF Init, Store!Init, Store!EmptyMap, RetryInv, Rounds, RetriesAreExact, Idle
<1>2. RetryInv /\ [Next]_vars => RetryInv'
  <2> SUFFICES ASSUME RetryInv, [Next]_vars PROVE RetryInv'
    BY Zenon
  <2>0. Types /\ Rounds /\ RetriesAreExact /\ Types'
    BY Zenon, TypesNext DEF RetryInv
  <2>1. CASE UNCHANGED vars
    BY Zenon, <2>0, <2>1 DEF vars, storeVars, RetryInv, Rounds, RetriesAreExact, Record, Exhausted
  <2>2. CASE deliveryLoop
    BY Zenon, <2>0, <2>2, RetriesCourier DEF RetryInv
  <2>3. CASE Next /\ ~deliveryLoop
    <3>1. KeepsCounts /\ MakesNo("Failed") /\ courier' \in {courier, Idle}
      BY Zenon, <2>0, <2>3, OthersKeep DEF Next
    <3> QED BY Zenon, <2>0, <3>1, ExactKept, RoundsKept DEF RetryInv
  <2> QED BY Zenon, <2>1, <2>2, <2>3
<1> QED BY Zenon, <1>1, <1>2

-----------------------------------------------------------------------------
(* Queues, receipts and closed connections.                                *)

LEMMA TailElements ==
  ASSUME NEW S, NEW s \in Seq(S), s # <<>>
  PROVE  /\ Len(s) \in Nat /\ Len(s) >= 1 /\ Len(Tail(s)) = Len(s) - 1
         /\ DOMAIN Tail(s) = 1..Len(Tail(s)) /\ DOMAIN s = 1..Len(s)
         /\ Head(s) = s[1]
         /\ \A i \in DOMAIN Tail(s) : i + 1 \in DOMAIN s /\ Tail(s)[i] = s[i + 1]
OBVIOUS

LEMMA AppendElements ==
  ASSUME NEW S, NEW s \in Seq(S), NEW e \in S
  PROVE  /\ Len(s) \in Nat /\ Len(Append(s, e)) = Len(s) + 1
         /\ DOMAIN s = 1..Len(s) /\ DOMAIN Append(s, e) = 1..(Len(s) + 1)
         /\ Append(s, e)[Len(s) + 1] = e
         /\ \A i \in DOMAIN s : Append(s, e)[i] = s[i]
OBVIOUS

\* What a step does to the queues: nothing, a worker takes the head of its
\* queue (and forgets the connection if that is a close event), an event of a
\* connection that is not closed is added, or all is lost.
LEMMA QueueStep ==
  ASSUME Types, Next
  PROVE  \/ queue' = queue
         \/ \E w \in Worker, t \in {"login", "chat", "ack", "closed", "other"} :
              /\ Begin(w, t)
              /\ t = "closed" => Event(w).conn \notin DOMAIN conn_states'
         \/ \E e \in QueuedEvent :
              /\ Enqueue(e)
              /\ e.type = "ack" => e.id \in received'
              /\ link[e.conn] # "closed" \/ inbox[e.conn] # <<>>
         \/ Crash
<1> DEFINE Added == \E e \in QueuedEvent :
              /\ Enqueue(e)
              /\ e.type = "ack" => e.id \in received'
              /\ link[e.conn] # "closed" \/ inbox[e.conn] # <<>>
           Taken == \E w \in Worker, t \in {"login", "chat", "ack", "closed", "other"} :
              /\ Begin(w, t)
              /\ t = "closed" => Event(w).conn \notin DOMAIN conn_states'
<1>1. ASSUME NEW w \in Worker, handleLogin(w) PROVE queue' = queue \/ Taken
  BY Zenon, <1>1 DEF handleLogin, LoginBind, LoginResponse, LoginPending, LoginFetch, LoginRecent
<1>2. ASSUME NEW w \in Worker, tryDeliverMessage(w) PROVE queue' = queue
  BY Zenon, <1>2 DEF tryDeliverMessage, DeliverTarget, DeliverOffline, DeliverPush, DeliverMark
<1>3. ASSUME NEW w \in Worker,
             \/ ChatCheck(w) \/ ChatCreate(w) \/ AckCheck(w) \/ AckMark(w)
             \/ handleConnectionClosed(w) \/ handleUnsupported(w)
      PROVE  queue' = queue \/ Taken
  <2>1. CASE handleConnectionClosed(w)
    <3>1. Event(w).conn \in Conn
      BY Zenon, <2>1, BeginIs, EventIs DEF handleConnectionClosed
    <3>2. DOMAIN conn_states' = DOMAIN conn_states \ {Event(w).conn}
      BY Zenon, <2>1, <3>1, RemoveType DEF handleConnectionClosed, Types
    <3> QED BY Zenon, <2>1, <3>2 DEF handleConnectionClosed
  <2> QED BY Zenon, <1>3, <2>1 DEF ChatCheck, ChatCreate, AckCheck, AckMark, handleUnsupported
<1>4. ASSUME deliveryLoop \/ Tick PROVE queue' = queue
  BY Zenon, <1>4 DEF deliveryLoop, CourierScan, CourierFetch, CourierFail, CourierTarget,
              CourierOffline, CourierPush, CourierMark, Tick
<1>5. ASSUME NEW c \in Conn, Connect(c) PROVE Added
  <2>1. /\ LoginRequest(c) \in QueuedEvent /\ LoginRequest(c).conn = c
        /\ LoginRequest(c).type = "login"
    BY Zenon, EventType DEF LoginRequest
  <2> QED BY Zenon, <1>5, <2>1 DEF Connect
<1>6. ASSUME NEW c \in Conn, ClientSend(c) PROVE Added
  <2>1. PICK e \in QueuedEvent : Enqueue(e) /\ e.conn = c /\ e.type # "ack"
    <3>1. \A to \in Receiver, cid \in ClientMsgId :
            /\ ChatRequest(c, to, cid) \in QueuedEvent
            /\ ChatRequest(c, to, cid).conn = c /\ ChatRequest(c, to, cid).type = "chat"
      BY Zenon, EventType DEF ChatRequest
    <3> QED BY Zenon, <1>6, <3>1, EventType DEF ClientSend
  <2> QED BY Zenon, <1>6, <2>1 DEF ClientSend
<1>7. ASSUME NEW c \in Conn, ClientReceive(c) PROVE queue' = queue \/ Added
  <2>1. CASE Head(inbox[c]).type = "push" /\ Enqueue(ClientAck(c, Head(inbox[c]).id))
             /\ received' = received \cup {Head(inbox[c]).id}
    <3> DEFINE e == ClientAck(c, Head(inbox[c]).id)
    <3>0. inbox[c] # <<>>
      BY Zenon, <1>7 DEF ClientReceive
    <3>1. Head(inbox[c]).id \in Nat
      BY Zenon, <2>1, <3>0, InboxIs
    <3>2. e \in QueuedEvent /\ e.conn = c /\ e.id = Head(inbox[c]).id
      BY Zenon, <3>1, EventType DEF ClientAck
    <3> QED BY Zenon, <2>1, <3>0, <3>2
  <2> QED BY Zenon, <1>7, <2>1 DEF ClientReceive
<1>8. ASSUME NEW c \in Conn, Disconnect(c) PROVE Added
  <2>1. /\ ConnectionClosed(c) \in QueuedEvent /\ ConnectionClosed(c).conn = c
        /\ ConnectionClosed(c).type = "closed"
    BY Zenon, EventType DEF ConnectionClosed
  <2>2. link[c] # "closed"
    BY Zenon, <1>8 DEF Disconnect, Connected
  <2> QED BY Zenon, <1>8, <2>1, <2>2 DEF Disconnect
<1> HIDE DEF Added, Taken
<1>9. queue' = queue \/ Taken \/ Added \/ Crash
  BY Zenon, <1>1, <1>2, <1>3, <1>4, <1>5, <1>6, <1>7, <1>8 DEF Next, WorkerStep
<1> QED BY Zenon, <1>9 DEF Added, Taken

\* An event that is queued after a step was queued before it or was added by it.
LEMMA QueueElements ==
  ASSUME Types, Next, NEW w \in Worker, NEW i \in DOMAIN queue'[w]
  PROVE  \/ \E j \in DOMAIN queue[w] : queue'[w][i] = queue[w][j]
         \/ /\ Shard[queue'[w][i].conn] = w
            /\ queue'[w][i].type = "ack" => queue'[w][i].id \in received'
<1>0. queue \in [Worker -> Seq(QueuedEvent)] /\ queue[w] \in Seq(QueuedEvent) /\ Network
  BY Zenon DEF Types, Network
<1>1. CASE queue' = queue
  BY Zenon, <1>1
<1>2. ASSUME NEW v \in Worker, NEW t, Begin(v, t)
      PROVE  \E j \in DOMAIN queue[w] : queue'[w][i] = queue[w][j]
  <2>1. queue' = [queue EXCEPT ![v] = Tail(queue[v])] /\ queue[v] # <<>>
    BY Zenon, <1>2, BeginIs
  <2>2. CASE v = w
    <3>1. queue'[w] = Tail(queue[w])
      BY Zenon, <1>0, <2>1, <2>2
    <3> QED BY <1>0, <2>1, <2>2, <3>1, TailElements
  <2>3. CASE v # w
    BY Zenon, <1>0, <2>1, <2>3
  <2> QED BY Zenon, <2>2, <2>3
<1>3. ASSUME NEW e \in QueuedEvent, Enqueue(e), e.type = "ack" => e.id \in received'
      PROVE  \/ \E j \in DOMAIN queue[w] : queue'[w][i] = queue[w][j]
             \/ /\ Shard[queue'[w][i].conn] = w
                /\ queue'[w][i].type = "ack" => queue'[w][i].id \in received'
  <2>1. queue' = [queue EXCEPT ![Shard[e.conn]] = Append(queue[Shard[e.conn]], e)]
    BY Zenon, <1>0, <1>3, EnqueueIs
  <2>2. CASE Shard[e.conn] = w
    <3>1. queue'[w] = Append(queue[w], e)
      BY Zenon, <1>0, <2>1, <2>2
    <3>2. i \in DOMAIN queue[w] \/ i = Len(queue[w]) + 1
      BY <1>0, <3>1, AppendElements
    <3> QED BY <1>0, <1>3, <2>2, <3>1, <3>2, AppendElements
  <2>3. CASE Shard[e.conn] # w
    BY Zenon, <1>0, <2>1, <2>3
  <2> QED BY Zenon, <2>2, <2>3
<1>4. CASE Crash
  BY <1>4 DEF Crash
<1> QED BY Zenon, <1>1, <1>2, <1>3, <1>4, QueueStep

LEMMA ReceivedGrows == ASSUME [Next]_vars PROVE received \subseteq received'
BY Zenon DEF vars, envVars, Next, WorkerStep, handleLogin, LoginBind, LoginResponse, LoginPending,
       LoginFetch, LoginRecent, tryDeliverMessage, DeliverTarget, DeliverOffline, DeliverPush,
       DeliverMark, ChatCheck, ChatCreate, AckCheck, AckMark, handleConnectionClosed,
       handleUnsupported, deliveryLoop, CourierScan, CourierFetch, CourierFail, CourierTarget,
       CourierOffline, CourierPush, CourierMark, Connect, ClientSend, ClientReceive,
       Disconnect, Tick, Crash

\* Every ACK on its way, in a queue or in the hands of a worker, was sent by a
\* client that had taken the message in.  Events wait at their worker.
Receipts ==
  /\ \A w \in Worker : \A i \in DOMAIN queue[w] :
       /\ Shard[queue[w][i].conn] = w
       /\ queue[w][i].type = "ack" => queue[w][i].id \in received
  /\ \A w \in Worker : job[w].at = "ack" => job[w].id \in received
  /\ AckedWasReceived

\* Only handleAck makes a worker mark a message as acknowledged, the message
\* that the event names.
LEMMA AckJobs ==
  ASSUME Types, Next, NEW x \in Worker, job'[x].at = "ack"
  PROVE  job'[x] = job[x] \/ (Begin(x, "ack") /\ job'[x].id = Event(x).id)
<1>0. job \in [Worker -> Job]
  BY Zenon DEF Types, Threads
<1>1. \A ids, r : Deliver(ids, r).at # "ack"
  BY Zenon DEF Deliver, Idle
<1>2. \A uid, ids, got : Fetching(uid, ids, got).at # "ack"
  BY Zenon, <1>1 DEF Fetching
<1>3. ASSUME NEW w \in Worker, handleLogin(w) PROVE job'[x] = job[x]
  <2>1. CASE LoginBind(w)
    BY Zenon, <1>0, <2>1 DEF LoginBind, Goto
  <2>2. CASE LoginResponse(w)
    BY Zenon, <1>0, <2>2 DEF LoginResponse, Goto
  <2>3. CASE LoginPending(w)
    <3>1. \E ids : job' = [job EXCEPT ![w] = Fetching(job[w].uid, ids, <<>>)]
      BY Zenon, <2>3 DEF LoginPending, Goto
    <3> QED BY <1>0, <1>2, <3>1
  <2>4. CASE LoginFetch(w)
    <3>1. \E got : job' = [job EXCEPT ![w] = Fetching(job[w].uid, Tail(job[w].ids), got)]
      BY Zenon, <2>4 DEF LoginFetch, Goto
    <3> QED BY <1>0, <1>2, <3>1
  <2>5. CASE LoginRecent(w)
    <3>1. job' = [job EXCEPT ![w] = Idle]
      BY Zenon, <2>5 DEF LoginRecent, Goto
    <3> QED BY Zenon, <1>0, <3>1 DEF Idle
  <2> QED BY Zenon, <1>3, <2>1, <2>2, <2>3, <2>4, <2>5 DEF handleLogin
<1>4. ASSUME NEW w \in Worker, DeliverTarget(w) PROVE job'[x] = job[x]
  BY Zenon, <1>0, <1>4 DEF DeliverTarget, Goto
<1>5. ASSUME NEW w \in Worker, DeliverOffline(w) \/ DeliverMark(w) PROVE job'[x] = job[x]
  <2>1. \E ids, r : job' = [job EXCEPT ![w] = Deliver(ids, r)]
    BY <1>5, Zenon DEF DeliverOffline, DeliverMark, NextMessage, Goto
  <2> QED BY <1>0, <1>1, <2>1
<1>6. ASSUME NEW w \in Worker, DeliverPush(w) PROVE job'[x] = job[x]
  <2>1. job[w] \in [at : {"push"}, ids : Ids, reply : Reply, target : SUBSET Conn]
    BY Zenon, <1>0, <1>6, JobAt DEF DeliverPush
  <2>2. [job[w] EXCEPT !.at = "mark"].at = "mark"
    BY Zenon, <2>1
  <2> QED BY Zenon, <1>0, <1>6, <2>2 DEF DeliverPush, Goto
<1>7. ASSUME NEW w \in Worker, ChatCreate(w) PROVE job'[x] = job[x]
  <2>1. \/ job' = [job EXCEPT ![w] = Idle]
        \/ \E ids, r : job' = [job EXCEPT ![w] = Deliver(ids, r)]
    BY <1>7, Zenon DEF ChatCreate, Goto
  <2> QED BY <1>0, <1>1, <2>1 DEF Idle
<1>8. ASSUME NEW w \in Worker,
             ChatCheck(w) \/ AckMark(w) \/ handleConnectionClosed(w) \/ handleUnsupported(w)
      PROVE  job'[x] = job[x]
  BY <1>0, <1>8 DEF ChatCheck, AckMark, handleConnectionClosed, handleUnsupported, Goto, Idle
<1>9. ASSUME NEW w \in Worker, AckCheck(w)
      PROVE  job'[x] = job[x] \/ (Begin(x, "ack") /\ job'[x].id = Event(x).id)
  BY Zenon, <1>0, <1>9 DEF AckCheck, Goto, Idle
<1>10. ASSUME deliveryLoop \/ Tick PROVE job' = job
  BY Zenon, <1>10 DEF deliveryLoop, CourierScan, CourierFetch, CourierFail, CourierTarget,
               CourierOffline, CourierPush, CourierMark, Tick
<1>11. ASSUME NEW c \in Conn, Connect(c) \/ ClientSend(c) \/ ClientReceive(c) \/ Disconnect(c)
       PROVE  job' = job
  BY Zenon, <1>11 DEF Connect, ClientSend, ClientReceive, Disconnect
<1>12. ~Crash
  BY DEF Crash, Idle
<1> QED BY Zenon, <1>3, <1>4, <1>5, <1>6, <1>7, <1>8, <1>9, <1>10, <1>11, <1>12
        DEF Next, WorkerStep, tryDeliverMessage

LEMMA ReceiptsNext ==
  ASSUME Types, Rounds, RetriesAreExact, Receipts, [Next]_vars
  PROVE  Receipts'
<1>1. CASE UNCHANGED vars
  BY Zenon, <1>1 DEF vars, storeVars, envVars, Receipts, AckedWasReceived
<1>2. CASE Next
  <2>0. received \subseteq received'
    BY Zenon, ReceivedGrows
  <2>1. ASSUME NEW w \in Worker, NEW i \in DOMAIN queue'[w]
        PROVE  /\ Shard[queue'[w][i].conn] = w
               /\ queue'[w][i].type = "ack" => queue'[w][i].id \in received'
    <3>1. CASE \E j \in DOMAIN queue[w] : queue'[w][i] = queue[w][j]
      BY <2>0, <3>1 DEF Receipts
    <3> QED BY Zenon, <1>2, <3>1, QueueElements
  <2>2. ASSUME NEW w \in Worker, job'[w].at = "ack" PROVE job'[w].id \in received'
    <3>1. CASE job'[w] = job[w]
      BY Zenon, <2>0, <2>2, <3>1 DEF Receipts
    <3>2. CASE Begin(w, "ack") /\ job'[w].id = Event(w).id
      <4>1. queue[w] \in Seq(QueuedEvent) /\ queue[w] # <<>> /\ Event(w).type = "ack"
        BY Zenon, <3>2, BeginIs DEF Types, Network
      <4>2. 1 \in DOMAIN queue[w] /\ Event(w) = queue[w][1]
        BY <4>1 DEF Event
      <4> QED BY <2>0, <3>2, <4>1, <4>2 DEF Receipts
    <3> QED BY Zenon, <1>2, <2>2, <3>1, <3>2, AckJobs
  <2>3. AckedWasReceived'
    <3>1. CASE MakesNo("Acked")
      BY Zenon, <2>0, <3>1 DEF MakesNo, Receipts, AckedWasReceived
    <3>2. ASSUME NEW w \in Worker, AckMark(w) PROVE AckedWasReceived'
      <4>1. job[w].id \in received
        BY Zenon, <3>2 DEF AckMark, Receipts
      <4>2. \A i \in DOMAIN msg' : msg'[i].status = "Acked" =>
              i = job[w].id \/ (i \in DOMAIN msg /\ msg[i].status = "Acked")
        BY Zenon, <3>2, StoreUnchanged, MarkAcked DEF AckMark, Script, Types, MakesNo
      <4> QED BY Zenon, <2>0, <4>1, <4>2 DEF Receipts, AckedWasReceived
    <3> QED BY Zenon, <1>2, <3>1, <3>2, OthersKeep, RetriesCourier DEF Next
  <2> QED BY Zenon, <2>1, <2>2, <2>3 DEF Receipts
<1> QED BY Zenon, <1>1, <1>2

-----------------------------------------------------------------------------
(* What the sender is told.                                                *)

\* The envelope e may be sent on c: if it is a positive ACK, it is true.
Honest(c, e) ==
  e.type = "ack" /\ e.ok =>
    /\ e.id \in DOMAIN msg
    /\ msg[e.id].from_uid = UserOf[c]
    /\ msg[e.id].client_msg_id = e.cid

Delivering(w) == job[w].at \in {"target", "push", "mark"} /\ job[w].reply # NoReply

\* The ACKs that workers will send once they have tried to deliver.
Replies == \A w \in Worker : Delivering(w) => Honest(job[w].reply.conn, job[w].reply.ack)

LEMMA HonestKept ==
  ASSUME KeepsNames, NEW c, NEW e, Honest(c, e) PROVE Honest(c, e)'
BY Zenon DEF KeepsNames, Honest

LEMMA NoPositiveAck ==
  ASSUME NEW c
  PROVE  /\ \A id, h : Honest(c, Push(id, h))'
         /\ Honest(c, LoginResp)'
         /\ \A cid : Honest(c, ErrorAck(cid))'
BY Zenon DEF Honest, Push, LoginResp, ErrorAck

LEMMA CreatedIsHonest ==
  ASSUME Types, NEW e \in Chat, NEW r \in {"duplicate", "created"}, createMessage(e, r),
         NEW n, n = AckedId(UserOf[e.conn], e.cid)
  PROVE  Honest(e.conn, Ack(e.cid, n))'
<1>1. n \in DOMAIN msg' /\ msg'[n].from_uid = UserOf[e.conn] /\ msg'[n].client_msg_id = e.cid
  BY Zenon, CreateIs
<1> QED BY Zenon, <1>1 DEF Honest, Ack

\* What a step of the server sends is honest, and it does not touch the links.
LEMMA InboxStep ==
  ASSUME Types, Rounds, Replies, (\E w \in Worker : WorkerStep(w)) \/ deliveryLoop
  PROVE  /\ link' = link
         /\ \/ inbox' = inbox
            \/ \E d \in Conn, es \in Seq(Envelope) :
                 inbox' = Sent(d, es) /\ \A m \in DOMAIN es : Honest(d, es[m])'
<1> DEFINE Sends == \E d \in Conn, es \in Seq(Envelope) :
                      inbox' = Sent(d, es) /\ \A m \in DOMAIN es : Honest(d, es[m])'
           Goal == link' = link /\ (inbox' = inbox \/ Sends)
<1>0. job \in [Worker -> Job] /\ KeepsNames
  BY Zenon, TypesNext DEF Types, Threads, Next
<1>1. ASSUME NEW d \in Conn, NEW e, <<e>> \in Seq(Envelope), Honest(d, e)', inbox' = Sent(d, <<e>>)
      PROVE  Sends
  <2>1. \A m \in DOMAIN <<e>> : <<e>>[m] = e
    OBVIOUS
  <2>2. \A m \in DOMAIN <<e>> : Honest(d, <<e>>[m])'
    BY Zenon, <1>1, <2>1
  <2> QED BY Zenon, <1>1, <2>2
<1>2. ASSUME NEW w \in Worker, LoginBind(w) \/ LoginPending(w) \/ LoginFetch(w) PROVE Goal
  BY Zenon, <1>2 DEF LoginBind, LoginPending, LoginFetch, netVars
<1>3. ASSUME NEW w \in Worker, LoginResponse(w) PROVE Goal
  <2>1. job[w].conn \in Conn
    BY Zenon, <1>0, <1>3, JobAt DEF LoginResponse
  <2>2. link' = link /\ inbox' = Sent(job[w].conn, <<LoginResp>>)
    BY Zenon, <1>3 DEF LoginResponse
  <2>3. PICK d \in Conn : d = job[w].conn
    BY Zenon, <2>1
  <2> HIDE DEF Sends
  <2> QED BY Zenon, <1>1, <2>2, <2>3, EnvelopeType, NoPositiveAck
<1>4. ASSUME NEW w \in Worker, LoginRecent(w) PROVE Goal
  <2>1. link' = link
    BY Zenon, <1>4 DEF LoginRecent
  <2>2. ASSUME NEW d \in Conn, NEW l \in Seq(Nat),
               inbox' = Sent(d, [i \in DOMAIN l |-> Push(l[i], TRUE)])
        PROVE  Sends
    <3> DEFINE es == [i \in DOMAIN l |-> Push(l[i], TRUE)]
    <3>1. es \in Seq(Envelope)
      BY Zenon, PushAllType
    <3>2. \A m \in DOMAIN es : Honest(d, es[m])'
      BY Zenon, NoPositiveAck
    <3>3. inbox' = Sent(d, es)
      BY Zenon, <2>2
    <3> HIDE DEF es
    <3> QED BY Zenon, <3>1, <3>2, <3>3
  <2> QED BY Zenon, <1>4, <2>1, <2>2, RecentIs
<1>5. ASSUME NEW w \in Worker, DeliverTarget(w) PROVE Goal
  BY Zenon, <1>5 DEF DeliverTarget, netVars
<1>6. ASSUME NEW w \in Worker, DeliverOffline(w) \/ DeliverMark(w) PROVE Goal
  <2>1. /\ link' = link /\ job[w].at \in {"push", "mark"}
        /\ inbox' = IF Tail(job[w].ids) = <<>> /\ job[w].reply # NoReply
                    THEN Sent(job[w].reply.conn, <<job[w].reply.ack>>) ELSE inbox
    BY Zenon, <1>6 DEF DeliverOffline, DeliverMark, NextMessage
  <2>2. CASE job[w].reply # NoReply
    <3>1. /\ Honest(job[w].reply.conn, job[w].reply.ack)
          /\ job[w].reply \in Reply
      BY Zenon, <1>0, <2>1, <2>2, JobAt DEF Replies, Delivering
    <3>2. PICK d \in Conn, e \in PositiveAck : d = job[w].reply.conn /\ e = job[w].reply.ack
      BY Zenon, <2>2, <3>1 DEF Reply
    <3>3. Honest(d, e)'
      BY Zenon, <1>0, <3>1, <3>2, HonestKept
    <3> HIDE DEF Sends
    <3> QED BY Zenon, <1>1, <2>1, <3>2, <3>3, EnvelopeType
  <2> QED BY Zenon, <2>1, <2>2
<1>7. ASSUME NEW w \in Worker, DeliverPush(w) PROVE Goal
  <2>1. job[w] \in [at : {"push"}, ids : Ids, reply : Reply, target : SUBSET Conn]
    BY Zenon, <1>0, <1>7, JobAt DEF DeliverPush
  <2>2. PICK id \in Nat : id = Head(job[w].ids)
    BY Zenon, <2>1, NonEmpty DEF Ids
  <2>3. PICK d \in Conn : link' = link /\ inbox' = Sent(d, <<Push(id, FALSE)>>)
    BY Zenon, <1>7, <2>1, <2>2 DEF DeliverPush
  <2> HIDE DEF Sends
  <2> QED BY Zenon, <1>1, <2>3, EnvelopeType, NoPositiveAck
<1>8. ASSUME NEW w \in Worker, ChatCheck(w) \/ handleUnsupported(w) PROVE Goal
  <2>1. /\ Event(w).conn \in Conn
        /\ ChatCheck(w) => Event(w).cid \in ClientMsgId
    BY Zenon, <1>8, BeginIs, EventIs DEF ChatCheck, handleUnsupported
  <2>2. PICK cid \in ClientMsgId \cup {"none"} :
          /\ link' = link
          /\ inbox' = inbox \/ inbox' = Sent(Event(w).conn, <<ErrorAck(cid)>>)
    BY Zenon, <1>8, <2>1 DEF ChatCheck, handleUnsupported
  <2>3. PICK d \in Conn : d = Event(w).conn
    BY Zenon, <2>1
  <2> HIDE DEF Sends
  <2> QED BY Zenon, <1>1, <2>2, <2>3, EnvelopeType, NoPositiveAck
<1>9. ASSUME NEW w \in Worker, ChatCreate(w) PROVE Goal
  <2>a. PICK e \in Chat : e = job[w].event
    BY Zenon, <1>9, ChatCreateIs
  <2>b. PICK n : n = AckedId(UserOf[e.conn], e.cid)
    BY Zenon
  <2>0. e = job[w].event /\ n = AckedId(UserOf[e.conn], e.cid)
    BY Zenon, <2>a, <2>b
  <2>1. /\ Ack(e.cid, n) \in PositiveAck
        /\ \/ createMessage(e, "duplicate") /\ inbox' = Sent(e.conn, <<Ack(e.cid, n)>>)
           \/ inbox' = inbox
           \/ inbox' = Sent(e.conn, <<ErrorAck(e.cid)>>)
    BY Zenon, <1>9, <2>0, ChatCreateIs
  <2>2. link' = link /\ e.conn \in Conn /\ e.cid \in ClientMsgId
    BY Zenon, <1>9 DEF ChatCreate, Chat
  <2>3. CASE createMessage(e, "duplicate") /\ inbox' = Sent(e.conn, <<Ack(e.cid, n)>>)
    <3>1. Honest(e.conn, Ack(e.cid, n))'
      BY Zenon, <2>0, <2>3, CreatedIsHonest
    <3> HIDE DEF Sends
    <3> QED BY Zenon, <1>1, <2>1, <2>2, <2>3, <3>1, EnvelopeType
  <2>4. CASE inbox' = Sent(e.conn, <<ErrorAck(e.cid)>>)
    <3> HIDE DEF Sends
    <3> QED BY Zenon, <1>1, <2>2, <2>4, EnvelopeType, NoPositiveAck
  <2> QED BY Zenon, <2>1, <2>2, <2>3, <2>4
<1>10. ASSUME NEW w \in Worker, AckCheck(w) \/ AckMark(w) \/ handleConnectionClosed(w) PROVE Goal
  BY Zenon, <1>10 DEF AckCheck, AckMark, handleConnectionClosed, netVars
<1>11. ASSUME CourierPush PROVE Goal
  <2>1. courier.target \in SUBSET Conn
    BY Zenon, <1>11, CourierAt DEF CourierPush, Types, Threads
  <2>2. PICK id \in Nat : id = Record.id
    BY Zenon, <1>11, NextRecordType DEF CourierPush
  <2>3. PICK d \in Conn : link' = link /\ inbox' = Sent(d, <<Push(id, FALSE)>>)
    BY Zenon, <1>11, <2>1, <2>2 DEF CourierPush
  <2> HIDE DEF Sends
  <2> QED BY Zenon, <1>1, <2>3, EnvelopeType, NoPositiveAck
<1>12. ASSUME deliveryLoop, ~CourierPush PROVE Goal
  BY Zenon, <1>12 DEF deliveryLoop, CourierScan, CourierFetch, CourierFail, CourierTarget,
               CourierOffline, CourierMark, netVars
<1> HIDE DEF Goal
<1>13. Goal
  BY Zenon, <1>2, <1>3, <1>4, <1>5, <1>6, <1>7, <1>8, <1>9, <1>10, <1>11, <1>12
  DEF WorkerStep, handleLogin, tryDeliverMessage
<1> QED BY Zenon, <1>13 DEF Goal

\* A worker that is to send a positive ACK goes on with the one it had, or has
\* just created the message.
LEMMA ReplyJobs ==
  ASSUME Types, Next, NEW x \in Worker, Delivering(x)'
  PROVE  \/ Delivering(x) /\ job'[x].reply = job[x].reply
         \/ Honest(job[x].reply.conn, job[x].reply.ack)'
<1> DEFINE Same == Delivering(x) /\ job'[x].reply = job[x].reply
<1>0. /\ job \in [Worker -> Job] /\ job'[x].reply # NoReply
      /\ job'[x].at \in {"target", "push", "mark"}
  BY Zenon DEF Types, Threads, Delivering
<1>1. job'[x] = job[x] => Same
  BY Zenon, <1>0 DEF Delivering
<1>2. \A ids, r : LET j == Deliver(ids, r)
                  IN  j.at \in {"target", "push", "mark"} => j.reply = r
  BY Zenon DEF Deliver, Idle
<1>3. \A uid, ids, got : LET j == Fetching(uid, ids, got)
                         IN  j.at \in {"target", "push", "mark"} => j.reply = NoReply
  BY <1>2 DEF Fetching
<1>4. ASSUME NEW w \in Worker, LoginBind(w) \/ LoginResponse(w) PROVE Same
  BY <1>0, <1>1, <1>4 DEF LoginBind, LoginResponse, Goto
<1>5. ASSUME NEW w \in Worker, LoginPending(w) PROVE Same
  <2>1. \E ids : job' = [job EXCEPT ![w] = Fetching(job[w].uid, ids, <<>>)]
    BY Zenon, <1>5 DEF LoginPending, Goto
  <2> QED BY <1>0, <1>1, <1>3, <2>1
<1>6. ASSUME NEW w \in Worker, LoginFetch(w) PROVE Same
  <2>1. \E got : job' = [job EXCEPT ![w] = Fetching(job[w].uid, Tail(job[w].ids), got)]
    BY Zenon, <1>6 DEF LoginFetch, Goto
  <2> QED BY <1>0, <1>1, <1>3, <2>1
<1>7. ASSUME NEW w \in Worker, LoginRecent(w) \/ AckMark(w) PROVE Same
  <2>1. job' = [job EXCEPT ![w] = Idle]
    BY Zenon, <1>7 DEF LoginRecent, AckMark, Goto
  <2> QED BY Zenon, <1>0, <1>1, <2>1 DEF Idle
<1>8. ASSUME NEW w \in Worker, DeliverTarget(w) PROVE Same
  <2>1. job' = [job EXCEPT ![w] = [at |-> "push", ids |-> job[w].ids, reply |-> job[w].reply,
                                   target |-> Target(Head(job[w].ids))]]
    BY Zenon, <1>8 DEF DeliverTarget, Goto
  <2>2. job[w].at = "target"
    BY Zenon, <1>8 DEF DeliverTarget
  <2> QED BY Zenon, <1>0, <1>1, <2>1, <2>2 DEF Delivering
<1>9. ASSUME NEW w \in Worker, DeliverOffline(w) \/ DeliverMark(w) PROVE Same
  <2>1. /\ job' = [job EXCEPT ![w] = Deliver(Tail(job[w].ids), job[w].reply)]
        /\ job[w].at \in {"push", "mark"}
    BY Zenon, <1>9 DEF DeliverOffline, DeliverMark, NextMessage, Goto
  <2> QED BY <1>0, <1>1, <1>2, <2>1 DEF Delivering
<1>10. ASSUME NEW w \in Worker, DeliverPush(w) PROVE Same
  <2>1. job[w] \in [at : {"push"}, ids : Ids, reply : Reply, target : SUBSET Conn]
    BY Zenon, <1>0, <1>10, JobAt DEF DeliverPush
  <2>2. [job[w] EXCEPT !.at = "mark"].reply = job[w].reply /\ job[w].at = "push"
    BY Zenon, <2>1
  <2>3. job' = [job EXCEPT ![w] = [job[w] EXCEPT !.at = "mark"]]
    BY Zenon, <1>10 DEF DeliverPush, Goto
  <2> QED BY Zenon, <1>0, <1>1, <2>2, <2>3 DEF Delivering
<1>11. ASSUME NEW w \in Worker, ChatCreate(w)
       PROVE  Same \/ Honest(job[x].reply.conn, job[x].reply.ack)'
  <2>a. PICK e \in Chat : e = job[w].event
    BY Zenon, <1>11, ChatCreateIs
  <2>b. PICK n : n = AckedId(UserOf[e.conn], e.cid)
    BY Zenon
  <2>0. e = job[w].event /\ n = AckedId(UserOf[e.conn], e.cid)
    BY Zenon, <2>a, <2>b
  <2>1. \/ job' = [job EXCEPT ![w] = Idle]
        \/ /\ createMessage(e, "created")
           /\ job' = [job EXCEPT ![w] = Deliver(<<n>>, [conn |-> e.conn, ack |-> Ack(e.cid, n)])]
    BY Zenon, <1>11, <2>0, ChatCreateIs DEF Goto
  <2>2. CASE job' = [job EXCEPT ![w] = Idle]
    BY Zenon, <1>0, <1>1, <2>2 DEF Idle
  <2>3. CASE /\ createMessage(e, "created")
             /\ job' = [job EXCEPT ![w] = Deliver(<<n>>, [conn |-> e.conn, ack |-> Ack(e.cid, n)])]
    <3>1. Honest(e.conn, Ack(e.cid, n))'
      BY Zenon, <2>0, <2>3, CreatedIsHonest
    <3>2. CASE x = w
      <4>1. job'[x].reply = [conn |-> e.conn, ack |-> Ack(e.cid, n)]
        BY <1>0, <1>2, <2>3, <3>2
      <4> QED BY <3>1, <4>1
    <3> QED BY Zenon, <1>0, <1>1, <2>3, <3>2
  <2> QED BY Zenon, <2>1, <2>2, <2>3
<1>12. ASSUME NEW w \in Worker,
              ChatCheck(w) \/ AckCheck(w) \/ handleConnectionClosed(w) \/ handleUnsupported(w)
       PROVE  Same
  BY <1>0, <1>1, <1>12
  DEF ChatCheck, AckCheck, handleConnectionClosed, handleUnsupported, Goto, Idle
<1>13. ASSUME deliveryLoop \/ Tick PROVE job' = job
  BY Zenon, <1>13 DEF deliveryLoop, CourierScan, CourierFetch, CourierFail, CourierTarget,
               CourierOffline, CourierPush, CourierMark, Tick
<1>14. ASSUME NEW c \in Conn, Connect(c) \/ ClientSend(c) \/ ClientReceive(c) \/ Disconnect(c)
       PROVE  job' = job
  BY Zenon, <1>14 DEF Connect, ClientSend, ClientReceive, Disconnect
<1>15. ~Crash
  BY <1>0 DEF Crash, Idle
<1> HIDE DEF Same
<1>16. Same \/ Honest(job[x].reply.conn, job[x].reply.ack)'
  BY Zenon, <1>1, <1>4, <1>5, <1>6, <1>7, <1>8, <1>9, <1>10, <1>11, <1>12, <1>13, <1>14, <1>15
  DEF Next, WorkerStep, handleLogin, tryDeliverMessage
<1> QED BY Zenon, <1>16 DEF Same

\* The elements of what was sent: what was there, and what is new.
LEMMA SentElements ==
  ASSUME Types, NEW d \in Conn, NEW es \in Seq(Envelope), inbox' = Sent(d, es),
         NEW c \in Conn, NEW k \in DOMAIN inbox'[c]
  PROVE  \/ k \in DOMAIN inbox[c] /\ inbox'[c][k] = inbox[c][k]
         \/ c = d /\ \E m \in DOMAIN es : inbox'[c][k] = es[m]
<1>0. inbox \in [Conn -> Seq(Envelope)] /\ inbox[d] \in Seq(Envelope)
  BY Zenon DEF Types, Network
<1>1. CASE inbox' = inbox \/ c # d
  BY Zenon, <1>0, <1>1 DEF Sent
<1>2. CASE c = d /\ inbox' = [inbox EXCEPT ![d] = inbox[d] \o es]
  <2>1. inbox'[c] = inbox[d] \o es
    BY Zenon, <1>0, <1>2
  <2>2. /\ Len(inbox[d]) \in Nat /\ Len(es) \in Nat
        /\ DOMAIN (inbox[d] \o es) = 1..(Len(inbox[d]) + Len(es))
        /\ DOMAIN inbox[d] = 1..Len(inbox[d]) /\ DOMAIN es = 1..Len(es)
        /\ \A i \in 1..(Len(inbox[d]) + Len(es)) :
             (inbox[d] \o es)[i] = IF i <= Len(inbox[d]) THEN inbox[d][i]
                                   ELSE es[i - Len(inbox[d])]
    BY <1>0
  <2>3. CASE k <= Len(inbox[d])
    BY <1>2, <2>1, <2>2, <2>3
  <2>4. CASE ~(k <= Len(inbox[d]))
    <3>1. k - Len(inbox[d]) \in DOMAIN es
      BY <2>1, <2>2, <2>4
    <3> QED BY Zenon, <1>2, <2>1, <2>2, <2>4, <3>1
  <2> QED BY Zenon, <2>3, <2>4
<1> QED BY Zenon, <1>0, <1>1, <1>2 DEF Sent

LEMMA TruthNext ==
  ASSUME Types, Rounds, Replies, SenderAckIsTrue, [Next]_vars
  PROVE  Replies' /\ SenderAckIsTrue'
<1>0. KeepsNames
  BY Zenon, TypesNext
<1>a. ASSUME NEW c \in Conn, NEW k \in DOMAIN inbox[c] PROVE Honest(c, inbox[c][k])
  BY Zenon DEF SenderAckIsTrue, Honest
<1>b. (\A c \in Conn : \A k \in DOMAIN inbox'[c] : Honest(c, inbox[c][k])') => SenderAckIsTrue'
  BY Zenon DEF SenderAckIsTrue, Honest
<1>c. ASSUME NEW c \in Conn, NEW k \in DOMAIN inbox'[c], NEW j \in DOMAIN inbox[c],
             inbox'[c][k] = inbox[c][j]
      PROVE  Honest(c, inbox[c][k])'
  <2>1. PICK e : e = inbox[c][j]
    BY Zenon
  <2>2. Honest(c, e)'
    BY Zenon, <1>0, <1>a, <2>1, HonestKept
  <2> QED BY Zenon, <1>c, <2>1, <2>2 DEF Honest
<1>1. CASE UNCHANGED vars
  BY Zenon, <1>1 DEF vars, storeVars, netVars, Replies, Delivering, Honest, SenderAckIsTrue
<1>2. CASE Next
  <2>1. Replies'
    <3> SUFFICES ASSUME NEW x \in Worker, Delivering(x)'
                 PROVE  Honest(job[x].reply.conn, job[x].reply.ack)'
      BY Zenon DEF Replies, Honest
    <3>1. CASE Delivering(x) /\ job'[x].reply = job[x].reply
      <4>1. PICK c, e : c = job[x].reply.conn /\ e = job[x].reply.ack
        BY Zenon
      <4>2. Honest(c, e)'
        BY Zenon, <1>0, <3>1, <4>1, HonestKept DEF Replies
      <4> QED BY Zenon, <3>1, <4>1, <4>2 DEF Honest
    <3> QED BY Zenon, <1>2, <3>1, ReplyJobs
  <2>2. SenderAckIsTrue'
    <3>1. CASE inbox' = inbox
      BY Zenon, <1>b, <1>c, <3>1
    <3>2. ASSUME NEW d \in Conn, NEW es \in Seq(Envelope), inbox' = Sent(d, es),
                 \A m \in DOMAIN es : Honest(d, es[m])'
          PROVE  SenderAckIsTrue'
      <4> SUFFICES ASSUME NEW c \in Conn, NEW k \in DOMAIN inbox'[c]
                   PROVE  Honest(c, inbox[c][k])'
        BY Zenon, <1>b
      <4>1. CASE c = d /\ \E m \in DOMAIN es : inbox'[c][k] = es[m]
        BY Zenon, <3>2, <4>1 DEF Honest
      <4> QED BY <1>c, <3>2, <4>1, SentElements
    <3>3. ASSUME NEW d \in Conn, ClientReceive(d) PROVE SenderAckIsTrue'
      <4> SUFFICES ASSUME NEW c \in Conn, NEW k \in DOMAIN inbox'[c]
                   PROVE  Honest(c, inbox[c][k])'
        BY Zenon, <1>b
      <4>1. /\ inbox \in [Conn -> Seq(Envelope)] /\ inbox[d] # <<>> /\ inbox[d] \in Seq(Envelope)
            /\ inbox' = [inbox EXCEPT ![d] = Tail(inbox[d])]
        BY Zenon, <3>3 DEF ClientReceive, Types, Network
      <4>2. \E j \in DOMAIN inbox[c] : inbox'[c][k] = inbox[c][j]
        <5>1. CASE c = d
          <6>1. inbox'[c] = Tail(inbox[d])
            BY Zenon, <4>1, <5>1
          <6> QED BY Zenon, <4>1, <5>1, <6>1, TailElements
        <5>2. CASE c # d
          BY Zenon, <4>1, <5>2
        <5> QED BY Zenon, <5>1, <5>2
      <4> QED BY Zenon, <1>c, <4>2
    <3>4. ASSUME NEW d \in Conn, Disconnect(d) PROVE SenderAckIsTrue'
      <4> SUFFICES ASSUME NEW c \in Conn, NEW k \in DOMAIN inbox'[c]
                   PROVE  Honest(c, inbox[c][k])'
        BY Zenon, <1>b
      <4>1. k \in DOMAIN inbox[c] /\ inbox'[c][k] = inbox[c][k]
        BY <3>4 DEF Disconnect, Types, Network
      <4> QED BY Zenon, <1>c, <4>1
    <3>5. ASSUME Tick \/ \E d \in Conn : Connect(d) \/ ClientSend(d) PROVE inbox' = inbox
      BY Zenon, <3>5 DEF Tick, Connect, ClientSend, netVars
    <3>6. CASE Crash
      BY <3>6 DEF Crash, SenderAckIsTrue
    <3>7. ASSUME (\E w \in Worker : WorkerStep(w)) \/ deliveryLoop PROVE SenderAckIsTrue'
      BY Zenon, <3>1, <3>2, <3>7, InboxStep
    <3> QED BY Zenon, <1>2, <3>1, <3>3, <3>4, <3>5, <3>6, <3>7 DEF Next
  <2> QED BY Zenon, <2>1, <2>2
<1> QED BY Zenon, <1>1, <1>2

-----------------------------------------------------------------------------
(* Closed connections.                                                     *)

\* The close event of c is queued, and no event of c comes after it.
ClosePending(c) ==
  LET q == queue[Shard[c]]
  IN  \E p \in DOMAIN q : /\ q[p] = ConnectionClosed(c)
                          /\ \A i \in DOMAIN q : i > p => q[i].conn # c

\* No event of c is queued, and the tables have forgotten it.
Forgotten(c) ==
  /\ \A i \in DOMAIN queue[Shard[c]] : queue[Shard[c]][i].conn # c
  /\ c \notin DOMAIN conn_states

Closing ==
  \A c \in Conn : /\ inbox[c] # <<>> => Connected(c)
                  /\ link[c] = "closed" => Forgotten(c) \/ ClosePending(c)

\* A client has something to read only while it is connected.
LEMMA ReadsWhileConnected ==
  ASSUME Types, Rounds, Replies, Closing, Next, NEW c \in Conn, inbox'[c] # <<>>
  PROVE  Connected(c)'
<1>0. /\ inbox \in [Conn -> Seq(Envelope)]
      /\ link \in [Conn -> {"new", "open", "ready", "closed"}]
  BY Zenon DEF Types, Network
<1>1. CASE inbox' = inbox /\ link' = link
  BY Zenon, <1>1 DEF Closing, Connected
<1>2. ASSUME NEW d \in Conn, NEW es, inbox' = Sent(d, es), link' = link
      PROVE  Connected(c)'
  <2>1. Connected(c)
    BY Zenon, <1>0, <1>2 DEF Sent, Closing
  <2> QED BY Zenon, <1>2, <2>1 DEF Connected
<1>3. ASSUME (\E w \in Worker : WorkerStep(w)) \/ deliveryLoop PROVE Connected(c)'
  BY Zenon, <1>1, <1>2, <1>3, InboxStep
<1>4. ASSUME NEW d \in Conn, Connect(d) \/ ClientSend(d) \/ Disconnect(d) PROVE Connected(c)'
  BY Zenon, <1>0, <1>4 DEF Connect, ClientSend, Disconnect, Closing, Connected, netVars
<1>5. ASSUME NEW d \in Conn, ClientReceive(d) PROVE Connected(c)'
  <2>1. inbox[d] # <<>> /\ inbox' = [inbox EXCEPT ![d] = Tail(inbox[d])]
    BY Zenon, <1>5 DEF ClientReceive
  <2>2. inbox[c] # <<>>
    BY Zenon, <1>0, <2>1
  <2>3. link' = link \/ link' = [link EXCEPT ![d] = "ready"]
    BY Zenon, <1>5 DEF ClientReceive
  <2> QED BY Zenon, <1>0, <2>2, <2>3 DEF Closing, Connected
<1>6. ~Crash
  BY Zenon DEF Crash
<1>7. CASE Tick
  BY Zenon, <1>1, <1>7 DEF Tick, netVars
<1> QED BY Zenon, <1>3, <1>4, <1>5, <1>6, <1>7 DEF Next

\* Which steps close a connection or enter one in the tables.
LEMMA LinkStep ==
  ASSUME Types, Rounds, Replies, Next, NEW c \in Conn, link'[c] = "closed"
  PROVE  link[c] = "closed" \/ Disconnect(c)
<1>0. link \in [Conn -> {"new", "open", "ready", "closed"}]
  BY Zenon DEF Types, Network
<1>1. ASSUME (\E w \in Worker : WorkerStep(w)) \/ deliveryLoop PROVE link[c] = "closed"
  BY Zenon, <1>1, InboxStep
<1>2. ASSUME NEW d \in Conn, Connect(d) \/ ClientSend(d) \/ ClientReceive(d) PROVE link[c] = "closed"
  BY Zenon, <1>0, <1>2 DEF Connect, ClientSend, ClientReceive, netVars
<1>3. ASSUME NEW d \in Conn, Disconnect(d) PROVE link[c] = "closed" \/ Disconnect(c)
  BY Zenon, <1>0, <1>3 DEF Disconnect
<1>4. CASE Tick
  BY Zenon, <1>4 DEF Tick, netVars
<1>5. ~Crash
  BY Zenon DEF Crash
<1> QED BY Zenon, <1>1, <1>2, <1>3, <1>4, <1>5 DEF Next

LEMMA TableStep ==
  ASSUME Types, Next
  PROVE  \/ DOMAIN conn_states' \subseteq DOMAIN conn_states
         \/ \E w \in Worker : /\ Begin(w, "login")
                              /\ DOMAIN conn_states' = DOMAIN conn_states \cup {Event(w).conn}
<1>0. Tables
  BY Zenon DEF Types
<1>1. ASSUME NEW w \in Worker, LoginBind(w)
      PROVE  /\ Begin(w, "login")
             /\ DOMAIN conn_states' = DOMAIN conn_states \cup {Event(w).conn}
  <2>1. Event(w).conn \in Conn
    BY Zenon, <1>1, BeginIs, EventIs DEF LoginBind
  <2>2. UserOf[Event(w).conn] \in Uid
    BY Zenon, <2>1, DispatcherAssumption
  <2> QED BY Zenon, <1>0, <1>1, <2>1, <2>2, BindType DEF LoginBind
<1>2. ASSUME NEW w \in Worker, handleConnectionClosed(w)
      PROVE  DOMAIN conn_states' \subseteq DOMAIN conn_states
  <2>1. Event(w).conn \in Conn
    BY Zenon, <1>2, BeginIs, EventIs DEF handleConnectionClosed
  <2> QED BY Zenon, <1>0, <1>2, <2>1, RemoveType DEF handleConnectionClosed
<1>3. ASSUME Crash PROVE DOMAIN conn_states' \subseteq DOMAIN conn_states
  BY Zenon, <1>3 DEF Crash, EmptyMap
<1>4. ASSUME ~Crash, \A w \in Worker : ~LoginBind(w) /\ ~handleConnectionClosed(w)
      PROVE  conn_states' = conn_states
  BY Zenon, <1>4
  DEF userVars, Next, WorkerStep, handleLogin, LoginResponse, LoginPending,
      LoginFetch, LoginRecent, tryDeliverMessage, DeliverTarget, DeliverOffline, DeliverPush,
      DeliverMark, ChatCheck, ChatCreate, AckCheck, AckMark,
      handleUnsupported, deliveryLoop, CourierScan, CourierFetch, CourierFail, CourierTarget,
      CourierOffline, CourierPush, CourierMark, Connect, ClientSend, ClientReceive,
      Disconnect, Tick
<1> QED BY Zenon, <1>1, <1>2, <1>3, <1>4

LEMMA ClosingNext ==
  ASSUME Types, Rounds, Replies, Receipts, Closing, [Next]_vars
  PROVE  Closing'
<1>1. CASE UNCHANGED vars
  BY <1>1 DEF vars, netVars, userVars, Closing, Connected, Forgotten, ClosePending
<1>2. CASE Next
  <2> SUFFICES ASSUME NEW c \in Conn, link'[c] = "closed"
               PROVE  Forgotten(c)' \/ ClosePending(c)'
    BY Zenon, <1>2, ReadsWhileConnected DEF Closing
  <2> DEFINE w == Shard[c]
             q == queue[w]
  <2>0. /\ w \in Worker /\ Network /\ queue \in [Worker -> Seq(QueuedEvent)]
        /\ q \in Seq(QueuedEvent) /\ Len(q) \in Nat /\ DOMAIN q = 1..Len(q)
    BY DispatcherAssumption DEF Types, Network
  <2>1. CASE Disconnect(c)
    <3>1. ConnectionClosed(c) \in QueuedEvent /\ ConnectionClosed(c).conn = c
      BY Zenon, EventType DEF ConnectionClosed
    <3>2. queue'[w] = Append(q, ConnectionClosed(c))
      BY <2>0, <2>1, <3>1, EnqueueIs DEF Disconnect
    <3>3. /\ DOMAIN queue'[w] = 1..(Len(q) + 1)
          /\ queue'[w][Len(q) + 1] = ConnectionClosed(c)
      BY <2>0, <3>1, <3>2, AppendElements
    <3>4. Len(q) + 1 \in DOMAIN queue'[w] /\ \A i \in DOMAIN queue'[w] : ~(i > Len(q) + 1)
      BY <2>0, <3>3
    <3> QED BY Zenon, <3>3, <3>4 DEF ClosePending
  <2>2. CASE link[c] = "closed"
    <3>1. inbox[c] = <<>> /\ (Forgotten(c) \/ ClosePending(c))
      BY Zenon, <2>2 DEF Closing, Connected
    <3>2. ASSUME Forgotten(c) PROVE c \notin DOMAIN conn_states'
      <4>1. ASSUME NEW v \in Worker, Begin(v, "login"), Event(v).conn = c PROVE FALSE
        <5>1. queue[v] \in Seq(QueuedEvent) /\ queue[v] # <<>>
          BY Zenon, <4>1, BeginIs DEF Types, Network
        <5>2. 1 \in DOMAIN queue[v] /\ queue[v][1] = Event(v)
          BY <5>1 DEF Event
        <5> QED BY <3>2, <4>1, <5>2 DEF Receipts, Forgotten
      <4> QED BY Zenon, <1>2, <3>2, <4>1, TableStep DEF Forgotten
    <3>3. CASE queue'[w] = q
      <4>1. ClosePending(c) => ClosePending(c)'
        BY Zenon, <3>3 DEF ClosePending
      <4> QED BY Zenon, <3>1, <3>2, <3>3, <4>1 DEF Forgotten
    <3>4. ASSUME NEW t, Begin(w, t), t = "closed" => Event(w).conn \notin DOMAIN conn_states'
          PROVE  Forgotten(c)' \/ ClosePending(c)'
      <4>1. /\ queue'[w] = Tail(q) /\ q # <<>> /\ Event(w).type = t
        BY Zenon, <2>0, <3>4, BeginIs
      <4>2. /\ Len(q) >= 1 /\ Len(Tail(q)) = Len(q) - 1
            /\ DOMAIN Tail(q) = 1..Len(Tail(q))
            /\ Event(w) = q[1]
            /\ \A i \in DOMAIN Tail(q) : i + 1 \in DOMAIN q /\ Tail(q)[i] = q[i + 1]
        BY Zenon, <2>0, <4>1, TailElements DEF Event
      <4>3. CASE Forgotten(c)
        BY Zenon, <3>2, <4>1, <4>2, <4>3 DEF Forgotten
      <4>4. CASE ClosePending(c)
        <5>1. PICK p \in DOMAIN q : /\ q[p] = ConnectionClosed(c)
                                    /\ \A i \in DOMAIN q : i > p => q[i].conn # c
          BY Zenon, <4>4 DEF ClosePending
        <5>2. CASE p = 1
          <6>1. Event(w).conn = c /\ t = "closed"
            BY <4>1, <4>2, <5>1, <5>2 DEF ConnectionClosed
          <6>2. \A i \in DOMAIN Tail(q) : Tail(q)[i].conn # c
            <7>1. \A i \in DOMAIN Tail(q) : i + 1 > 1
              BY <2>0, <4>2
            <7> QED BY Zenon, <4>2, <5>1, <5>2, <7>1
          <6> QED BY Zenon, <3>4, <4>1, <6>1, <6>2 DEF Forgotten
        <5>3. CASE p # 1
          <6>1. /\ p - 1 \in DOMAIN Tail(q) /\ (p - 1) + 1 = p
                /\ \A i \in DOMAIN Tail(q) : i > p - 1 => i + 1 > p
            BY <2>0, <4>2, <5>1, <5>3
          <6>2. /\ Tail(q)[p - 1] = ConnectionClosed(c)
                /\ \A i \in DOMAIN Tail(q) : i > p - 1 => Tail(q)[i].conn # c
            BY Zenon, <4>2, <5>1, <6>1
          <6> QED BY Zenon, <4>1, <6>1, <6>2 DEF ClosePending
        <5> QED BY Zenon, <5>2, <5>3
      <4> QED BY Zenon, <3>1, <4>3, <4>4
    <3>5. ASSUME NEW e \in QueuedEvent, Enqueue(e), link[e.conn] # "closed" \/ inbox[e.conn] # <<>>
          PROVE  Forgotten(c)' \/ ClosePending(c)'
      <4>1. e.conn # c
        BY Zenon, <2>2, <3>1, <3>5
      <4>2. queue' = [queue EXCEPT ![Shard[e.conn]] = Append(queue[Shard[e.conn]], e)]
        BY Zenon, <2>0, <3>5, EnqueueIs
      <4>3. CASE Shard[e.conn] # w
        BY Zenon, <2>0, <3>3, <4>2, <4>3
      <4>4. CASE Shard[e.conn] = w
        <5>1. queue'[w] = Append(q, e)
          BY Zenon, <2>0, <4>2, <4>4
        <5>2. /\ DOMAIN queue'[w] = 1..(Len(q) + 1) /\ queue'[w][Len(q) + 1] = e
              /\ \A i \in DOMAIN q : queue'[w][i] = q[i]
          BY <2>0, <5>1, AppendElements
        <5>3. \A i \in DOMAIN queue'[w] : i \in DOMAIN q \/ queue'[w][i].conn # c
          BY <2>0, <4>1, <5>2
        <5>4. \A i \in DOMAIN q : i \in DOMAIN queue'[w]
          BY <2>0, <5>2
        <5>5. CASE Forgotten(c)
          BY Zenon, <3>2, <5>2, <5>3, <5>5 DEF Forgotten
        <5>6. CASE ClosePending(c)
          BY Zenon, <5>2, <5>3, <5>4, <5>6 DEF ClosePending
        <5> QED BY Zenon, <3>1, <5>5, <5>6
      <4> QED BY Zenon, <4>3, <4>4
    <3>6. ~Crash
      BY Zenon DEF Crash
    <3>7. ASSUME NEW v \in Worker, v # w, NEW t, Begin(v, t) PROVE queue'[w] = q
      BY <2>0, <3>7, BeginIs
    <3> HIDE DEF w, q
    <3>8. CASE queue' = queue
      BY Zenon, <3>3, <3>8 DEF q
    <3> QED BY Zenon, <1>2, <3>3, <3>4, <3>5, <3>6, <3>7, <3>8, QueueStep
  <2> QED BY Zenon, <1>2, <2>1, <2>2, LinkStep
<1> QED BY Zenon, <1>1, <1>2

-----------------------------------------------------------------------------
(* Sorted sets are finite, and their entries have distinct ranks.          *)

INSTANCE FiniteSetTheorems

LEMMA SubsetIs ==
  ASSUME NEW z \in ZSet, NEW y \in SUBSET z PROVE y \in ZSet
BY Zenon, FS_Subset DEF ZSet

LEMMA WriteIs ==
  ASSUME NEW z \in ZSet, NEW s \in Nat, NEW m \in Nat
  PROVE  /\ ZRem(z, m) \in ZSet
         /\ ZAdd(z, s, m) \in ZSet
<1>1. ZRem(z, m) \in ZSet
  BY Zenon, SubsetIs DEF ZRem
<1>2. IsFiniteSet(ZAdd(z, s, m))
  <2>1. IsFiniteSet(ZRem(z, m))
    BY Zenon, <1>1 DEF ZSet
  <2> QED BY Zenon, <2>1, FS_AddElement DEF ZAdd
<1>3. ZAdd(z, s, m) \in SUBSET Entry
  BY <1>1 DEF ZSet, ZAdd, Entry
<1>4. \A d, e \in ZAdd(z, s, m) : d.member = e.member => d = e
  BY <1>1 DEF ZSet, ZAdd, ZRem
<1> QED BY Zenon, <1>1, <1>2, <1>3, <1>4 DEF ZSet

\* The entries of a sorted set are ranked 0, 1, ... without a gap.
LEMMA RankOnto ==
  ASSUME NEW z \in ZSet, NEW i \in 1..Cardinality(z)
  PROVE  \E e \in z : Rank(z, e) = i - 1
<1> DEFINE n == Cardinality(z)
           Before(e) == {d \in z : ZPrecedes(d, e)}
           f == [e \in z |-> Rank(z, e)]
<1>0. IsFiniteSet(z) /\ n \in Nat
  BY Zenon, FS_CardinalityType DEF ZSet
<1>1. ASSUME NEW e \in z
      PROVE  /\ IsFiniteSet(Before(e)) /\ Rank(z, e) \in Nat
             /\ Rank(z, e) < n
  <2>1. Before(e) \in SUBSET z /\ e \notin Before(e)
    BY DEF ZPrecedes, ZSet, Entry
  <2>2. /\ IsFiniteSet(Before(e))
        /\ Cardinality(Before(e)) <= n /\ Cardinality(Before(e)) # n
    BY Zenon, <1>0, <2>1, FS_Subset
  <2>3. Cardinality(Before(e)) \in Nat
    BY Zenon, <2>2, FS_CardinalityType
  <2> QED BY <1>0, <2>2, <2>3 DEF Rank
<1>2. ASSUME NEW d \in z, NEW e \in z, ZPrecedes(d, e)
      PROVE  Rank(z, d) < Rank(z, e)
  <2>1. Before(d) \in SUBSET Before(e) /\ d \in Before(e) /\ d \notin Before(d)
    BY <1>2 DEF ZPrecedes, ZSet, Entry
  <2>2. /\ Cardinality(Before(d)) <= Cardinality(Before(e))
        /\ Cardinality(Before(d)) # Cardinality(Before(e))
    BY Zenon, <1>1, <2>1, FS_Subset
  <2>3. Rank(z, d) \in Nat /\ Rank(z, e) \in Nat
    BY Zenon, <1>1
  <2> QED BY <2>2, <2>3 DEF Rank
<1>3. \A d, e \in z : d # e => ZPrecedes(d, e) \/ ZPrecedes(e, d)
  BY DEF ZPrecedes, ZSet, Entry
<1>4. f \in Injection(z, 0..(n - 1))
  <2>a. \A e \in z : Rank(z, e) \in Nat /\ Rank(z, e) < n
    BY Zenon, <1>1
  <2>b. \A d, e \in z : ZPrecedes(d, e) => Rank(z, d) < Rank(z, e)
    BY Zenon, <1>2
  <2>c. \A k \in Nat : k < n => k \in 0..(n - 1)
    <3> HIDE DEF n
    <3> QED BY <1>0
  <2>1. f \in [z -> 0..(n - 1)]
    <3> HIDE DEF n
    <3> QED BY Zenon, <2>a, <2>c
  <2>2. \A d, e \in z : f[d] = f[e] => d = e
    BY <2>a, <2>b, <1>3
  <2> HIDE DEF f
  <2> QED BY Zenon, <2>1, <2>2 DEF Injection, IsInjective
<1>5. IsFiniteSet(0..(n - 1)) /\ Cardinality(0..(n - 1)) = n
  <2>1. 0 \in Int /\ n - 1 \in Int
    BY <1>0
  <2> HIDE DEF n
  <2> QED BY <1>0, <2>1, FS_Interval
<1>6. f \in Surjection(z, 0..(n - 1))
  <2> HIDE DEF f
  <2> QED BY Zenon, <1>4, <1>5, FS_Injection
<1>7. i - 1 \in 0..(n - 1)
  BY <1>0
<1> QED BY Zenon, <1>6, <1>7 DEF Surjection

\* The list of a sorted set by rank names members of it, each once.
LEMMA RankListIs ==
  ASSUME NEW z \in ZSet
  PROVE  /\ ByScore(z) \in Seq(Nat)
         /\ \A i \in DOMAIN ByScore(z) : \E e \in z : ByScore(z)[i] = e.member
         /\ \A i, j \in DOMAIN ByScore(z) : ByScore(z)[i] = ByScore(z)[j] => i = j
<1> DEFINE n == Cardinality(z)
           at(i) == CHOOSE e \in z : Rank(z, e) = i - 1
<1>0. n \in Nat
  BY Zenon, FS_CardinalityType DEF ZSet
<1>1. \A i \in 1..n : at(i) \in z /\ Rank(z, at(i)) = i - 1
  BY Zenon, RankOnto
<1> HIDE DEF at
<1>2. ByScore(z) = [i \in 1..n |-> at(i).member]
  BY Zenon DEF ByScore, at
<1>3. \A i \in 1..n : at(i).member \in Nat
  BY Zenon, <1>1 DEF ZSet, Entry
<1>4. ByScore(z) \in Seq(Nat)
  BY <1>0, <1>2, <1>3
<1>5. ASSUME NEW i \in 1..n, NEW j \in 1..n, at(i).member = at(j).member PROVE i = j
  <2>1. at(i) = at(j)
    BY Zenon, <1>1, <1>5 DEF ZSet
  <2>2. i - 1 = j - 1
    BY Zenon, <1>1, <2>1
  <2> QED BY <1>0, <2>2
<1> QED BY ZenonT(60), <1>1, <1>2, <1>4, <1>5

LEMMA SortedSets == SortedSetFacts
<1>1. {} \in ZSet
  BY Zenon, FS_EmptySet DEF ZSet
<1> QED BY Zenon, <1>1, SubsetIs, WriteIs, RankListIs DEF SortedSetFacts

-----------------------------------------------------------------------------
(* What holds of every behaviour of the dispatcher.                        *)

LEMMA ReceiptsInit == Init => Receipts
BY DEF Init, Store!Init, Store!EmptyMap, Receipts, AckedWasReceived, Idle

LEMMA TruthInit == Init => Replies /\ SenderAckIsTrue
BY DEF Init, Replies, Delivering, SenderAckIsTrue, Idle

\* retry_count never exceeds kMaxDeliveryRetryCount, and a message is Failed
\* only after exactly that many retries, for any number of workers, users,
\* connections, messages, Redis failures and crashes.
THEOREM DispatcherRetriesAreExact == Spec => []RetriesAreExact
<1>1. RetryInv => RetriesAreExact
  BY Zenon DEF RetryInv
<1> QED BY <1>1, RetryInductive, SortedSets, PTL DEF Spec

\* Acked is the receiver's word, whatever is lost, repeated or taken over, for
\* any number of workers, users, connections, messages and crashes.
THEOREM DispatcherAckedWasReceived == Spec => []AckedWasReceived
<1>1. RetryInv /\ Receipts /\ [Next]_vars => Receipts'
  BY Zenon, ReceiptsNext DEF RetryInv
<1>2. Receipts => AckedWasReceived
  BY Zenon DEF Receipts
<1> QED BY ReceiptsInit, <1>1, <1>2, RetryInductive, SortedSets, PTL DEF Spec

\* A positive ACK tells the sender the truth, for first requests and repeats,
\* for any number of workers, users, connections, messages and crashes.
THEOREM DispatcherSenderAckIsTrue == Spec => []SenderAckIsTrue
<1>1. RetryInv /\ (Replies /\ SenderAckIsTrue) /\ [Next]_vars => (Replies /\ SenderAckIsTrue)'
  BY Zenon, TruthNext DEF RetryInv
<1> QED BY TruthInit, <1>1, RetryInductive, SortedSets, PTL DEF Spec

\* A closed connection is forgotten once its events are handled, for any
\* number of workers and connections and any assignment of connections to
\* workers.
THEOREM DispatcherForgetsClosed == Spec => []ClosedConnForgotten
<1> DEFINE I == Replies /\ SenderAckIsTrue /\ Receipts /\ Closing
<1>1. Init => I
  <2>1. Init => Closing
    BY Zenon DEF Init, Closing
  <2> QED BY Zenon, <2>1, ReceiptsInit, TruthInit
<1>2. RetryInv /\ I /\ [Next]_vars => I'
  BY Zenon, ReceiptsNext, TruthNext, ClosingNext DEF RetryInv
<1>3. I => ClosedConnForgotten
  <2>1. \A c \in Conn : ConnectionClosed(c).conn = c
    BY Zenon DEF ConnectionClosed
  <2> QED BY Zenon, <2>1 DEF Closing, Forgotten, ClosePending, ClosedConnForgotten
<1> QED BY <1>1, <1>2, <1>3, RetryInductive, SortedSets, PTL DEF Spec

=============================================================================
