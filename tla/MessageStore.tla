---------------------------- MODULE MessageStore ----------------------------
(***************************************************************************)
(* The message ledger that server/src/MessageStore.cpp keeps in Redis.     *)
(*                                                                         *)
(* Every write is one Lua script, which Redis runs atomically, so every    *)
(* write is one action here.  A hash, a string key or a sorted set that    *)
(* does not exist is an argument outside the DOMAIN of the function.  The  *)
(* scripts carry the caller's clock; system_clock may be adjusted, so any  *)
(* timestamp can reach any script.  The text of a message is not modelled: *)
(* no script looks at it.  acked_at_ms is written and never read, and is   *)
(* left out.                                                               *)
(***************************************************************************)
EXTENDS SortedSets, Maps

CONSTANTS
  Uid,            \* user ids; a message may be addressed to 0, "no user"
  ClientMsgId,    \* ids a sending client chooses for its messages
  Time,           \* timestamps a script can carry
  MaxMsgId,       \* bound on the number of messages ever created
  MaxRetryCount   \* bound on retry_count, which the store itself never caps

ASSUME StoreAssumption ==
  /\ Uid \subseteq Nat
  /\ Time \subseteq Nat
  /\ MaxMsgId \in Nat
  /\ MaxRetryCount \in Nat

VARIABLES
  next_id,            \* rmd:msg:next_id
  idem,               \* rmd:idem:<from_uid>:<client_msg_id>  ->  msg_id
  msg,                \* rmd:msg:<msg_id>                     ->  message hash
  pending,            \* rmd:pending:<to_uid>
  delivered_timeout,  \* rmd:delivered_timeout
  recent              \* rmd:recent:<uid>

storeVars == <<next_id, idem, msg, pending, delivered_timeout, recent>>

MessageStatus == {"Pending", "Delivered", "Acked", "Failed"}

MessageRecord ==
  [from_uid : Uid, to_uid : Uid, client_msg_id : ClientMsgId,
   status : MessageStatus, created_at_ms : Time,
   delivered_at_ms : Time \cup {0}, retry_count : Nat]

\* from_uid is decimal and contains no ':', so the text key built from the
\* pair determines the pair.
MakeIdempotencyKey(from, cid) == <<from, cid>>

\* A slip of IdempotencyHit: the script does not look for the key.
IdempotencyHit_Never(from, cid) == FALSE

\* kCreateMessageScript finds the idempotency key and its message.
IdempotencyHit(from, cid) ==
  LET key == MakeIdempotencyKey(from, cid)
  IN  key \in DOMAIN idem /\ idem[key] \in DOMAIN msg

\* A slip of NewRecord: HSET without retry_count.
NewRecord_NoRetryCount(from, to, cid, now) ==
  [from_uid |-> from, to_uid |-> to, client_msg_id |-> cid,
   status |-> "Pending", created_at_ms |-> now, delivered_at_ms |-> 0]

NewRecord(from, to, cid, now) ==
  [from_uid |-> from, to_uid |-> to, client_msg_id |-> cid,
   status |-> "Pending", created_at_ms |-> now,
   delivered_at_ms |-> 0, retry_count |-> 0]

Init ==
  /\ next_id = 0
  /\ idem = EmptyMap
  /\ msg = EmptyMap
  /\ pending = [u \in Uid |-> {}]
  /\ delivered_timeout = {}
  /\ recent = [u \in Uid |-> {}]

\* A slip of RecentOwners: only the receiver's history gets the message.
RecentOwners_Receiver(from, to) == {to}

\* The users in whose history the script enters a new message.
RecentOwners(from, to) == {from, to}

createMessage(from, to, cid, now) ==
  LET id == next_id + 1
  IN  \/ IdempotencyHit(from, cid) /\ UNCHANGED storeVars
      \/ /\ ~IdempotencyHit(from, cid)
         /\ next_id' = id
         /\ idem' = Put(idem, MakeIdempotencyKey(from, cid), id)
         /\ msg' = Put(msg, id, NewRecord(from, to, cid, now))
         /\ pending' = [pending EXCEPT ![to] = ZAdd(@, now, id)]
         /\ recent' = [u \in Uid |-> IF u \in RecentOwners(from, to)
                                     THEN ZAdd(recent[u], now, id)
                                     ELSE recent[u]]
         /\ UNCHANGED delivered_timeout

markDelivered(id, now) ==
  \/ id \notin DOMAIN msg /\ UNCHANGED storeVars
  \/ /\ id \in DOMAIN msg
     /\ msg' = [msg EXCEPT ![id].status = "Delivered",
                           ![id].delivered_at_ms = now]
     /\ pending' = [pending EXCEPT ![msg[id].to_uid] = ZRem(@, id)]
     /\ delivered_timeout' = ZAdd(delivered_timeout, now, id)
     /\ UNCHANGED <<next_id, idem, recent>>

\* A slip of markPending: a message that goes back to Pending starts over.
markPending_ResetsRetry(id) ==
  \/ id \notin DOMAIN msg /\ UNCHANGED storeVars
  \/ /\ id \in DOMAIN msg
     /\ msg' = [msg EXCEPT ![id].status = "Pending", ![id].retry_count = 0]
     /\ delivered_timeout' = ZRem(delivered_timeout, id)
     /\ pending' = [pending EXCEPT ![msg[id].to_uid] =
                                     ZAdd(@, msg[id].created_at_ms, id)]
     /\ UNCHANGED <<next_id, idem, recent>>

markPending(id) ==
  \/ id \notin DOMAIN msg /\ UNCHANGED storeVars
  \/ /\ id \in DOMAIN msg
     /\ msg' = [msg EXCEPT ![id].status = "Pending"]
     /\ delivered_timeout' = ZRem(delivered_timeout, id)
     /\ pending' = [pending EXCEPT ![msg[id].to_uid] =
                                     ZAdd(@, msg[id].created_at_ms, id)]
     /\ UNCHANGED <<next_id, idem, recent>>

\* A slip of Retire: the Pending index is not cleaned.
Retire_KeepsPending(id, status) ==
  /\ msg' = [msg EXCEPT ![id].status = status]
  /\ delivered_timeout' = ZRem(delivered_timeout, id)
  /\ UNCHANGED <<next_id, idem, pending, recent>>

\* Acked and Failed leave both redelivery indexes.
Retire(id, status) ==
  /\ msg' = [msg EXCEPT ![id].status = status]
  /\ delivered_timeout' = ZRem(delivered_timeout, id)
  /\ pending' = [pending EXCEPT ![msg[id].to_uid] = ZRem(@, id)]
  /\ UNCHANGED <<next_id, idem, recent>>

markAcked(id, ack_uid) ==
  LET match == id \in DOMAIN msg /\ msg[id].to_uid = ack_uid
  IN  \/ ~match /\ UNCHANGED storeVars
      \/ match /\ Retire(id, "Acked")

markFailed(id) ==
  \/ id \notin DOMAIN msg /\ UNCHANGED storeVars
  \/ id \in DOMAIN msg /\ Retire(id, "Failed")

incrementRetryCount(id) ==
  \/ id \notin DOMAIN msg /\ UNCHANGED storeVars
  \/ /\ id \in DOMAIN msg
     /\ msg' = [msg EXCEPT ![id].retry_count = @ + 1]
     /\ UNCHANGED <<next_id, idem, pending, delivered_timeout, recent>>

-----------------------------------------------------------------------------
(* The read operations.  Each first reads an index and then fetches the    *)
(* records one by one, so they are not atomic; these operators are the     *)
(* parts that are.                                                         *)

\* getPendingMessages keeps a fetched record only if this holds.
IsPendingFor(r, to_uid) == r.to_uid = to_uid /\ r.status = "Pending"

\* The index part of getTimeoutDeliveredMessages.
TimeoutCandidates(now, timeout) ==
  LET max_score == IF now >= timeout THEN now - timeout ELSE 0
  IN  {e \in delivered_timeout : e.score <= max_score}

\* getTimeoutDeliveredMessages keeps a fetched record only if this holds.
IsTimedOut(r, now, timeout) ==
  /\ r.status = "Delivered"
  /\ r.delivered_at_ms > 0
  /\ now >= r.delivered_at_ms
  /\ now - r.delivered_at_ms >= timeout

-----------------------------------------------------------------------------
\* The server calls the store from eight workers and the delivery thread, in
\* any order and with any id that a client sends.
Next ==
  \/ \E from, to \in Uid, cid \in ClientMsgId, now \in Time :
       next_id < MaxMsgId /\ createMessage(from, to, cid, now)
  \/ \E id \in 0..MaxMsgId :
       \/ \E now \in Time : markDelivered(id, now)
       \/ markPending(id)
       \/ \E ack_uid \in Uid : markAcked(id, ack_uid)
       \/ markFailed(id)
       \/ /\ id \in DOMAIN msg => msg[id].retry_count < MaxRetryCount
          /\ incrementRetryCount(id)

Spec == Init /\ [][Next]_storeVars

-----------------------------------------------------------------------------
TypeOK ==
  /\ next_id \in 0..MaxMsgId
  /\ DOMAIN msg = 1..next_id
  /\ \A i \in DOMAIN msg : msg[i] \in MessageRecord
  /\ DOMAIN idem \subseteq Uid \X ClientMsgId
  /\ \A k \in DOMAIN idem : idem[k] \in 1..next_id
  /\ pending \in [Uid -> SUBSET [score : Nat, member : 1..next_id]]
  /\ delivered_timeout \in SUBSET [score : Nat, member : 1..next_id]
  /\ recent \in [Uid -> SUBSET [score : Nat, member : 1..next_id]]

PendingEntries(u) ==
  {[score |-> msg[i].created_at_ms, member |-> i] :
     i \in {j \in DOMAIN msg : msg[j].to_uid = u /\ msg[j].status = "Pending"}}

DeliveredEntries ==
  {[score |-> msg[i].delivered_at_ms, member |-> i] :
     i \in {j \in DOMAIN msg : msg[j].status = "Delivered"}}

RecentEntries(u) ==
  {[score |-> msg[i].created_at_ms, member |-> i] :
     i \in {j \in DOMAIN msg : u \in {msg[j].from_uid, msg[j].to_uid}}}

\* The two redelivery indexes say exactly what the hashes say, whatever
\* scripts ran in whatever order: a receiver's Pending index holds its Pending
\* messages, scored by creation time (the order of offline delivery), and the
\* timeout index holds the Delivered ones, scored by delivery time.  A message
\* in no index would never be sent again, a message in both would be sent by
\* the login path and by the delivery thread at once.
IndexMatchesStatus ==
  /\ \A u \in Uid : pending[u] = PendingEntries(u)
  /\ delivered_timeout = DeliveredEntries

\* A client may repeat createMessage with the same client_msg_id any number of
\* times, from any worker: one message exists for the pair (from_uid,
\* client_msg_id), and the idempotency key leads to that message.
IdempotentCreate ==
  /\ \A i \in DOMAIN msg :
       LET key == MakeIdempotencyKey(msg[i].from_uid, msg[i].client_msg_id)
       IN  key \in DOMAIN idem /\ idem[key] = i
  /\ \A k \in DOMAIN idem :
       MakeIdempotencyKey(msg[idem[k]].from_uid, msg[idem[k]].client_msg_id) = k

\* Both parties of every message find it in their history, and a user's
\* history holds nothing else, whatever became of the message.
RecentIsComplete == \A u \in Uid : recent[u] = RecentEntries(u)

\* A stored message is never dropped, renumbered, readdressed or reused, and
\* its retry counter never goes back (markPending does not reset it).
LedgerOnlyGrows ==
  [][\A i \in DOMAIN msg :
       /\ i \in DOMAIN msg'
       /\ \A f \in {"from_uid", "to_uid", "client_msg_id", "created_at_ms"} :
            msg'[i][f] = msg[i][f]
       /\ msg'[i].retry_count >= msg[i].retry_count]_storeVars

=============================================================================
