------------------------ MODULE ServerEventDispatcher -----------------------
(***************************************************************************)
(* server/src/ServerEventDispatcher.cpp over its MessageStore and its      *)
(* UserStateService: the worker threads that handle the events of client   *)
(* connections, and the delivery thread that redelivers what was not       *)
(* acknowledged.  A handler is a sequence of steps, one for each access to *)
(* state it shares with other threads (the user tables, Redis, a           *)
(* connection).  The clients, TCP, the clock, the loss of Redis replies    *)
(* and the crash of the server are the environment.                        *)
(***************************************************************************)
EXTENDS Integers, FiniteSets, Sequences, SortedSets, Maps

CONSTANTS
  Worker, Conn, Uid,
  Shard,          \* connection -> the worker that handles its events
  UserOf,         \* connection -> the user who logs in on it
  Sender,         \* connections on which clients send requests
  Receiver,       \* users to whom chat requests are addressed
  ClientMsgId,
  kAckTimeoutMs, kMaxDeliveryRetryCount, kLoginRecentMessageLimit,
  MaxClock,       \* upper bound of the clock (never reached by Tick)
  MaxRequests,    \* bound on requests that clients send after logging in
  MaxFaults,      \* bound on failed Redis commands and crashes of the server
  Leaving         \* connections that may be closed other than by a crash

ASSUME DispatcherAssumption ==
  /\ Shard \in [Conn -> Worker]
  /\ UserOf \in [Conn -> Uid]
  /\ kAckTimeoutMs \in Nat \ {0}
  /\ {kMaxDeliveryRetryCount, kLoginRecentMessageLimit} \subseteq Nat
  /\ Leaving \subseteq Conn /\ Sender \subseteq Conn
  /\ {MaxClock, MaxRequests, MaxFaults} \subseteq Nat

VARIABLES
  next_id, idem, msg, pending, delivered_timeout, recent,   \* MessageStore
  conn_states, uid_to_conn,                                 \* UserStateService
  link,       \* connection -> "new", "open", "ready" (client logged in), "closed"
  inbox,      \* connection -> what was sent on it and the client has not read
  queue,      \* worker -> events of the pool's queue
  job,        \* worker -> the handler it is running
  courier,    \* the delivery thread
  clock, requests, faults,
  received    \* messages that their receiver's client has taken in (history)

Store == INSTANCE MessageStore WITH
           Uid <- Uid \cup Receiver, Time <- 1..MaxClock,
           MaxMsgId <- MaxRequests, MaxRetryCount <- kMaxDeliveryRetryCount
Users == INSTANCE UserStateService

storeVars == <<next_id, idem, msg, pending, delivered_timeout, recent>>
userVars == <<conn_states, uid_to_conn>>
netVars == <<link, inbox>>
envVars == <<clock, requests, received>>
vars == <<storeVars, userVars, netVars, queue, job, courier, envVars, faults>>

Idle == [at |-> "idle"]

Init ==
  /\ Store!Init
  /\ Users!Init
  /\ link = [c \in Conn |-> "new"]
  /\ inbox = [c \in Conn |-> <<>>]
  /\ queue = [w \in Worker |-> <<>>]
  /\ job = [w \in Worker |-> Idle]
  /\ courier = Idle
  /\ clock = 1 /\ requests = 0 /\ faults = 0
  /\ received = {}

-----------------------------------------------------------------------------
Connected(c) == link[c] \in {"open", "ready"}

\* sendEnvelope: what is sent on a closed connection is lost.
Sent(c, es) == IF Connected(c) THEN [inbox EXCEPT ![c] = @ \o es] ELSE inbox

LoginResp == [type |-> "login_resp"]
Push(id, history) == [type |-> "push", id |-> id, history |-> history]
Ack(cid, id) == [type |-> "ack", ok |-> TRUE, cid |-> cid, id |-> id]

\* A slip of ErrorAck: the ok flag is wrong.
ErrorAck_Ok(cid) == [type |-> "ack", ok |-> TRUE, cid |-> cid, id |-> 0]

ErrorAck(cid) == [type |-> "ack", ok |-> FALSE, cid |-> cid, id |-> 0]

\* What the server receives on a connection (ServerEvent).
LoginRequest(c) == [type |-> "login", conn |-> c]
ChatRequest(c, to, cid) == [type |-> "chat", conn |-> c, to |-> to, cid |-> cid]
ClientAck(c, id) == [type |-> "ack", conn |-> c, id |-> id]
ConnectionClosed(c) == [type |-> "closed", conn |-> c]

\* enqueueEnvelope and enqueueConnectionClosed submit with the connection as
\* key, so its events are queued in order at one worker.
ShardOf(e) == Shard[e.conn]

Enqueue(e) == queue' = [queue EXCEPT ![ShardOf(e)] = Append(@, e)]

\* handle: an idle worker takes the next event.
Begin(w, type) ==
  /\ job[w] = Idle
  /\ queue[w] # <<>>
  /\ Head(queue[w]).type = type
  /\ queue' = [queue EXCEPT ![w] = Tail(@)]

Event(w) == Head(queue[w])
Goto(w, j) == job' = [job EXCEPT ![w] = j]

\* A Redis command fails.
RedisFault == faults < MaxFaults /\ faults' = faults + 1

\* A script whose result the caller ignores.
Script(A) ==
  \/ A /\ UNCHANGED faults
  \/ RedisFault /\ UNCHANGED storeVars

\* FetchRecord: the record as it is now (record = <<it>>), or nothing.
FetchRecord(id, record) ==
  \/ record = <<msg[id]>> /\ UNCHANGED faults
  \/ record = <<>> /\ RedisFault

\* ZRANGE and ZRANGEBYSCORE list the members by rank.
Rank(z, e) == Cardinality({d \in z : ZPrecedes(d, e)})
ByScore(z) == [i \in 1..Cardinality(z) |-> (CHOOSE e \in z : Rank(z, e) = i - 1).member]

-----------------------------------------------------------------------------
(* tryDeliverMessage, for each message of job.ids in turn; a job that      *)
(* handles a chat request ends with the ACK to the sender.                 *)

NoReply == [conn |-> "none"]

Deliver(ids, reply) ==
  IF ids = <<>> THEN Idle ELSE [at |-> "target", ids |-> ids, reply |-> reply]

Target(id) == Users!getConnByUid(msg[id].to_uid)

DeliverTarget(w) ==
  /\ job[w].at = "target"
  /\ Goto(w, [at |-> "push", ids |-> job[w].ids, reply |-> job[w].reply,
              target |-> Target(Head(job[w].ids))])
  /\ UNCHANGED <<storeVars, userVars, netVars, queue, courier, envVars, faults>>

\* The job goes on to its next message, or ends.
NextMessage(w) ==
  LET rest  == Tail(job[w].ids)
      reply == job[w].reply
  IN  /\ Goto(w, Deliver(rest, reply))
      /\ inbox' = IF rest = <<>> /\ reply # NoReply
                  THEN Sent(reply.conn, <<reply.ack>>) ELSE inbox

DeliverOffline(w) ==
  /\ job[w].at = "push"
  /\ \A c \in job[w].target : ~Connected(c)
  /\ Script(Store!markPending(Head(job[w].ids)))
  /\ NextMessage(w)
  /\ UNCHANGED <<userVars, link, queue, courier, envVars>>

DeliverPush(w) ==
  /\ job[w].at = "push"
  /\ \E c \in job[w].target :
       Connected(c) /\ inbox' = Sent(c, <<Push(Head(job[w].ids), FALSE)>>)
  /\ Goto(w, [job[w] EXCEPT !.at = "mark"])
  /\ UNCHANGED <<storeVars, userVars, link, queue, courier, envVars, faults>>

\* A slip of DeliverMark: what was pushed counts as acknowledged.
DeliverMark_Acks(w) ==
  /\ job[w].at = "mark"
  /\ Script(Store!Retire(Head(job[w].ids), "Acked"))
  /\ NextMessage(w)
  /\ UNCHANGED <<userVars, link, queue, courier, envVars>>

DeliverMark(w) ==
  /\ job[w].at = "mark"
  /\ Script(Store!markDelivered(Head(job[w].ids), clock))
  /\ NextMessage(w)
  /\ UNCHANGED <<userVars, link, queue, courier, envVars>>

tryDeliverMessage(w) ==
  DeliverTarget(w) \/ DeliverOffline(w) \/ DeliverPush(w) \/ DeliverMark(w)

-----------------------------------------------------------------------------
(* handleLogin *)

LoginBind(w) ==
  /\ Begin(w, "login")
  /\ Users!bindUser(Event(w).conn, UserOf[Event(w).conn])
  /\ Goto(w, [at |-> "login_resp", conn |-> Event(w).conn])
  /\ UNCHANGED <<storeVars, netVars, courier, envVars, faults>>

LoginResponse(w) ==
  /\ job[w].at = "login_resp"
  /\ inbox' = Sent(job[w].conn, <<LoginResp>>)
  /\ Goto(w, [at |-> "login_pending", uid |-> UserOf[job[w].conn]])
  /\ UNCHANGED <<storeVars, userVars, link, queue, courier, envVars, faults>>

\* A slip of Fetching: the messages found are not delivered.
Fetching_Discards(uid, ids, got) ==
  IF ids # <<>> THEN [at |-> "login_fetch", uid |-> uid, ids |-> ids, got |-> got]
  ELSE [at |-> "login_recent", uid |-> uid]

\* getPendingMessages reads the index and then fetches record by record;
\* deliverPendingMessages follows, or sendRecentMessages if there was nothing.
Fetching(uid, ids, got) ==
  IF ids # <<>> THEN [at |-> "login_fetch", uid |-> uid, ids |-> ids, got |-> got]
  ELSE IF got # <<>> THEN Deliver(got, NoReply)
  ELSE [at |-> "login_recent", uid |-> uid]

LoginPending(w) ==
  LET uid == job[w].uid
  IN  /\ job[w].at = "login_pending"
      /\ \/ Goto(w, Fetching(uid, ByScore(pending[uid]), <<>>)) /\ UNCHANGED faults
         \/ Goto(w, Fetching(uid, <<>>, <<>>)) /\ RedisFault
      /\ UNCHANGED <<storeVars, userVars, netVars, queue, courier, envVars>>

LoginFetch(w) ==
  LET uid  == job[w].uid
      id   == Head(job[w].ids)
      rest == Tail(job[w].ids)
      got  == job[w].got
  IN  /\ job[w].at = "login_fetch"
      /\ \E r \in {<<>>, <<msg[id]>>} :
           /\ FetchRecord(id, r)
           /\ Goto(w, Fetching(uid, rest, IF r # <<>> /\ Store!IsPendingFor(Head(r), uid)
                                          THEN Append(got, id) ELSE got))
      /\ UNCHANGED <<storeVars, userVars, netVars, queue, courier, envVars>>

\* getRecentMessages: the newest messages of the user, oldest first.
Latest(uid) ==
  LET ids   == ByScore(recent[uid])
      first == Len(ids) - kLoginRecentMessageLimit + 1
  IN  SubSeq(ids, IF first > 1 THEN first ELSE 1, Len(ids))

\* sendRecentMessages; the fields it uses of a record never change.  A Redis
\* failure costs the whole list or one record.
LoginRecent(w) ==
  LET uid     == job[w].uid
      latest  == Latest(uid)
      Lost(k) == SubSeq(latest, 1, k - 1) \o SubSeq(latest, k + 1, Len(latest))
      Send(l) == inbox' = IF \E c \in Users!getConnByUid(uid) : Connected(c)
                          THEN Sent(uid_to_conn[uid], [i \in DOMAIN l |-> Push(l[i], TRUE)])
                          ELSE inbox
  IN  /\ job[w].at = "login_recent"
      /\ \/ Send(latest) /\ UNCHANGED faults
         \/ /\ \E l \in {<<>>} \cup {Lost(k) : k \in DOMAIN latest} : Send(l)
            /\ RedisFault
      /\ Goto(w, Idle)
      /\ UNCHANGED <<storeVars, userVars, link, queue, courier, envVars>>

handleLogin(w) ==
  LoginBind(w) \/ LoginResponse(w) \/ LoginPending(w) \/ LoginFetch(w) \/ LoginRecent(w)

-----------------------------------------------------------------------------
(* handleChat, handleAck, handleConnectionClosed, and requests of an       *)
(* unsupported type or without the payload their type calls for.           *)

\* The sender must be logged in on this connection as the from_uid it states.
ChatCheck(w) ==
  LET e == Event(w)
  IN  /\ Begin(w, "chat")
      /\ \/ /\ Users!getUidByConn(e.conn) # UserOf[e.conn]
            /\ inbox' = Sent(e.conn, <<ErrorAck(e.cid)>>)
            /\ UNCHANGED job
         \/ /\ Users!getUidByConn(e.conn) = UserOf[e.conn]
            /\ Goto(w, [at |-> "create", event |-> e])
            /\ UNCHANGED inbox
      /\ UNCHANGED <<storeVars, userVars, link, courier, envVars, faults>>

\* createMessage: a new message, the one that an earlier request created, or a
\* failure of Redis, which ran the script or did not.
createMessage(e, result) ==
  LET run == Store!createMessage(UserOf[e.conn], e.to, e.cid, clock)
      hit == Store!IdempotencyHit(UserOf[e.conn], e.cid)
  IN  \/ run /\ UNCHANGED faults /\ result = IF hit THEN "duplicate" ELSE "created"
      \/ RedisFault /\ (run \/ UNCHANGED storeVars) /\ result = "failed"

ChatCreate(w) ==
  LET e    == job[w].event
      from == UserOf[e.conn]
      id   == IF Store!IdempotencyHit(from, e.cid)
              THEN idem[Store!MakeIdempotencyKey(from, e.cid)] ELSE next_id + 1
      ack  == Ack(e.cid, id)
  IN  /\ job[w].at = "create"
      /\ \/ /\ createMessage(e, "duplicate")
            /\ Goto(w, Idle) /\ inbox' = Sent(e.conn, <<ack>>)
         \/ /\ createMessage(e, "created")
            /\ Goto(w, Deliver(<<id>>, [conn |-> e.conn, ack |-> ack])) /\ UNCHANGED inbox
         \/ /\ createMessage(e, "failed")
            /\ Goto(w, Idle) /\ inbox' = Sent(e.conn, <<ErrorAck(e.cid)>>)
      /\ UNCHANGED <<userVars, link, queue, courier, envVars>>

\* An ACK without a message number, or of an anonymous connection, is dropped.
AckCheck(w) ==
  LET id  == Event(w).id
      uid == Users!getUidByConn(Event(w).conn)
  IN  /\ Begin(w, "ack")
      /\ Goto(w, IF id = 0 \/ uid = 0 THEN Idle ELSE [at |-> "ack", id |-> id, uid |-> uid])
      /\ UNCHANGED <<storeVars, userVars, netVars, courier, envVars, faults>>

AckMark(w) ==
  /\ job[w].at = "ack"
  /\ Script(Store!markAcked(job[w].id, job[w].uid))
  /\ Goto(w, Idle)
  /\ UNCHANGED <<userVars, netVars, queue, courier, envVars>>

\* A slip of handleConnectionClosed: a connection that its user has left for
\* another one is not removed.
handleConnectionClosed_IfCurrent(w) ==
  LET c == Event(w).conn
  IN  /\ Begin(w, "closed")
      /\ \/ c \in Users!getConnByUid(UserOf[c]) /\ Users!removeConnection(c)
         \/ c \notin Users!getConnByUid(UserOf[c]) /\ UNCHANGED userVars
      /\ UNCHANGED <<storeVars, netVars, job, courier, envVars, faults>>

handleConnectionClosed(w) ==
  /\ Begin(w, "closed")
  /\ Users!removeConnection(Event(w).conn)
  /\ UNCHANGED <<storeVars, netVars, job, courier, envVars, faults>>

handleUnsupported(w) ==
  /\ Begin(w, "other")
  /\ inbox' = Sent(Event(w).conn, <<ErrorAck("none")>>)
  /\ UNCHANGED <<storeVars, userVars, link, job, courier, envVars, faults>>

WorkerStep(w) ==
  \/ handleLogin(w) \/ tryDeliverMessage(w)
  \/ ChatCheck(w) \/ ChatCreate(w) \/ AckCheck(w) \/ AckMark(w)
  \/ handleConnectionClosed(w) \/ handleUnsupported(w)

-----------------------------------------------------------------------------
(* deliveryLoop, with getTimeoutDeliveredMessages and retryDeliverMessage. *)

\* The rest of a round: records still to fetch, records to handle.
Round(now, ids, got) ==
  IF ids # <<>> THEN [at |-> "fetch", now |-> now, ids |-> ids, got |-> got]
  ELSE IF got # <<>> THEN [at |-> "each", got |-> got]
  ELSE Idle

\* A scan that finds nothing changes nothing.
CourierScan ==
  /\ courier = Idle
  /\ courier' = Round(clock, ByScore(Store!TimeoutCandidates(clock, kAckTimeoutMs)), <<>>)
  /\ UNCHANGED <<storeVars, userVars, netVars, queue, job, envVars, faults>>

CourierFetch ==
  LET now  == courier.now
      id   == Head(courier.ids)
      rest == Tail(courier.ids)
      taken(r) == IF r # <<>> /\ Store!IsTimedOut(Head(r), now, kAckTimeoutMs)
                  THEN <<[id |-> id, retry_count |-> Head(r).retry_count]>> ELSE <<>>
  IN  /\ courier.at = "fetch"
      /\ \E r \in {<<>>, <<msg[id]>>} :
           FetchRecord(id, r) /\ courier' = Round(now, rest, courier.got \o taken(r))
      /\ UNCHANGED <<storeVars, userVars, netVars, queue, job, envVars>>

Record == Head(courier.got)
NextRecord == courier' = Round(0, <<>>, Tail(courier.got))

\* A slip of Exhausted: one retry less than allowed.
Exhausted_Early(r) == r.retry_count + 1 >= kMaxDeliveryRetryCount

Exhausted(r) == r.retry_count >= kMaxDeliveryRetryCount

\* A slip of CourierFail: an exhausted message is passed over.
CourierFail_Skips ==
  /\ courier.at = "each" /\ Exhausted(Record)
  /\ NextRecord
  /\ UNCHANGED <<storeVars, userVars, netVars, queue, job, envVars, faults>>

CourierFail ==
  /\ courier.at = "each" /\ Exhausted(Record)
  /\ Script(Store!markFailed(Record.id))
  /\ NextRecord
  /\ UNCHANGED <<userVars, netVars, queue, job, envVars>>

CourierTarget ==
  /\ courier.at = "each" /\ ~Exhausted(Record)
  /\ courier' = [at |-> "push", got |-> courier.got, target |-> Target(Record.id)]
  /\ UNCHANGED <<storeVars, userVars, netVars, queue, job, envVars, faults>>

CourierOffline ==
  /\ courier.at = "push"
  /\ \A c \in courier.target : ~Connected(c)
  /\ Script(Store!markPending(Record.id))
  /\ NextRecord
  /\ UNCHANGED <<userVars, netVars, queue, job, envVars>>

\* Only this thread uses retry_count, so counting and sending are one step.
CourierPush ==
  /\ courier.at = "push"
  /\ \E c \in courier.target : Connected(c) /\ inbox' = Sent(c, <<Push(Record.id, FALSE)>>)
  /\ Script(Store!incrementRetryCount(Record.id))
  /\ courier' = [at |-> "mark", got |-> courier.got]
  /\ UNCHANGED <<userVars, link, queue, job, envVars>>

CourierMark ==
  /\ courier.at = "mark"
  /\ Script(Store!markDelivered(Record.id, clock))
  /\ NextRecord
  /\ UNCHANGED <<userVars, netVars, queue, job, envVars>>

deliveryLoop ==
  \/ CourierScan \/ CourierFetch \/ CourierFail \/ CourierTarget
  \/ CourierOffline \/ CourierPush \/ CourierMark

-----------------------------------------------------------------------------
(* The environment.  The clients follow client/src/Client.cpp: LOGIN_REQ   *)
(* on connecting, requests once LOGIN_RESP is there, an ACK for every push *)
(* that is not history; a push that comes before LOGIN_RESP is dropped.    *)

Connect(c) ==
  /\ link[c] = "new"
  /\ link' = [link EXCEPT ![c] = "open"]
  /\ Enqueue(LoginRequest(c))
  /\ UNCHANGED <<storeVars, userVars, inbox, job, courier, envVars, faults>>

\* A chat request, new or repeated, or a request the server does not support.
ClientSend(c) ==
  /\ c \in Sender /\ link[c] = "ready"
  /\ requests < MaxRequests
  /\ requests' = requests + 1
  /\ \/ \E to \in Receiver, cid \in ClientMsgId :
          Enqueue(ChatRequest(c, to, cid))
     \/ Enqueue([type |-> "other", conn |-> c])
  /\ UNCHANGED <<storeVars, userVars, netVars, job, courier, clock, received, faults>>

ClientReceive(c) ==
  LET e     == Head(inbox[c])
      taken == e.type = "push" /\ link[c] = "ready" /\ ~e.history
  IN  /\ inbox[c] # <<>>
      /\ inbox' = [inbox EXCEPT ![c] = Tail(@)]
      /\ link' = IF e = LoginResp THEN [link EXCEPT ![c] = "ready"] ELSE link
      /\ \/ /\ taken
            /\ received' = received \cup {e.id}
            /\ Enqueue(ClientAck(c, e.id))
         \/ ~taken /\ UNCHANGED <<received, queue>>
      /\ UNCHANGED <<storeVars, userVars, job, courier, clock, requests, faults>>

\* Either side closes the connection; what the client has not read is lost.
Disconnect(c) ==
  /\ c \in Leaving /\ Connected(c)
  /\ link' = [link EXCEPT ![c] = "closed"]
  /\ inbox' = [inbox EXCEPT ![c] = <<>>]
  /\ Enqueue(ConnectionClosed(c))
  /\ UNCHANGED <<storeVars, userVars, job, courier, envVars, faults>>

\* Time matters while a Delivered message waits for its timeout.
Tick ==
  /\ \E e \in delivered_timeout : clock - e.score < kAckTimeoutMs
  /\ clock' = clock + 1
  /\ UNCHANGED <<storeVars, userVars, netVars, queue, job, courier,
                 requests, received, faults>>

\* The server stops at any point and starts again; Redis keeps its data.  The
\* clients connect anew (no handle of an old connection is left).
Crash ==
  /\ faults < MaxFaults /\ faults' = faults + 1
  /\ conn_states' = EmptyMap /\ uid_to_conn' = EmptyMap
  /\ link' = [c \in Conn |-> "new"]
  /\ inbox' = [c \in Conn |-> <<>>]
  /\ queue' = [w \in Worker |-> <<>>]
  /\ job' = [w \in Worker |-> Idle]
  /\ courier' = Idle
  /\ UNCHANGED <<storeVars, clock, requests, received>>

Next ==
  \/ \E w \in Worker : WorkerStep(w)
  \/ deliveryLoop
  \/ \E c \in Conn : Connect(c) \/ ClientSend(c) \/ ClientReceive(c) \/ Disconnect(c)
  \/ Tick
  \/ Crash

Spec == Init /\ [][Next]_vars

\* The threads of the server keep running, time goes on and clients read what
\* they are sent.  Nobody has to connect, send or leave.
Fairness ==
  /\ \A w \in Worker : WF_vars(WorkerStep(w))
  /\ WF_vars(deliveryLoop)
  /\ WF_vars(Tick)
  /\ \A c \in Conn : WF_vars(ClientReceive(c))

FairSpec == Spec /\ Fairness

-----------------------------------------------------------------------------
TypeOK ==
  /\ Store!TypeOK
  /\ Users!TypeOK
  /\ link \in [Conn -> {"new", "open", "ready", "closed"}]
  /\ \A w \in Worker : job[w].at \in
       {"idle", "login_resp", "login_pending", "login_fetch", "login_recent",
        "target", "push", "mark", "create", "ack"}
  /\ \A w \in Worker : \A i \in DOMAIN queue[w] : Shard[queue[w][i].conn] = w
  /\ courier.at \in {"idle", "fetch", "each", "push", "mark"}
  /\ clock \in 1..MaxClock
  /\ received \subseteq DOMAIN msg

\* retry_count never exceeds kMaxDeliveryRetryCount, and the server gives a
\* message up only after that many retries, although the delivery thread
\* decides on a record it fetched earlier in the round and markPending and
\* markDelivered of other threads keep the counter.
RetriesAreExact ==
  \A i \in DOMAIN msg :
    /\ msg[i].retry_count <= kMaxDeliveryRetryCount
    /\ msg[i].status = "Failed" => msg[i].retry_count = kMaxDeliveryRetryCount

\* Acked is the receiver's word: whatever is lost, repeated or taken over, a
\* message is Acked only if the client of its receiver took it in.
AckedWasReceived ==
  \A i \in DOMAIN msg : msg[i].status = "Acked" => i \in received

\* A positive ACK tells the sender the truth: it names a stored message that
\* this user sent with this client_msg_id, for first requests and repeats.
SenderAckIsTrue ==
  \A c \in Conn : \A k \in DOMAIN inbox[c] :
    LET e == inbox[c][k]
    IN  e.type = "ack" /\ e.ok =>
          /\ e.id \in DOMAIN msg
          /\ msg[e.id].from_uid = UserOf[c]
          /\ msg[e.id].client_msg_id = e.cid

\* A closed connection is forgotten once its events are handled: no login of
\* it is handled after its disconnect.  Otherwise the user would stay online
\* for ever on a dead connection.
ClosedConnForgotten ==
  \A c \in Conn :
    /\ link[c] = "closed"
    /\ \A i \in DOMAIN queue[Shard[c]] : queue[Shard[c]][i].conn # c
    => c \notin DOMAIN conn_states

\* There is one message for each sender and client_msg_id (IdempotentCreate).
MsgIds == 1..Cardinality(Sender \X ClientMsgId)

HasStatus(i, st) == i \in DOMAIN msg /\ msg[i].status = st

Online(u) == \E c \in Users!getConnByUid(u) : Connected(c)

\* Delivered is transient: a message that was pushed ends up Acked, Failed or
\* back in the Pending index, whatever threads, clients and crashes do.
DeliveredIsResolved ==
  \A i \in MsgIds : HasStatus(i, "Delivered") ~> ~HasStatus(i, "Delivered")

\* "Messages sent to an offline user are delivered after that user logs in":
\* a message that is Pending when a login reads the index leaves Pending,
\* unless the user goes offline again.
LoginDrainsPending ==
  \A i \in MsgIds, w \in Worker :
    job[w].at = "login_pending" /\ HasStatus(i, "Pending") /\ msg[i].to_uid = job[w].uid
      ~> ~HasStatus(i, "Pending") \/ ~Online(msg[i].to_uid)

\* "Acked" and "Failed" are called terminal states by the scripts that set
\* them: no later step changes the status of such a message.
TerminalIsTerminal ==
  [][\A i \in DOMAIN msg : msg[i].status \in {"Acked", "Failed"}
       => msg'[i].status = msg[i].status]_vars

\* Messages to online users are delivered in real time, and Pending is for
\* receivers that are offline: the client of a receiver who stays online takes
\* in every message that is Pending, unless the server gives it up.
PendingReachesOnlineUser ==
  \A i \in MsgIds :
    HasStatus(i, "Pending") ~>
      \/ i \in received
      \/ HasStatus(i, "Failed")
      \/ ~(i \in DOMAIN msg /\ Online(msg[i].to_uid))

=============================================================================
