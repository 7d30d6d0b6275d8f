# A TLA+ verification of ReliableMessageDelivery

The repository is an instant-messaging system that promises reliable delivery:
a C++ server that keeps its messages in Redis, a C++ client that retransmits, and
a TypeScript gateway that connects browser pages to the server. This project models its
concurrent and stateful parts in TLA+, model-checks them with TLC on small
instances, and proves with TLAPS the safety properties of all of them but the byte
streams, for every value of the constants.
Paths below are relative to `src/`.

## 1. The system and how its parts interact

    browser --WebSocket--> gateway --TCP--> ChatServer -> dispatcher -> MessageStore -> Redis pool
                                              ^               |  \-> UserStateService
                          C++ client --TCP----+               +----> ShardedThreadPool

| Part | State | Operations that change it | What is hard about it |
|---|---|---|---|
| Message store (`server/src/MessageStore.cpp`) | record per message, idempotency keys, Pending index per user, timeout index, history per user | six Lua scripts | one message lives in several keys that nine threads change |
| User state (`UserStateService.cpp`) | connection -> user, user -> connection | addConnection, bindUser, removeConnection | takeover, repeated login, late disconnect |
| Thread pool (`ShardedThreadPool.h`) | queue, mutex and condition variable per worker, `stopped_` | start, submit, stop, worker loop | submit against stop, lost and spurious wakeups, order per key |
| Dispatcher (`ServerEventDispatcher.cpp`) | queued events, the delivery thread's round | handlers of login, chat, ACK, disconnect; retry loop | every handler is several Redis commands and table look-ups with no lock around them |
| Redis pool (`RedisClient.cpp`) | free slots, connections, `borrowed_`, `stopping_` | command, the lease, the destructor | exhaustion, one condition variable for two kinds of waiters |
| C++ client (`client/src/Client.cpp`) | `pending_acks`, login state, socket, `stop` | startClient, sendMessage, stopClient, receiver, retry thread | a request is in the retry table before it is sent |
| Gateway (`web_gateway/src`) | sessions, IM clients, pending sends and pushes | WebSocket and socket callbacks | closing while a login is awaited, replaced sessions, a server connection that ends |
| ChatServer, Codec, ImProtocol | receive buffer per connection | onConnection, onMessage, sendAll, the receive loops | frames arrive in pieces and are written in pieces by several threads |
| AuthService (`web_gateway/src`) | accounts and tokens, in memory | register, login, verifyToken | expiry and restarts between a login and the use of its token |
| Browser page (`web_gateway/public/app.js`) | chats, sent messages that wait, seen ids, the rendering timer, the WebSocket | form and button listeners, WebSocket events, the timer | late events of an earlier socket, repeated deliveries, rendering that lags behind the state |

`PROJECT.json` lists every part with its status, and under `hazards` what can go wrong
in it at which line.

## 2. Modules and their correspondence to the code

- `SortedSets`, `Maps`: Redis sorted sets and in-memory maps, the data structures the
  code relies on.
- `MessageStore`: a variable per Redis key family. A script is atomic in Redis, so it
  is one action. Readers that take several commands are split into several steps by
  the dispatcher.
- `OnlineDirectory` is the abstract promise of the user state: which user is online on
  which connection, changed by `Login` and `Leave`. `UserStateService` has the two
  tables of the code; each of its operations holds the mutex and is one action.
  `ImplementsDirectory` maps it to the abstract directory.
- `ShardedThreadPool`: a step per access to shared state: taking the mutex, evaluating
  the wait predicate, blocking, both looks at `stopped_` in submit, the push, the
  notification. Looking at the predicate and blocking are two steps, because `stop()`
  does not hold the mutex.
- `RedisClient`: a step per critical section; connecting and running the command
  happen outside the lock.
- `Client`: the calling thread, the receiver and the retry thread. The clock difference
  is unsigned as in the code, modulo `TwoTo64`.
- `ServerEventDispatcher` composes `MessageStore` and `UserStateService` (`INSTANCE`)
  with workers, event queues, the delivery thread, connections and clients. A handler
  is a sequence of steps, one per Redis command or table look-up. A sorted set is listed
  by the rank of its entries, not by recursion, so that it can be reasoned about.
- `WebGateway`: Node runs one callback at a time, so a callback with the promise
  continuations it releases is one step. The server side is reduced to what
  the gateway sees: queued logins, replies, pushes and disconnects. A login at the server is
  two steps, bindUser and LOGIN_RESP, as other workers push in between.
- `Codec`: `Codec.h` and the codec of `ImProtocol.ts` as operators on sequences of
  bytes; a byte has `Base` values and the header `kHeaderLength` of them, and a
  length is cut to the width of the header. `Reference` says by the format alone what a decoder
  should return.
- `EnvelopeChannel` is what one direction of a connection promises: what is handled
  is a prefix of what was sent. `FrameStream` has the writers (`sendAll`: lock, pieces,
  unlock), a wire that delivers pieces of any size, and the three readers
  (`ChatServer::onMessage`, `Client::receiverLoop`, `ImClient.handleData`), which treat
  an invalid frame differently. `ImplementsChannel` maps it to the abstract channel.
- `ChatPage`: a listener, callback or timer of `app.js` is one step. The functions it
  calls are operators from a page to the page after the call, so a handler is the
  composition of the calls in its body, trailing renderings included. What the user
  sees (pane, unread numbers, composer) is part of the state. `AuthService` is
  instantiated by it; the gateway and the server are its environment.
- `MC*` give the constants values. The eight `*Proofs` modules extend the module of their
  component with its inductive invariant, lemmas and theorems.

Definitions with a suffix after an underscore, such as `Exhausted_Early`, are plausible
slips of the definition without it. Putting one in its place makes TLC report the property
that `PROJECT.json` pairs it with, which shows that the property depends on that code.

### Abstractions and merged steps

- Text, content, logging, statistics and heartbeats (`last_active_ms` is never read)
  are left out. A login with uid 0 and requests without payload are "other" requests.
- Dispatcher: the sender's ACK is sent in the step of the last mark; finding a
  connection closed and `markPending` are one step (closed is for ever); incrementing
  `retry_count` and pushing are one step (only the delivery thread uses the counter);
  sendRecentMessages is one step, in which a Redis failure costs the list or one
  record. "Not logged in" and "from_uid differs" are one condition. The Acked/Failed
  test of tryDeliverMessage is never true: its records are snapshots taken as Pending.
- A failed Redis command has run or not; a lost reply whose result is ignored is the
  same as normal execution, and a failed timeout scan the same as an empty one.
- Streams: writing through muduo or Node is writing in a single piece. A parse of a
  body succeeds exactly if it is the serialization of some envelope.
- Page: a login is one step, from the request to the page that it leads to (its button
  is disabled in between), or the reply is lost. A closed socket is forgotten except
  for its close event. "Near the bottom" is a free choice whenever it is asked for.
  Sent messages get their `client_msg_id` as `msg_id`. Message kinds that the gateway
  never sends, and refused input, change nothing that is modelled but a notice.
- A crash of the server also ends the connections; their identities are used again by
  the connections made after it.
- Client: SIGPIPE is not modelled. After stopClient or the peer has closed the
  connection the receiver may handle any number of envelopes that it has read or that
  had arrived; the code stops after the piece it is in.
- Gateway: a refused login cannot happen, as the uid was verified. Whether the receiver,
  content and client_msg_id of a request are valid is a free choice.

## 3. What the runs check

| Run | Result |
|---|---|
| `message_store` | indexes, idempotency keys and history match the records; the ledger only grows |
| `user_state` | the tables agree and implement `OnlineDirectory` |
| `thread_pool` | no take from an empty queue, no task left behind by an exited worker, order per key, accepted tasks start |
| `redis_pool` | no slot shared or freed in use, no lost wakeup, the destructor returns |
| `client` | sends are bounded, an ACK settles a request for good, only pushes that were taken in are confirmed, no request is given up early; requests settle, stopClient returns |
| `dispatcher_takeover` | across a takeover closed connections are forgotten and a login drains what was Pending |
| `dispatcher_recovery` | with a failing Redis command or a crash at any point, a repeated request and a receiver that comes back: Failed exactly after all retries, positive ACKs are true, Acked only if received, Delivered is transient |
| `gateway` | session tables agree, closed sessions leave nothing, ACKs only for pushes the page saw, an old close does not remove the new session; every request of a page that stays connected is answered, valid or not, before the login or while the server connection breaks |
| `frame_stream` | DecodeAll agrees with the format; each reader handles what was sent in order and once; its buffer holds less than a frame; what was sent is handled |
| `chat_page` | what is shown is current or a timer is set that will show it; messages between two users appear once; the page is online exactly with its own socket and holds its own user's messages; "acknowledged" is true |

`TypeOK` is among the properties of `message_store`. The other modules
that define one satisfy it under the configurations of their runs too; there it
is left to the invariants that say more and, where section 4 lists it, to the proofs.

Two runs are expected to end in a counterexample. Each states a line of the
repository that the code does not keep; `findings` quotes the lines.

| Run | What happens |
|---|---|
| `thread_pool_stop` | `stop()` sets the flag and notifies without the mutex; a worker between predicate and wait misses it, and join never returns |
| `dispatcher_online` | a stale connection look-up across a takeover leaves a message Pending while its receiver is online |

Six more configurations end in a counterexample and are kept beside the listed runs:

| Configuration | Property | What happens |
|---|---|---|
| `MCServerEventDispatcher_terminal.cfg` | `TerminalIsTerminal` | a slow markDelivered or markPending overwrites Acked; the repository's README lists the guard as future work (`README.md:498`) |
| `MCClient_timeout.cfg` | `RetriesOnlyTimedOut` | `now` is read before the lock; a request registered in between has a later time, the unsigned difference wraps and it is retransmitted at once |
| `MCClient_unsent.cfg` | `FailedSendNotHandled` | sendMessage fails for a request of which the retry thread's copy was acknowledged, against the comment at `Client.cpp:129` |
| `MCChatPage_self.cfg` | `EachShownOnce` | a message to oneself appears twice, since its push comes before its send_ack, against `TESTING.md:54` |
| `MCWebGateway_crash.cfg` | `NeverCrashes` | a message_ack after the server connection ended throws in a callback without a handler (`WebSocketServer.ts:173`), against `TESTING.md:57` |
| `MCWebGateway_online.cfg` | `RegisteredIsOnline` | the login of an older, closed session is handled last; the registered session is offline at the server |

### Bounds

- Store: 2 messages and 2 client ids, so that an id is repeated and two messages
  share an index. User state: 4 connections, so that takeovers chain.
- Pool: 2 workers, 2 I/O threads, 3 keys: two keys share a worker and two threads
  submit to it. Redis pool: 4 threads for 2 slots.
- Client: 2 requests, 2 starts, 1 retry: the limit is reached and a second
  start meets what the first left. `MaxIdleClock` bounds the clock while nothing waits.
- Dispatcher: 2 workers; a sender and two connections of one receiver, 1 request in
  `dispatcher_takeover`; one connection of the receiver, 2 requests with one client id, so
  that a request is repeated, and one fault or crash in `dispatcher_recovery`; 1 retry.
  `Leaving` names the connections that may close. Time only advances while a
  Delivered message waits. One message is enough for properties that are about one
  message at a time, but interference between two messages of one receiver is
  not covered, nor is a second fault after the first.
- Gateway: two sessions of one user, one send each, and one push, a delivery or history.
  The push goes to `s1` (`PushTo`): the sessions differ only in name, so nothing is lost.
- Stream: bytes of 2 values and a header of 2 bytes, so a header says 0 to 3, with a
  limit of 2; envelopes with bodies below, at and above the limit, and two frames
  that no encoder makes (length 0, a body that does not parse); 2 threads, 3 frames. `DecodeIsRight`
  looks at every continuation of up to `MaxNext` bytes.
- Page: two logins, as one user or as two, so that an old socket meets a new login;
  one message from the other user, pushed up to twice as delivery or history; one
  message sent, to the other user or to oneself; a window of one message; one fault
  (a restart, an expired token, a lost reply, a notice). `MaxQueue` is the number of
  messages on their way to the page above which the gateway waits.

### Fairness

Weak fairness is assumed of threads that the operating system runs (workers, I/O
threads in submit, the delivery thread, the client's threads), of the clock, of
clients that read their open connection, and in the gateway of the event loop (pending
socket events and the close of a closing WebSocket) and of the server, each as a whole: no
session has fairness of its own, which is less than the code gives and enough. In the stream
it is assumed of a thread inside sendAll and of the arrival of sent bytes.
Nothing is assumed of spurious wakeups, new connections, requests, disconnects,
failures, crashes or the browser.

`CHECK_DEADLOCK FALSE` is used where the system may come to rest: a destroyed
Redis pool, a stopped client, closed gateway sessions, a finished stream, a page
whose logins are used up.

## 4. What is proved

The theorems hold for every value of the constants under the named assumption of the
module. The assumptions give the constants their types; what they say beyond that is
named below. TLC evaluates all of them. Every safety invariant that a passing run checks
is the statement of a theorem, except the two of the stream (see the end of the section).

| Module | Theorems | Inductive invariant, and why it is needed |
|---|---|---|
| `MessageStoreProofs` | `TypeOK`, `IndexMatchesStatus`, `IdempotentCreate`, `RecentIsComplete`, action property `LedgerOnlyGrows` | each invariant is inductive with `TypeOK`; lemmas separate creation, which adds a record, from scripts that rewrite one |
| `UserStateServiceProofs` | `TypeOK`, `TablesAgree`, refinement of `OnlineDirectory` | `IInv` states the agreement entry by entry instead of as an equality of sets |
| `ShardedThreadPoolProofs` | `TypeOK`, `TakesFromNonEmpty`, `ExitedWorkerHasNoTasks`, `KeyOrder` | `Locking`, `Lifecycle` and `Service`: between its second look at `stopped_` and its push a submitter holds the mutex, so that the worker cannot exit. `OInv` for the order: what is still to be submitted, what is queued and what is taken follow each other in the order of acceptance |
| `RedisClientProofs` | `TypeOK`, `SlotLentOnce`, `FreedWhenReturned`, `NoLostWakeup` | `Counting`: `borrowed_` is the number of leases. `SlotsSpokenFor`: while anybody waits, every free slot has a thread of its own on the way to it; `NoLostWakeup` alone is not kept by a thread that takes a slot |
| `ClientProofs` | types, `SendBound`, `AckedIsSettled`, `ConfirmedWasTaken`, action property `GivenUpInTime` | `Account`: what was sent of a request together with what sendMessage and the retry thread are about to send of it is at most one more than the retries its entry counts. `Timely`: only a request without a retry can be younger than the time a scan goes by, so a difference that wraps never gives a request up |
| `WebGatewayProofs` | types, `SessionTablesAgree`, `ClosedSessionForgotten`, `AckedWasSeen`, action property `OldCloseKeepsNew` | `SocketOwned`: a usable TCP connection belongs to a session that is still in `imClientsBySessionId`, also while a login is awaited; a page only acknowledges what it has |
| `ServerEventDispatcherProofs` | `RetriesAreExact`, `AckedWasReceived`, `SenderAckIsTrue`, `ClosedConnForgotten` | see below |
| `ChatPageProofs` | `ViewIsCurrent`, `ShownOnce`, `PageFollowsSession`, `AckLabelIsTrue` | see below |

Assumptions that are more than types: a pool has finitely many threads, none of which is
its destructor (they are counted); a task object is submitted once; uid 0 and message
number 0 mean "none"; the ACK timeout, the client's retry limit and the page size are not 0 (`kAckTimeoutMs`,
`kMaxRetryCount` and `MESSAGE_PAGE_SIZE` are positive in the code); the numbers of pushed messages differ from those of
the messages that the page sends, as the store numbers both.

### The dispatcher

`Types` says where every thread is and what it holds there, and of the store that an idempotency
key leads to a message that was created under it. On it rest four invariants, each kept by
every handler step, Redis failure, disconnect, takeover and crash:

- `Rounds`: a record that the delivery thread fetched has the retry count that the store
  still has, since no other script changes the counter and a round has no id twice.
  Without it `RetriesAreExact` is not inductive, because the thread decides on the copy.
- `Receipts`: an ACK that is queued or handled names a message that its client took in.
  That a worker checks the receiver and marks the message later does no harm.
- `Replies`: the positive ACK that a worker will send once its delivery is over is true
  already, and stays true because no script changes sender or client id of a message.
- `Closing`: a closed connection is forgotten, or its close event is queued and no event of
  it comes after that one. This is the order per key that the thread pool keeps.

Members of a sorted set are listed once each (`SortedSets`, from the theory of finite
cardinalities); the other lemmas use it as a conjunct of `Ledger`.

### The page

Every function of `app.js` that the handlers call has a lemma about the page it
returns. The invariant has three parts:

- `View` is `ViewIsCurrent` for a page as a value, with what the renderings rely on: the
  active chat exists, and so do the chats of the messages that wait for a send_ack.
- `Session`: a socket that is connecting or open is the present one, and belongs to
  the user who logged in. Hence whatever a late event of an older socket does, it is its close.
- `Content` is about the messages that the page holds and those on the way to it:
  each is between its user and the peer of its chat, each number that is shown is in
  `renderedMessageIds`, an acknowledged label has its ACK. A message to oneself comes
  back as a push with the number of the message that was sent. So the invariant says that there is a
  set `own` of such messages and that no others share a number.

### Only model-checked

- All liveness: fairness and ENABLED are out of the prover's reach.
- `DecodeIsRight`, `BufferBounded` and the refinement `ImplementsChannel` of `FrameStream`:
  the decoder is recursive over the bytes, and what a recursive definition computes needs
  an induction over data that the installed provers cannot do.

Leaves name the prover `Zenon` where it finds the proof: tlapm's translation for the SMT
solver gets slower with each one it makes, so in the two largest modules it is kept for
the steps that need arithmetic, records or sequences. They take about 15
(dispatcher) and 6 minutes (page) to check from nothing, the other six about 8 together.

## 5. Not modelled

- `server.ts` (HTTP routing and files), status output, logging and start-up of the
  server: I/O without state of its own.
- `PerfStats`: no code calls it. `ServerStatus` is a record for the status line.
- `main_client.cpp`: a command-line benchmark; what it does to the system is what
  `Client` does.
- `Message.proto` is generated code, `EnvelopeInspector` formats for the log.
- Layout, wording and scroll positions of the page; encoding of Redis commands and
  parsing of their replies as text.
- Heartbeats: no program of the repository sends one, and nothing reads the time
  that they would set.
- A reply of createMessage that is lost leaves the message Pending until the next
  login, since the repeat counts as a duplicate; a message of the page whose answer is
  lost with the socket stays labelled as being sent. The models have these
  behaviours; no document promises anything else, and no property is about them.

## 6. Plan

1. Two messages of one receiver in the dispatcher's runs, and the client composed with
   the dispatcher: from sendMessage to the receiver's callback, against an abstract channel.
2. The dispatcher's queues replaced by the thread pool of `ShardedThreadPool`, so that the order
   of the events of a connection follows from `KeyOrder`.
