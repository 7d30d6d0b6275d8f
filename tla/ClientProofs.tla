---------------------------- MODULE ClientProofs ----------------------------
(***************************************************************************)
(* Proofs about Client, for any number of requests, retries and starts.    *)
(* The two threads that send requests are accounted for together: what was *)
(* sent of a request and what the threads are about to send of it never    *)
(* exceeds one more than the retries its pending_acks entry has counted.   *)
(***************************************************************************)
EXTENDS Client, TLAPS

\* What each thread holds on to at each point of its code.
MainType ==
  \/ \E where \in {"out", "login", "ready", "stop", "join"} : main = At(where)
  \/ main \in [at : {"send", "unsent"}, seq : 1..MaxSeq]
RetryType ==
  \/ \E where \in {"none", "sleep", "exited"} : retry = At(where)
  \/ retry \in [at : {"scan"}, now : 1..clock]
  \/ retry \in [at : {"send"}, batch : SUBSET (1..MaxSeq)]

Types ==
  /\ TypeOK /\ MainType /\ RetryType /\ clock # 0
  /\ sent \in [1..MaxSeq -> Nat]
  /\ acked \subseteq 1..(next_seq - 1)

\* Transmissions of s that sendMessage and retryLoop are committed to.
Sending(s) == IF main.at = "send" /\ main.seq = s THEN 1 ELSE 0
Queued(s) == IF retry.at = "send" /\ s \in retry.batch THEN 1 ELSE 0
Committed(s) == sent[s] + Sending(s) + Queued(s)

Account ==
  \A s \in 1..MaxSeq :
    /\ Committed(s) <= 1 + kMaxRetryCount
    /\ s \in DOMAIN pending_acks => Committed(s) <= 1 + pending_acks[s].retry_count
    /\ s >= next_seq => Committed(s) = 0

IInv == Types /\ Account /\ AckedIsSettled /\ ConfirmedWasTaken

-----------------------------------------------------------------------------
LEMMA Constants ==
  /\ kMaxRetryCount \in Nat \ {0} /\ TwoTo64 \in Nat \ {0}
  /\ MaxSeq \in Nat /\ MaxStarts \in Nat
BY ClientAssumption

LEMMA ClientInit == Init => IInv
<1> SUFFICES ASSUME Init PROVE IInv
  OBVIOUS
<1>1. Types
  <2>1. MainType /\ RetryType
    BY DEF Init, MainType, RetryType
  <2>2. DOMAIN pending_acks = {} /\ acked = {} /\ next_seq = 1
    BY DEF Init, EmptyMap
  <2>3. TypeOK
    <3>1. starts \in 0..MaxStarts /\ next_seq \in 1..(MaxSeq + 1) /\ clock \in Nat
      BY Constants DEF Init
    <3>2. main.at = "out" /\ retry.at = "none"
      BY DEF Init, At
    <3> QED BY <2>2, <3>1, <3>2 DEF Init, TypeOK
  <2>4. sent \in [1..MaxSeq -> Nat]
    BY DEF Init
  <2> QED BY <2>1, <2>2, <2>3, <2>4 DEF Types, Init
<1>2. Account
  BY Constants DEF Init, Account, Committed, Sending, Queued, At, EmptyMap
<1>3. AckedIsSettled /\ ConfirmedWasTaken
  BY DEF Init, AckedIsSettled, ConfirmedWasTaken
<1> QED BY <1>1, <1>2, <1>3 DEF IInv

\* What a thread is committed to send is a number.
LEMMA CommittedType ==
  ASSUME Types, NEW s \in 1..MaxSeq
  PROVE  Committed(s) \in Nat /\ sent[s] \in Nat /\ Sending(s) \in 0..1 /\ Queued(s) \in 0..1
<1>1. Sending(s) \in 0..1 /\ Queued(s) \in 0..1 /\ sent[s] \in Nat
  BY DEF Types, Sending, Queued
<1> QED BY <1>1 DEF Committed

\* A step that sends nothing, takes on no transmission and changes no entry of
\* the table, except that it may drop some, keeps the account.
LEMMA AccountKept ==
  ASSUME Types, Account, UNCHANGED <<sent, next_seq>>,
         DOMAIN pending_acks' \subseteq DOMAIN pending_acks,
         \A s \in DOMAIN pending_acks' : pending_acks'[s] = pending_acks[s],
         \A s \in 1..MaxSeq : Sending(s)' \in {0, Sending(s)} /\ Queued(s)' \in {0, Queued(s)}
  PROVE  Account'
<1> SUFFICES ASSUME NEW s \in 1..MaxSeq
             PROVE  /\ Committed(s)' <= 1 + kMaxRetryCount
                    /\ s \in DOMAIN pending_acks' => Committed(s)' <= 1 + pending_acks'[s].retry_count
                    /\ s >= next_seq' => Committed(s)' = 0
  BY DEF Account
<1>1. Committed(s)' \in 0..Committed(s)
  BY CommittedType DEF Committed
<1>2. \A x \in DOMAIN pending_acks : pending_acks[x].retry_count \in Nat
  BY Constants DEF Types, TypeOK
<1> QED BY <1>1, <1>2, CommittedType, Constants DEF Account

\* The types depend on the clock only through last_send_ms and now.
LEMMA TypesKept ==
  ASSUME Types, MainType', RetryType', UNCHANGED <<clock, next_seq, message_queue, confirmed>>,
         starts' \in 0..MaxStarts, stop' \in BOOLEAN, sock' \in {"none", "open", "down"},
         login' \in {"waiting", "ok", "failed"}, receiver' \in {"none", "running", "exited"},
         DOMAIN pending_acks' \subseteq DOMAIN pending_acks,
         \A s \in DOMAIN pending_acks' : pending_acks'[s] = pending_acks[s],
         sent' \in [1..MaxSeq -> Nat], acked' \subseteq 1..(next_seq - 1)
  PROVE  Types'
<1>1. main'.at \in {"out", "login", "ready", "stop", "join", "send", "unsent"}
  BY DEF MainType, At
<1>2. retry'.at \in {"none", "sleep", "scan", "send", "exited"}
  BY DEF RetryType, At
<1> QED BY <1>1, <1>2 DEF Types, TypeOK

\* startClient, its wait for the login, and stopClient.
LEMMA ClientLifecycle ==
  ASSUME IInv, StartClient \/ LoginWaitEnds \/ StopClient \/ StopClientReturns
  PROVE  IInv'
<1> USE DEF IInv
<1>1. /\ UNCHANGED <<clock, next_seq, message_queue, confirmed, sent, acked>>
      /\ pending_acks' = pending_acks \/ pending_acks' = EmptyMap
      /\ \E where \in {"out", "login", "ready", "stop", "join"} : main' = At(where)
      /\ retry' \in {retry, At("sleep"), At("none")}
  <2>1. CASE StartClient
    <3>1. main' \in {At("out"), At("stop"), At("login")}
      BY <2>1 DEF StartClient
    <3> QED BY <2>1, <3>1 DEF StartClient, pushVars, history
  <2>2. CASE LoginWaitEnds \/ StopClient \/ StopClientReturns
    BY <2>2 DEF LoginWaitEnds, StopClient, StopClientReturns, pushVars, history
  <2> QED BY <2>1, <2>2
<1>2. MainType' /\ RetryType'
  BY <1>1 DEF Types, MainType, RetryType
<1>3. /\ DOMAIN pending_acks' \subseteq DOMAIN pending_acks
      /\ \A s \in DOMAIN pending_acks' : pending_acks'[s] = pending_acks[s]
  BY <1>1 DEF EmptyMap
<1>4. Types'
  <2>1. /\ starts' \in 0..MaxStarts /\ stop' \in BOOLEAN /\ sock' \in {"none", "open", "down"}
        /\ login' \in {"waiting", "ok", "failed"} /\ receiver' \in {"none", "running", "exited"}
    <3>1. CASE StartClient
      <4>1. starts' = starts + 1 /\ starts < MaxStarts /\ starts \in 0..MaxStarts
        BY <3>1 DEF StartClient, Types, TypeOK
      <4>2. starts' \in 0..MaxStarts
        BY <4>1, Constants
      <4> QED BY <3>1, <4>2 DEF Types, TypeOK, StartClient
    <3>2. CASE LoginWaitEnds \/ StopClient \/ StopClientReturns
      BY <3>2 DEF Types, TypeOK, LoginWaitEnds, StopClient, StopClientReturns
    <3> QED BY <3>1, <3>2
  <2> QED BY <1>1, <1>2, <1>3, <2>1, TypesKept DEF Types
<1>5. Account'
  <2>1. main'.at # "send" /\ (retry' = retry \/ retry'.at # "send")
    BY <1>1 DEF At
  <2> QED BY <1>1, <1>3, <2>1, AccountKept DEF Sending, Queued
<1>6. AckedIsSettled' /\ ConfirmedWasTaken'
  BY <1>1, <1>3 DEF AckedIsSettled, ConfirmedWasTaken
<1> QED BY <1>4, <1>5, <1>6

\* sendMessage enters the request before anything was sent of it.
LEMMA ClientRegister ==
  ASSUME IInv, SendRegister
  PROVE  IInv'
<1> USE DEF IInv
<1>0. PICK n \in 1..MaxSeq : n = next_seq
  BY Constants DEF SendRegister, Types, TypeOK
<1>1. /\ next_seq' = n + 1 /\ main.at = "ready"
      /\ pending_acks' = Put(pending_acks, n, Request(clock, 0))
      /\ main' = [at |-> "send", seq |-> n]
      /\ UNCHANGED <<clock, starts, stop, sock, login, receiver, retry, message_queue,
                     confirmed, sent, acked>>
  BY <1>0 DEF SendRegister, pushVars, history, At
<1>2. /\ DOMAIN pending_acks' = DOMAIN pending_acks \cup {n}
      /\ pending_acks'[n] = Request(clock, 0)
      /\ \A s \in DOMAIN pending_acks \ {n} : pending_acks'[s] = pending_acks[s]
  BY <1>1 DEF Put
<1>3. DOMAIN pending_acks \subseteq 1..(n - 1) /\ acked \subseteq 1..(n - 1)
  BY <1>0 DEF Types, TypeOK
<1>4. Types'
  <2>1. MainType' /\ RetryType'
    BY <1>1 DEF Types, MainType, RetryType
  <2>2. Request(clock, 0) \in [last_send_ms : 1..clock, retry_count : 0..kMaxRetryCount]
    BY Constants DEF Types, TypeOK, Request
  <2>3. /\ DOMAIN pending_acks' \subseteq 1..(next_seq' - 1)
        /\ next_seq' \in 1..(MaxSeq + 1) /\ acked' \subseteq 1..(next_seq' - 1)
    BY <1>1, <1>2, <1>3, Constants
  <2>4. \A s \in DOMAIN pending_acks' : pending_acks'[s] \in
          [last_send_ms : 1..clock, retry_count : 0..kMaxRetryCount]
    BY <1>2, <2>2 DEF Types, TypeOK
  <2> QED BY <1>1, <2>1, <2>3, <2>4 DEF Types, TypeOK
<1>5. Account'
  <2> SUFFICES ASSUME NEW s \in 1..MaxSeq
               PROVE  /\ Committed(s)' <= 1 + kMaxRetryCount
                      /\ s \in DOMAIN pending_acks' =>
                           Committed(s)' <= 1 + pending_acks'[s].retry_count
                      /\ s >= next_seq' => Committed(s)' = 0
    BY DEF Account
  <2>1. CASE s = n
    <3>1. Committed(n) = 0
      BY <1>0 DEF Account
    <3>2. sent[n] = 0 /\ Queued(n) = 0
      BY <1>1, <3>1, CommittedType DEF Committed
    <3>3. Committed(n)' = 1
      BY <1>1, <3>2 DEF Committed, Sending, Queued
    <3> QED BY <1>1, <1>2, <2>1, <3>3, Constants DEF Request
  <2>2. CASE s # n
    <3>1. Committed(s)' = Committed(s)
      BY <1>1, <2>2 DEF Committed, Sending, Queued
    <3> QED BY <1>0, <1>1, <1>2, <2>2, <3>1 DEF Account
  <2> QED BY <2>1, <2>2
<1>6. AckedIsSettled' /\ ConfirmedWasTaken'
  BY <1>1, <1>2, <1>3 DEF AckedIsSettled, ConfirmedWasTaken
<1> QED BY <1>4, <1>5, <1>6

\* The transmission itself, which turns a commitment into one more that was
\* sent, and the end of a sendMessage that failed.
LEMMA ClientSend ==
  ASSUME IInv, SendTransmit \/ SendErase
  PROVE  IInv'
<1> USE DEF IInv
<1>1. PICK n \in 1..MaxSeq : main.seq = n
  BY DEF SendTransmit, SendErase, Types, MainType, At
<1>2. /\ UNCHANGED <<clock, starts, stop, sock, login, next_seq, receiver, retry, message_queue,
                     confirmed, acked>>
      /\ main' = At("ready") \/ main' = [at |-> "unsent", seq |-> n]
      /\ DOMAIN pending_acks' \subseteq DOMAIN pending_acks
      /\ \A s \in DOMAIN pending_acks' : pending_acks'[s] = pending_acks[s]
      /\ sent' = sent \/ (main.at = "send" /\ sent' = [sent EXCEPT ![n] = @ + 1])
  BY <1>1 DEF SendTransmit, SendErase, pushVars, history, Erase, Restrict, Count
<1>3. MainType' /\ RetryType' /\ main'.at # "send"
  BY <1>2 DEF Types, MainType, RetryType, At
<1>4. Types'
  BY <1>2, <1>3, TypesKept DEF Types, TypeOK
<1>5. Account'
  <2>1. CASE sent' = sent
    BY <1>2, <1>3, <2>1, AccountKept DEF Sending, Queued
  <2>2. CASE main.at = "send" /\ sent' = [sent EXCEPT ![n] = @ + 1]
    <3>1. \A s \in 1..MaxSeq : Committed(s)' = Committed(s)
      <4> TAKE s \in 1..MaxSeq
      <4>1. sent'[s] = sent[s] + Sending(s) /\ Sending(s)' = 0 /\ Queued(s)' = Queued(s)
        BY <1>1, <1>2, <1>3, <2>2, CommittedType DEF Types, Sending, Queued
      <4> QED BY <4>1, CommittedType DEF Committed
    <3> QED BY <1>2, <3>1 DEF Account
  <2> QED BY <1>2, <2>1, <2>2
<1>6. AckedIsSettled' /\ ConfirmedWasTaken'
  BY <1>2 DEF AckedIsSettled, ConfirmedWasTaken
<1> QED BY <1>4, <1>5, <1>6

\* An ACK names a request that was sent, hence registered; the receiver's other
\* steps leave the table and the commitments alone.
LEMMA ClientReceive ==
  ASSUME IInv, handleLoginResponse \/ handleAck \/ handleChatPush \/ ReceiverEnds \/ PeerCloses
  PROVE  IInv'
<1> USE DEF IInv
<1>1. CASE handleAck
  <2>1. PICK s \in 1..MaxSeq : /\ sent[s] > 0
                               /\ pending_acks' = Erase(pending_acks, s)
                               /\ acked' = acked \cup {s}
    BY <1>1 DEF handleAck
  <2>2. /\ UNCHANGED <<clock, starts, stop, sock, login, next_seq, main, receiver, retry,
                       message_queue, confirmed, sent>>
        /\ DOMAIN pending_acks' = DOMAIN pending_acks \ {s}
        /\ \A x \in DOMAIN pending_acks' : pending_acks'[x] = pending_acks[x]
    BY <1>1, <2>1 DEF handleAck, pushVars, Erase, Restrict
  <2>3. s \in 1..(next_seq - 1)
    <3>1. Committed(s) # 0 /\ next_seq \in Nat
      BY <2>1, CommittedType DEF Committed, Types, TypeOK
    <3> QED BY <3>1 DEF Account
  <2>4. Types'
    BY <2>1, <2>2, <2>3, TypesKept DEF Types, TypeOK, MainType, RetryType
  <2>5. Account'
    BY <2>2, AccountKept DEF Sending, Queued
  <2>6. AckedIsSettled' /\ ConfirmedWasTaken'
    BY <2>1, <2>2 DEF AckedIsSettled, ConfirmedWasTaken
  <2> QED BY <2>4, <2>5, <2>6
<1>2. CASE handleChatPush
  <2>1. PICK m \in MsgId : /\ message_queue' = message_queue \cup {m}
                           /\ confirmed' \in {confirmed, confirmed \cup {m}}
    BY <1>2 DEF handleChatPush
  <2>2. UNCHANGED <<clock, starts, stop, sock, login, pending_acks, next_seq, main, receiver,
                    retry, sent, acked>>
    BY <1>2 DEF handleChatPush, history
  <2>3. Types' /\ ConfirmedWasTaken'
    BY <2>1, <2>2 DEF Types, TypeOK, MainType, RetryType, ConfirmedWasTaken
  <2>4. Account' /\ AckedIsSettled'
    BY <2>2 DEF Account, Committed, Sending, Queued, AckedIsSettled
  <2> QED BY <2>3, <2>4
<1>3. CASE handleLoginResponse \/ ReceiverEnds \/ PeerCloses
  <2>1. UNCHANGED <<clock, starts, pending_acks, next_seq, main, retry, message_queue, confirmed,
                    sent, acked>>
    BY <1>3 DEF handleLoginResponse, ReceiverEnds, PeerCloses, pushVars, history
  <2>2. /\ stop' \in BOOLEAN /\ sock' \in {"none", "open", "down"}
        /\ login' \in {"waiting", "ok", "failed"} /\ receiver' \in {"none", "running", "exited"}
    BY <1>3 DEF handleLoginResponse, ReceiverEnds, PeerCloses, Types, TypeOK
  <2>3. Types'
    BY <2>1, <2>2 DEF Types, TypeOK, MainType, RetryType
  <2>4. Account' /\ AckedIsSettled' /\ ConfirmedWasTaken'
    BY <2>1 DEF Account, Committed, Sending, Queued, AckedIsSettled, ConfirmedWasTaken
  <2> QED BY <2>3, <2>4
<1> QED BY <1>1, <1>2, <1>3

\* A scan counts a retry for exactly the requests it commits the thread to, and
\* only while kMaxRetryCount allows one more.
LEMMA ClientScan ==
  ASSUME IInv, RetryScan
  PROVE  IInv'
<1> USE DEF IInv
<1> DEFINE due == {s \in DOMAIN pending_acks : Waited(s, retry.now) >= retry_timeout(s)}
           again == {s \in due : ~GivenUp(s)}
           Entry == [last_send_ms : 1..clock, retry_count : 0..kMaxRetryCount]
<1>1. /\ retry.at = "scan" /\ retry.now \in 1..clock
      /\ UNCHANGED <<clock, starts, stop, sock, login, next_seq, main, receiver, message_queue,
                     confirmed, sent, acked>>
      /\ retry' = [at |-> "send", batch |-> again]
  BY DEF RetryScan, pushVars, Types, RetryType, At
<1>2. /\ DOMAIN pending_acks' \subseteq DOMAIN pending_acks
      /\ \A s \in DOMAIN pending_acks' :
           pending_acks'[s] = IF s \in again THEN Again(s, retry.now) ELSE pending_acks[s]
      /\ again \subseteq DOMAIN pending_acks
  BY DEF RetryScan, Without
<1>3. \A s \in again : /\ pending_acks[s] \in Entry
                       /\ pending_acks[s].retry_count < kMaxRetryCount
                       /\ s \in 1..MaxSeq /\ s < next_seq
  BY <1>2, Constants DEF GivenUp, Types, TypeOK
<1> HIDE DEF again
<1>4. \A s \in again : /\ Again(s, retry.now) \in Entry
                       /\ Again(s, retry.now).retry_count = pending_acks[s].retry_count + 1
  BY <1>1, <1>3, Constants DEF Again, Request
<1>5. Types'
  <2>1. MainType' /\ RetryType'
    BY <1>1, <1>3 DEF Types, MainType, RetryType
  <2>2. \A s \in DOMAIN pending_acks' : pending_acks'[s] \in Entry
    BY <1>2, <1>4 DEF Types, TypeOK
  <2> QED BY <1>1, <1>2, <2>1, <2>2 DEF Types, TypeOK
<1>6. Account'
  <2> SUFFICES ASSUME NEW s \in 1..MaxSeq
               PROVE  /\ Committed(s)' <= 1 + kMaxRetryCount
                      /\ s \in DOMAIN pending_acks' =>
                           Committed(s)' <= 1 + pending_acks'[s].retry_count
                      /\ s >= next_seq' => Committed(s)' = 0
    BY DEF Account
  <2>1. CASE s \in again
    <3>1. Committed(s)' = Committed(s) + 1
      BY <1>1, <2>1, CommittedType DEF Committed, Sending, Queued
    <3>2. Committed(s) <= 1 + pending_acks[s].retry_count
      BY <1>2, <2>1 DEF Account
    <3>3. /\ pending_acks[s].retry_count \in Nat
          /\ pending_acks[s].retry_count < kMaxRetryCount /\ s < next_seq
      BY <1>3, <2>1, Constants
    <3>4. Committed(s) \in Nat /\ next_seq \in Nat /\ next_seq' = next_seq
      BY <1>1, CommittedType DEF Types, TypeOK
    <3>5. s \in DOMAIN pending_acks' =>
            pending_acks'[s].retry_count = pending_acks[s].retry_count + 1
      BY <1>2, <1>4, <2>1
    <3> QED BY <3>1, <3>2, <3>3, <3>4, <3>5, Constants
  <2>2. CASE s \notin again
    <3>1. Committed(s)' = Committed(s)
      BY <1>1, <2>2 DEF Committed, Sending, Queued
    <3> QED BY <1>1, <1>2, <2>2, <3>1 DEF Account
  <2> QED BY <2>1, <2>2
<1>7. AckedIsSettled' /\ ConfirmedWasTaken'
  BY <1>1, <1>2 DEF AckedIsSettled, ConfirmedWasTaken
<1> QED BY <1>5, <1>6, <1>7

\* The retry thread sends what it is committed to, or drops it and ends.
LEMMA ClientRetry ==
  ASSUME IInv, RetryWake \/ RetrySend
  PROVE  IInv'
<1> USE DEF IInv
<1>1. UNCHANGED <<clock, starts, sock, login, pending_acks, next_seq, main, receiver,
                  message_queue, confirmed, acked>>
  BY DEF RetryWake, RetrySend, pushVars, history
<1>2. AckedIsSettled' /\ ConfirmedWasTaken'
  BY <1>1 DEF AckedIsSettled, ConfirmedWasTaken
<1>3. CASE retry.at = "send" /\ \E s \in retry.batch :
             retry' = [retry EXCEPT !.batch = @ \ {s}] /\ sent' = Count(s) /\ stop' = stop
  <2>1. retry \in [at : {"send"}, batch : SUBSET (1..MaxSeq)]
    BY <1>3 DEF Types, RetryType, At
  <2>2. PICK s \in 1..MaxSeq : /\ s \in retry.batch
                               /\ retry' = [retry EXCEPT !.batch = @ \ {s}]
                               /\ sent' = [sent EXCEPT ![s] = @ + 1]
    BY <1>3, <2>1 DEF Count
  <2>3. RetryType' /\ retry'.at = "send" /\ retry'.batch = retry.batch \ {s}
    BY <2>1, <2>2 DEF RetryType
  <2>4. Types'
    BY <1>1, <1>3, <2>2, <2>3, TypesKept DEF Types, TypeOK, MainType
  <2>5. \A x \in 1..MaxSeq : Committed(x)' = Committed(x)
    <3> TAKE x \in 1..MaxSeq
    <3>1. /\ sent'[x] = sent[x] + (IF x = s THEN 1 ELSE 0)
          /\ Queued(x) = Queued(x)' + (IF x = s THEN 1 ELSE 0)
          /\ Sending(x)' = Sending(x) /\ Queued(x)' \in Nat
      BY <1>1, <2>1, <2>2, <2>3, CommittedType DEF Types, Sending, Queued
    <3> QED BY <3>1, CommittedType DEF Committed
  <2>6. Account'
    BY <1>1, <2>5 DEF Account
  <2> QED BY <1>2, <2>4, <2>6
<1>4. CASE /\ sent' = sent /\ stop' \in BOOLEAN
           /\ \/ retry' \in {At("exited"), At("sleep")}
              \/ retry' = [at |-> "scan", now |-> clock]
  <2>1. RetryType' /\ retry'.at # "send"
    BY <1>1, <1>4 DEF Types, TypeOK, RetryType, At
  <2>2. Types'
    BY <1>1, <1>4, <2>1, TypesKept DEF Types, TypeOK, MainType
  <2>3. Account'
    BY <1>1, <1>4, <2>1, AccountKept DEF Sending, Queued
  <2> QED BY <1>2, <2>2, <2>3
<1>5. CASE RetryWake
  BY <1>4, <1>5 DEF RetryWake, history, Types, TypeOK
<1>6. CASE RetrySend
  BY <1>3, <1>4, <1>6 DEF RetrySend, Types, TypeOK
<1> QED BY <1>5, <1>6

\* Time passes.
LEMMA ClientTick ==
  ASSUME IInv, Tick
  PROVE  IInv'
<1> USE DEF IInv
<1>1. /\ clock' = clock + 1 /\ clock \in Nat
      /\ UNCHANGED <<starts, stop, sock, login, pending_acks, next_seq, main, receiver, retry,
                     message_queue, confirmed, sent, acked>>
  BY DEF Tick, pushVars, history, Types, TypeOK
<1>2. 1..clock \subseteq 1..clock' /\ clock' \in Nat \ {0}
  BY <1>1
<1>3. RetryType'
  BY <1>1, <1>2 DEF Types, RetryType
<1>4. \A s \in DOMAIN pending_acks' :
        pending_acks'[s] \in [last_send_ms : 1..clock', retry_count : 0..kMaxRetryCount]
  BY <1>1, <1>2 DEF Types, TypeOK
<1>5. Types'
  BY <1>1, <1>2, <1>3, <1>4 DEF Types, TypeOK, MainType
<1>6. Account' /\ AckedIsSettled' /\ ConfirmedWasTaken'
  BY <1>1 DEF Account, Committed, Sending, Queued, AckedIsSettled, ConfirmedWasTaken
<1> QED BY <1>5, <1>6

\* Every step of the client keeps the invariant.
LEMMA ClientStep == IInv /\ [Next]_vars => IInv'
<1> SUFFICES ASSUME IInv, [Next]_vars PROVE IInv'
  OBVIOUS
<1>1. CASE UNCHANGED vars
  BY <1>1 DEF vars, IInv, Types, TypeOK, MainType, RetryType, Account, Committed, Sending,
    Queued, AckedIsSettled, ConfirmedWasTaken
<1>2. CASE Next
  BY <1>2, ClientLifecycle, ClientRegister, ClientSend, ClientReceive, ClientScan, ClientRetry,
    ClientTick DEF Next, MainStep, RetryStep
<1> QED BY <1>1, <1>2

LEMMA ClientInductive == Spec => []IInv
BY ClientInit, ClientStep, PTL DEF Spec

-----------------------------------------------------------------------------
\* The client's variables keep their types: entries of pending_acks belong to
\* requests that were numbered, with times that have passed.
THEOREM ClientTypeCorrect == Spec => []TypeOK
BY ClientInductive, PTL DEF IInv, Types

\* sendMessage and retryLoop together put a request on the wire at most
\* 1 + kMaxRetryCount times, for any kMaxRetryCount and any interleaving.
THEOREM ClientSendBound == Spec => []SendBound
<1>1. IInv => SendBound
  <2> SUFFICES ASSUME IInv, NEW s \in 1..MaxSeq PROVE sent[s] <= 1 + kMaxRetryCount
    BY DEF SendBound
  <2>1. Committed(s) <= 1 + kMaxRetryCount
    BY DEF IInv, Account
  <2>2. sent[s] \in Nat /\ Sending(s) \in 0..1 /\ Queued(s) \in 0..1
    BY CommittedType DEF IInv
  <2> QED BY <2>1, <2>2, Constants DEF Committed
<1> QED BY <1>1, ClientInductive, PTL

\* Once handleAck has seen the ACK of a request, the request is out of
\* pending_acks for good, however late the ACK of an earlier connection comes.
THEOREM ClientAckSettles == Spec => []AckedIsSettled
BY ClientInductive, PTL DEF IInv

\* handleChatPush acknowledges to the server only what it has put into the
\* message queue.
THEOREM ClientConfirmsTaken == Spec => []ConfirmedWasTaken
BY ClientInductive, PTL DEF IInv

-----------------------------------------------------------------------------
\* Only a request that was never retried can be younger than the time that a
\* scan goes by: the retry thread itself wrote the times of the others.
Timely ==
  retry.at = "scan" =>
    \A s \in DOMAIN pending_acks :
      pending_acks[s].retry_count > 0 => pending_acks[s].last_send_ms <= retry.now

LEMMA TimelyStep == IInv /\ Timely /\ [Next]_vars => Timely'
<1> SUFFICES ASSUME IInv, Timely, [Next]_vars PROVE Timely'
  OBVIOUS
<1>1. CASE UNCHANGED <<retry, pending_acks>>
  BY <1>1 DEF Timely
<1>2. CASE retry'.at # "scan"
  BY <1>2 DEF Timely
<1>3. CASE RetryWake
  <2>1. retry' = [at |-> "scan", now |-> clock] /\ pending_acks' = pending_acks
    BY <1>3 DEF RetryWake
  <2> QED BY <2>1 DEF Timely, IInv, Types, TypeOK
<1>4. CASE /\ UNCHANGED retry
           /\ \A s \in DOMAIN pending_acks' :
                \/ s \in DOMAIN pending_acks /\ pending_acks'[s] = pending_acks[s]
                \/ pending_acks'[s].retry_count = 0
  BY <1>4 DEF Timely
<1>5. CASE StartClient \/ SendRegister \/ SendErase \/ handleAck
  <2>1. UNCHANGED retry
    BY <1>5 DEF StartClient, SendRegister, SendErase, handleAck
  <2>2. \/ pending_acks' = EmptyMap
        \/ \E s : pending_acks' = Erase(pending_acks, s)
        \/ pending_acks' = Put(pending_acks, next_seq, Request(clock, 0))
    BY <1>5 DEF StartClient, SendRegister, SendErase, handleAck
  <2>3. \A s \in DOMAIN pending_acks' :
          \/ s \in DOMAIN pending_acks /\ pending_acks'[s] = pending_acks[s]
          \/ pending_acks'[s].retry_count = 0
    <3>1. CASE pending_acks' = EmptyMap
      BY <3>1 DEF EmptyMap
    <3>2. ASSUME NEW s, pending_acks' = Erase(pending_acks, s)
          PROVE  \A t \in DOMAIN pending_acks' :
                   t \in DOMAIN pending_acks /\ pending_acks'[t] = pending_acks[t]
      BY <3>2 DEF Erase, Restrict
    <3>3. CASE pending_acks' = Put(pending_acks, next_seq, Request(clock, 0))
      BY <3>3 DEF Put, Request
    <3> QED BY <2>2, <3>1, <3>2, <3>3
  <2> QED BY <1>4, <2>1, <2>3
<1>6. CASE LoginWaitEnds \/ StopClientReturns \/ RetryScan \/ RetrySend
  <2>1. CASE LoginWaitEnds \/ StopClientReturns
    <3>1. UNCHANGED <<retry, pending_acks>> \/ retry'.at # "scan"
      BY <2>1 DEF LoginWaitEnds, StopClientReturns, At
    <3> QED BY <1>1, <1>2, <3>1
  <2>2. CASE RetryScan
    BY <1>2, <2>2 DEF RetryScan
  <2>3. CASE RetrySend
    <3>1. retry.at = "send" /\ retry \in [at : {"send"}, batch : SUBSET (1..MaxSeq)]
      BY <2>3 DEF RetrySend, IInv, Types, RetryType, At
    <3>2. \/ retry' \in {At("exited"), At("sleep")}
          \/ \E s \in retry.batch : retry' = [retry EXCEPT !.batch = @ \ {s}]
      BY <2>3 DEF RetrySend
    <3>3. retry'.at # "scan"
      BY <3>1, <3>2 DEF At
    <3> QED BY <1>2, <3>3
  <2> QED BY <1>6, <2>1, <2>2, <2>3
<1>7. CASE \/ StopClient \/ SendTransmit \/ handleLoginResponse \/ handleChatPush
           \/ ReceiverEnds \/ Tick \/ PeerCloses
  BY <1>1, <1>7 DEF StopClient, SendTransmit, handleLoginResponse, handleChatPush, ReceiverEnds,
    Tick, PeerCloses
<1>8. CASE UNCHANGED vars
  BY <1>1, <1>8 DEF vars
<1> QED BY <1>3, <1>5, <1>6, <1>7, <1>8 DEF Next, MainStep, RetryStep

\* The remainder of a difference that did not wrap is at most the difference.
LEMMA NoMoreThanPassed ==
  ASSUME NEW d \in Nat
  PROVE  d % TwoTo64 <= d
BY Constants

\* A request is dropped only after every retry was made and has timed out, for
\* any kMaxRetryCount but 0: only the first difference of times can wrap.
THEOREM ClientGivesUpInTime == Spec => GivenUpInTime
<1> DEFINE InTime ==
      retry.at = "scan" /\ retry' # retry =>
        \A s \in DOMAIN pending_acks \ DOMAIN pending_acks' :
          /\ pending_acks[s].retry_count = kMaxRetryCount
          /\ clock - pending_acks[s].last_send_ms >= retry_timeout(s)
<1>1. Init => Timely
  BY DEF Init, Timely, At
<1>2. ASSUME IInv, Timely, Next PROVE InTime
  <2> SUFFICES ASSUME retry.at = "scan", retry' # retry,
                      NEW s \in DOMAIN pending_acks \ DOMAIN pending_acks'
               PROVE  /\ pending_acks[s].retry_count = kMaxRetryCount
                      /\ clock - pending_acks[s].last_send_ms >= retry_timeout(s)
    OBVIOUS
  <2>1. RetryScan \/ pending_acks' = pending_acks
    BY <1>2 DEF Next, MainStep, RetryStep, StartClient, StopClient, SendRegister, LoginWaitEnds,
      StopClientReturns, SendTransmit, SendErase, handleLoginResponse, handleAck,
      handleChatPush, ReceiverEnds, RetryWake, RetrySend, Tick, PeerCloses
  <2>2. RetryScan
    BY <2>1
  <2>3. Waited(s, retry.now) >= retry_timeout(s) /\ GivenUp(s)
    BY <2>2 DEF RetryScan, Without
  <2>4. /\ pending_acks[s].retry_count \in 0..kMaxRetryCount
        /\ pending_acks[s].last_send_ms \in 1..clock /\ clock \in Nat
    BY <1>2 DEF IInv, Types, TypeOK
  <2>5. retry.now \in 1..clock
    BY <1>2 DEF IInv, Types, RetryType, At
  <2>6. pending_acks[s].retry_count = kMaxRetryCount /\ pending_acks[s].retry_count > 0
    BY <2>3, <2>4, Constants DEF GivenUp
  <2>7. pending_acks[s].last_send_ms <= retry.now
    BY <1>2, <2>6 DEF Timely
  <2>8. Waited(s, retry.now) <= retry.now - pending_acks[s].last_send_ms
    <3>1. retry.now - pending_acks[s].last_send_ms \in Nat
      BY <2>4, <2>5, <2>7
    <3> QED BY <3>1, NoMoreThanPassed DEF Waited
  <2>9. Waited(s, retry.now) \in Int /\ retry_timeout(s) \in Nat
    BY <2>4, <2>5, Constants DEF Waited, retry_timeout
  <2> QED BY <2>3, <2>4, <2>5, <2>6, <2>8, <2>9
<1>3. IInv /\ Timely /\ [Next]_vars => [InTime]_vars
  BY <1>2
<1>4. Spec => []Timely
  BY <1>1, TimelyStep, ClientInductive, PTL DEF Spec
<1> QED BY <1>3, <1>4, ClientInductive, PTL DEF Spec, GivenUpInTime

=============================================================================
