------------------------------- MODULE Client -------------------------------
(***************************************************************************)
(* client/src/Client.cpp: one user's connection.  The thread that uses the *)
(* object starts and stops it and sends messages; a receiver thread        *)
(* handles what the server sends; a retry thread retransmits requests that *)
(* are not acknowledged.  A critical section or a call of send() is one    *)
(* step.  The server may answer any transmission, at any time, or close    *)
(* the connection.  Time is counted in units of kBaseRetryTimeoutMs; the   *)
(* retry thread sleeps for less than one unit.                             *)
(***************************************************************************)
EXTENDS Integers, Maps

CONSTANTS
  kMaxRetryCount,
  TwoTo64,        \* number of values of uint64_t; times stay far below it
  MaxSeq,         \* bound on requests
  MaxStarts,      \* bound on calls of startClient
  MaxIdleClock,   \* up to here the clock advances although nothing is pending
  MsgId           \* messages that the server pushes

ASSUME ClientAssumption ==
  /\ {kMaxRetryCount, TwoTo64} \subseteq Nat \ {0}
  /\ {MaxSeq, MaxStarts, MaxIdleClock} \subseteq Nat

VARIABLES
  clock, starts,
  stop,            \* the atomic flag
  sock,            \* "none", "open", or "down": shut down or closed by the peer
  login,           \* "waiting", "ok" or "failed": login_done and login_ok
  pending_acks,    \* seq -> [last_send_ms, retry_count]
  next_seq,
  main,            \* the user's thread
  receiver,        \* "none", "running" or "exited"
  retry,           \* the retry thread
  message_queue,   \* messages taken in
  confirmed,       \* messages whose push was acknowledged to the server
  sent,            \* seq -> transmissions of the request (history)
  acked            \* requests whose ACK was handled (history)

vars == <<clock, starts, stop, sock, login, pending_acks, next_seq, main,
          receiver, retry, message_queue, confirmed, sent, acked>>
pushVars == <<message_queue, confirmed>>
history == <<sent, acked>>

At(where) == [at |-> where]

Init ==
  /\ clock = 1 /\ starts = 0
  /\ stop = FALSE /\ sock = "none" /\ login = "failed"
  /\ pending_acks = EmptyMap
  /\ next_seq = 1
  /\ main = At("out") /\ receiver = "none" /\ retry = At("none")
  /\ message_queue = {} /\ confirmed = {}
  /\ sent = [s \in 1..MaxSeq |-> 0] /\ acked = {}

Count(s) == [sent EXCEPT ![s] = @ + 1]

-----------------------------------------------------------------------------
(* startClient and stopClient *)

\* Reset, connect, start the receiver and send LOGIN_REQ.  Connecting fails,
\* sending fails, or the wait for LOGIN_RESP begins.
StartClient ==
  /\ main = At("out") /\ starts < MaxStarts
  /\ starts' = starts + 1
  /\ stop' = FALSE
  /\ login' = "waiting"
  /\ pending_acks' = EmptyMap
  /\ \/ UNCHANGED <<sock, receiver, main>>
     \/ /\ sock' = "open" /\ receiver' = "running"
        /\ \E where \in {"stop", "login"} : main' = At(where)
  /\ UNCHANGED <<clock, next_seq, retry, pushVars, history>>

\* The wait ends with a result or, after 10 s, without one.
LoginWaitEnds ==
  /\ main = At("login")
  /\ \/ login = "ok" /\ main' = At("ready") /\ retry' = At("sleep")
     \/ login # "ok" /\ main' = At("stop") /\ UNCHANGED retry
  /\ UNCHANGED <<clock, starts, stop, sock, login, pending_acks, next_seq,
                 receiver, pushVars, history>>

StopClient ==
  /\ main \in {At("ready"), At("stop")}
  /\ stop' = TRUE
  /\ sock' = "down"
  /\ main' = At("join")
  /\ UNCHANGED <<clock, starts, login, pending_acks, next_seq, receiver, retry,
                 pushVars, history>>

\* Both joins have returned; the socket is closed.
StopClientReturns ==
  /\ main = At("join") /\ receiver = "exited" /\ retry \in {At("none"), At("exited")}
  /\ sock' = "none"
  /\ main' = At("out") /\ receiver' = "none" /\ retry' = At("none")
  /\ UNCHANGED <<clock, starts, stop, login, pending_acks, next_seq, pushVars, history>>

-----------------------------------------------------------------------------
(* sendMessage *)

Request(last, count) == [last_send_ms |-> last, retry_count |-> count]

\* The request is entered in pending_acks before it is sent.
SendRegister ==
  /\ main = At("ready") /\ ~stop /\ login = "ok" /\ next_seq <= MaxSeq
  /\ next_seq' = next_seq + 1
  /\ pending_acks' = Put(pending_acks, next_seq, Request(clock, 0))
  /\ main' = [at |-> "send", seq |-> next_seq]
  /\ UNCHANGED <<clock, starts, stop, sock, login, receiver, retry, pushVars, history>>

\* A slip of SendTransmit: the entry is made after sending.
SendTransmit_Registers ==
  /\ main.at = "send"
  /\ \/ /\ sent' = Count(main.seq)
        /\ pending_acks' = Put(pending_acks, main.seq, Request(clock, 0))
        /\ main' = At("ready")
     \/ /\ sock = "down" /\ UNCHANGED <<sent, pending_acks>>
        /\ main' = [at |-> "unsent", seq |-> main.seq]
  /\ UNCHANGED <<clock, starts, stop, sock, login, next_seq, receiver, retry,
                 pushVars, acked>>

\* send() on a connection that is down may still succeed; nobody reads it.
SendTransmit ==
  /\ main.at = "send"
  /\ \/ sent' = Count(main.seq) /\ main' = At("ready")
     \/ sock = "down" /\ UNCHANGED sent /\ main' = [at |-> "unsent", seq |-> main.seq]
  /\ UNCHANGED <<clock, starts, stop, sock, login, pending_acks, next_seq, receiver,
                 retry, pushVars, acked>>

SendErase ==
  /\ main.at = "unsent"
  /\ pending_acks' = Erase(pending_acks, main.seq)
  /\ main' = At("ready")
  /\ UNCHANGED <<clock, starts, stop, sock, login, next_seq, receiver, retry,
                 pushVars, history>>

-----------------------------------------------------------------------------
(* receiverLoop: one envelope, or the end of the connection.               *)

\* The receiver looks at stop only between two reads: what it has read already,
\* and what arrived before the connection went down, it still handles.
Receiving == receiver = "running"

\* The server answers LOGIN_REQ once, possibly after startClient gave up.
handleLoginResponse ==
  /\ Receiving /\ login = "waiting"
  /\ login' \in {"ok", "failed"}
  /\ UNCHANGED <<clock, starts, stop, sock, pending_acks, next_seq, main, receiver,
                 retry, pushVars, history>>

\* An ACK, positive or not, answers one of the transmissions.
handleAck ==
  /\ Receiving
  /\ \E s \in {x \in 1..MaxSeq : sent[x] > 0} :
       /\ pending_acks' = Erase(pending_acks, s)
       /\ acked' = acked \cup {s}
  /\ UNCHANGED <<clock, starts, stop, sock, login, next_seq, main, receiver, retry,
                 pushVars, sent>>

\* A slip of handleChatPush: the ACK goes out before the login state is checked.
handleChatPush_AcksFirst ==
  /\ Receiving
  /\ \E m \in MsgId, is_history \in BOOLEAN :
       /\ message_queue' = IF login = "ok" THEN message_queue \cup {m} ELSE message_queue
       /\ confirmed' = IF is_history THEN confirmed ELSE confirmed \cup {m}
  /\ UNCHANGED <<clock, starts, stop, sock, login, pending_acks, next_seq, main,
                 receiver, retry, history>>

\* A push before the login succeeded is dropped.  Any other is taken in and,
\* unless it is history, acknowledged.
handleChatPush ==
  /\ Receiving /\ login = "ok"
  /\ \E m \in MsgId, is_history \in BOOLEAN :
       /\ message_queue' = message_queue \cup {m}
       /\ confirmed' = IF is_history THEN confirmed ELSE confirmed \cup {m}
  /\ UNCHANGED <<clock, starts, stop, sock, login, pending_acks, next_seq, main,
                 receiver, retry, history>>

\* The server or stopClient closed the connection, a read failed, or a frame
\* was invalid; failPendingLogin ends a wait for LOGIN_RESP.
ReceiverEnds ==
  /\ receiver = "running"
  /\ stop' = TRUE
  /\ sock' = "down"
  /\ receiver' = "exited"
  /\ login' = IF login = "waiting" THEN "failed" ELSE login
  /\ UNCHANGED <<clock, starts, pending_acks, next_seq, main, retry, pushVars, history>>

-----------------------------------------------------------------------------
(* retryLoop *)

\* The time is read before the mutex is taken.
RetryWake ==
  /\ retry = At("sleep")
  /\ retry' = [at |-> "scan", now |-> clock]
  /\ UNCHANGED <<clock, starts, stop, sock, login, pending_acks, next_seq, main,
                 receiver, pushVars, history>>

retry_timeout(s) == pending_acks[s].retry_count + 1

\* The difference is unsigned: it is huge if the request is younger than now.
Waited(s, now) == (now - pending_acks[s].last_send_ms) % TwoTo64

\* A slip of GivenUp: the last retry is not made.
GivenUp_Early(s) == pending_acks[s].retry_count + 1 >= kMaxRetryCount

GivenUp(s) == pending_acks[s].retry_count >= kMaxRetryCount

\* A slip of Again: the retry is not counted.
Again_NotCounted(s, now) == Request(now, pending_acks[s].retry_count)

Again(s, now) == Request(now, pending_acks[s].retry_count + 1)

\* A slip of Without: what is given up stays in the table.
Without_Nothing(dead) == DOMAIN pending_acks

Without(dead) == DOMAIN pending_acks \ dead

RetryScan ==
  LET now   == retry.now
      due   == {s \in DOMAIN pending_acks : Waited(s, now) >= retry_timeout(s)}
      again == {s \in due : ~GivenUp(s)}
  IN  /\ retry.at = "scan"
      /\ pending_acks' = [s \in Without(due \ again) |->
                            IF s \in again THEN Again(s, now) ELSE pending_acks[s]]
      /\ retry' = [at |-> "send", batch |-> again]
      /\ UNCHANGED <<clock, starts, stop, sock, login, next_seq, main, receiver,
                     pushVars, sent, acked>>

\* A slip of LoopEnds: the loop does not look at stop.
LoopEnds_Never == FALSE

LoopEnds == stop

\* Outside the mutex, unless the client is stopped; a failed send stops it.
RetrySend ==
  /\ retry.at = "send"
  /\ \/ /\ retry.batch = {}
        /\ retry' = At(IF LoopEnds THEN "exited" ELSE "sleep")
        /\ UNCHANGED <<stop, sent>>
     \/ /\ retry.batch # {} /\ stop
        /\ retry' = At("exited")
        /\ UNCHANGED <<stop, sent>>
     \/ /\ ~stop
        /\ \E s \in retry.batch :
             retry' = [retry EXCEPT !.batch = @ \ {s}] /\ sent' = Count(s)
        /\ UNCHANGED stop
     \/ /\ ~stop /\ retry.batch # {} /\ sock = "down"
        /\ retry' = At("exited") /\ stop' = TRUE
        /\ UNCHANGED sent
  /\ UNCHANGED <<clock, starts, sock, login, pending_acks, next_seq, main, receiver,
                 pushVars, acked>>

-----------------------------------------------------------------------------
Tick ==
  /\ \/ clock < MaxIdleClock
     \/ \E s \in DOMAIN pending_acks :
          clock - pending_acks[s].last_send_ms < retry_timeout(s)
  /\ clock' = clock + 1
  /\ UNCHANGED <<starts, stop, sock, login, pending_acks, next_seq, main, receiver,
                 retry, pushVars, history>>

\* The peer closes the connection.
PeerCloses ==
  /\ sock = "open"
  /\ sock' = "down"
  /\ UNCHANGED <<clock, starts, stop, login, pending_acks, next_seq, main, receiver,
                 retry, pushVars, history>>

MainStep == LoginWaitEnds \/ StopClientReturns \/ SendTransmit \/ SendErase
RetryStep == RetryWake \/ RetryScan \/ RetrySend

Next ==
  \/ StartClient \/ StopClient \/ SendRegister \/ MainStep
  \/ handleLoginResponse \/ handleAck \/ handleChatPush \/ ReceiverEnds
  \/ RetryStep
  \/ Tick \/ PeerCloses

Spec == Init /\ [][Next]_vars

\* Threads that can run do run, time goes on, and recv() returns on a
\* connection that is down.  The server owes no answer, and nobody has to
\* start, stop or send.
FairSpec ==
  /\ Spec
  /\ WF_vars(MainStep)
  /\ WF_vars(RetryStep)
  /\ WF_vars(sock = "down" /\ ReceiverEnds)
  /\ WF_vars(Tick)

-----------------------------------------------------------------------------
TypeOK ==
  /\ clock \in Nat /\ starts \in 0..MaxStarts
  /\ stop \in BOOLEAN
  /\ sock \in {"none", "open", "down"}
  /\ login \in {"waiting", "ok", "failed"}
  /\ DOMAIN pending_acks \subseteq 1..(next_seq - 1)
  /\ \A s \in DOMAIN pending_acks :
       pending_acks[s] \in [last_send_ms : 1..clock, retry_count : 0..kMaxRetryCount]
  /\ next_seq \in 1..(MaxSeq + 1)
  /\ main.at \in {"out", "login", "ready", "stop", "join", "send", "unsent"}
  /\ receiver \in {"none", "running", "exited"}
  /\ retry.at \in {"none", "sleep", "scan", "send", "exited"}
  /\ message_queue \cup confirmed \subseteq MsgId

\* A request is on the wire at most 1 + kMaxRetryCount times, whatever the
\* order of the two threads that send it.
SendBound == \A s \in 1..MaxSeq : sent[s] <= 1 + kMaxRetryCount

\* The ACK settles a request: it is not in pending_acks any more and never
\* returns there, so no later scan retransmits it.  This is why sendMessage
\* registers before it sends.
AckedIsSettled == acked \cap DOMAIN pending_acks = {}

\* The receiver acknowledges what it took in and nothing else: the server
\* never sends an acknowledged message again, so a push that is dropped
\* before the login completes must not be acknowledged.
ConfirmedWasTaken == confirmed \subseteq message_queue

\* The retry thread never gives a request up early: all its retries were made
\* and the timeout of the last one has passed.  The wrapped difference of times,
\* which may retransmit a new request at once, must not drop it.
GivenUpInTime ==
  [][retry.at = "scan" /\ retry' # retry =>
       \A s \in DOMAIN pending_acks \ DOMAIN pending_acks' :
         /\ pending_acks[s].retry_count = kMaxRetryCount
         /\ clock - pending_acks[s].last_send_ms >= retry_timeout(s)]_vars

\* No request stays in pending_acks for ever: it is acknowledged, given up,
\* or the connection ends, even if the server never answers.
RequestSettles ==
  \A s \in 1..MaxSeq : s \in DOMAIN pending_acks ~> s \notin DOMAIN pending_acks \/ stop

\* stopClient returns: both threads notice that they must end.
StopClientEnds == main = At("join") ~> main = At("out")

\* "Scan pending_acks and retransmit requests that timed out": a request is
\* retransmitted only when its timeout has passed since it was last sent.
RetriesOnlyTimedOut ==
  [][\A s \in DOMAIN pending_acks \cap DOMAIN pending_acks' :
       pending_acks'[s].retry_count > pending_acks[s].retry_count =>
         clock - pending_acks[s].last_send_ms >= retry_timeout(s)]_vars

\* "A failed write means that the server cannot have handled the request":
\* when sendMessage fails, the server has not answered the request.
FailedSendNotHandled == main.at = "unsent" => main.seq \notin acked

=============================================================================
