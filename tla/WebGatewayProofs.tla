-------------------------- MODULE WebGatewayProofs --------------------------
(***************************************************************************)
(* Proofs about WebGateway, for any set of sessions, users and messages.   *)
(* The inductive invariant is split by what the callbacks touch: the       *)
(* session tables with the sockets, and the traffic of messages.           *)
(***************************************************************************)
EXTENDS WebGateway, SequenceTheorems, TLAPS

\* A socket that is usable, or that the gateway believes connected, belongs to
\* a session that is still in imClientsBySessionId.
SocketOwned ==
  /\ connected \subseteq imClients
  /\ \A s \in Session : tcp[s] \in {"connecting", "up"} => s \in imClients

Tables ==
  /\ ws \in [Session -> {"none", "open", "closing", "closed"}]
  /\ tcp \in [Session -> {"none", "connecting", "up", "ended", "gone"}]
  /\ connected \cup awaiting \cup imClients \cup sessionsById \subseteq Session
  /\ DOMAIN sessionsByUid \subseteq Uid
  /\ \A u \in DOMAIN sessionsByUid : sessionsByUid[u] \in Session /\ UidOf[sessionsByUid[u]] = u
  /\ SessionTablesAgree /\ ClosedSessionForgotten /\ SocketOwned

Envelope ==
  [type : {"login_resp"}] \cup [type : {"ack"}, id : ClientMsgId]
    \cup [type : {"push"}, id : MsgId, history : BOOLEAN]
Page ==
  [asked : SUBSET ClientMsgId, answered : SUBSET ClientMsgId,
   seen : SUBSET MsgId, toAck : SUBSET MsgId]

\* A browser acknowledges what it has seen.
Traffic ==
  /\ pendingSends \in [Session -> SUBSET ClientMsgId]
  /\ pushSeqByMsgId \in [Session -> SUBSET MsgId]
  /\ requests \in [Session -> SUBSET ClientMsgId]
  /\ data \in [Session -> Seq(Envelope)]
  /\ page \in [Session -> Page]
  /\ \A s \in Session : page[s].toAck \subseteq page[s].seen
  /\ AckedWasSeen

IInv == Tables /\ Traffic

tableVars == <<ws, tcp, connected, awaiting, imClients, sessionsByUid, sessionsById>>

-----------------------------------------------------------------------------
LEMMA UidOfType == \A s \in Session : UidOf[s] \in Uid
BY GatewayAssumption

LEMMA GatewayInit == Init => IInv
<1> SUFFICES ASSUME Init PROVE IInv
  OBVIOUS
<1>1. Tables
  BY DEF Init, Tables, EmptyMap, SessionTablesAgree, ClosedSessionForgotten, SocketOwned, Range
<1>2. Traffic
  BY DEF Init, Traffic, NewPage, Page, AckedWasSeen
<1> QED BY <1>1, <1>2 DEF IInv

\* remove() takes the session, and nothing else, out of both tables.
LEMMA RemovedFacts ==
  ASSUME Tables, NEW s \in Session
  PROVE  /\ Range(Removed(s)) = sessionsById \ {s}
         /\ DOMAIN Removed(s) \subseteq DOMAIN sessionsByUid
         /\ \A u \in DOMAIN Removed(s) : Removed(s)[u] = sessionsByUid[u]
         /\ \A u \in DOMAIN sessionsByUid : sessionsByUid[u] # s => u \in DOMAIN Removed(s)
<1>1. /\ DOMAIN Removed(s) \subseteq DOMAIN sessionsByUid
      /\ \A u \in DOMAIN Removed(s) : Removed(s)[u] = sessionsByUid[u] /\ sessionsByUid[u] # s
      /\ \A u \in DOMAIN sessionsByUid : sessionsByUid[u] # s => u \in DOMAIN Removed(s)
  BY DEF Tables, Removed, Erase, Restrict
<1> QED BY <1>1 DEF Range, Tables, SessionTablesAgree

\* cleanupSession, when the WebSocket is not left open.
LEMMA Cleanup ==
  ASSUME Tables, NEW s \in Session, cleanupSession(s), awaiting' \in {awaiting, awaiting \ {s}},
         \E st \in {ws[s], "closing", "closed"} : ws' = [ws EXCEPT ![s] = st]
  PROVE  Tables'
<1>1. /\ sessionsByUid' = Removed(s) /\ sessionsById' = sessionsById \ {s}
      /\ imClients' = imClients \ {s} /\ connected' = connected \ {s}
      /\ tcp' = [tcp EXCEPT ![s] = IF @ \in {"connecting", "up"} THEN "ended" ELSE @]
  <2>1. s \notin imClients => connected \ {s} = connected /\ tcp[s] \notin {"connecting", "up"}
    BY DEF Tables, SocketOwned
  <2>2. (s \in imClients /\ tcp[s] \in {"connecting", "up"}) = (tcp[s] \in {"connecting", "up"})
    BY <2>1
  <2>3. tcp' = [tcp EXCEPT ![s] = IF tcp[s] \in {"connecting", "up"} THEN "ended" ELSE tcp[s]]
    BY <2>2 DEF cleanupSession, Destroyed
  <2> QED BY <2>1, <2>3 DEF cleanupSession
<1>2. SessionTablesAgree'
  BY <1>1, RemovedFacts DEF Tables, SessionTablesAgree
<1>3. SocketOwned'
  BY <1>1 DEF Tables, SocketOwned
<1>4. ClosedSessionForgotten'
  BY <1>1 DEF Tables, ClosedSessionForgotten
<1>5. /\ DOMAIN sessionsByUid' \subseteq Uid
      /\ \A u \in DOMAIN sessionsByUid' : sessionsByUid'[u] \in Session /\ UidOf[sessionsByUid'[u]] = u
  BY <1>1, RemovedFacts DEF Tables
<1> QED BY <1>1, <1>2, <1>3, <1>4, <1>5 DEF Tables

\* add() registers the session in the place of an older one of its user.
LEMMA Register ==
  ASSUME Tables, NEW s \in Session, s \in imClients, isOpen(s), Add(s),
         awaiting' = awaiting \ {s}, UNCHANGED <<imClients, tcp, connected>>
  PROVE  Tables'
<1>1. /\ sessionsByUid' = Put(sessionsByUid, UidOf[s], s)
      /\ sessionsById' = (sessionsById \ Replaced(s)) \cup {s}
      /\ ws' = [x \in Session |-> IF x \in Replaced(s) /\ ws[x] = "open" THEN "closing" ELSE ws[x]]
  BY DEF Add
<1>2. /\ DOMAIN sessionsByUid' = DOMAIN sessionsByUid \cup {UidOf[s]}
      /\ sessionsByUid'[UidOf[s]] = s
      /\ \A u \in DOMAIN sessionsByUid \ {UidOf[s]} : sessionsByUid'[u] = sessionsByUid[u]
  BY <1>1 DEF Put
<1>3. Range(sessionsByUid') = (Range(sessionsByUid) \ Replaced(s)) \cup {s}
  BY <1>2 DEF Range, Replaced, Tables
<1>4. SessionTablesAgree' /\ SocketOwned'
  BY <1>1, <1>3 DEF Tables, SessionTablesAgree, SocketOwned
<1>5. ClosedSessionForgotten'
  BY <1>1 DEF Tables, ClosedSessionForgotten, isOpen
<1>6. /\ DOMAIN sessionsByUid' \subseteq Uid
      /\ \A u \in DOMAIN sessionsByUid' : sessionsByUid'[u] \in Session /\ UidOf[sessionsByUid'[u]] = u
  BY <1>2, UidOfType DEF Tables
<1>7. ws' \in [Session -> {"none", "open", "closing", "closed"}] /\ sessionsById' \subseteq Session
  BY <1>1 DEF Tables
<1> QED BY <1>4, <1>5, <1>6, <1>7 DEF Tables

\* The callbacks that change the tables or the sockets keep them in order.
LEMMA TablesStep ==
  ASSUME IInv, NEW s \in Session,
         \/ handleUpgrade(s) \/ ImConnect(s) \/ ImDecodeFails(s) \/ ImClose(s) \/ WsClose(s)
         \/ handleLoginResponse(s) \/ TcpEnds(s)
  PROVE  Tables'
<1> USE DEF IInv
<1>1. CASE handleUpgrade(s)
  <2>1. /\ ws[s] = "none" /\ ws' = [ws EXCEPT ![s] = "open"]
        /\ tcp' = [tcp EXCEPT ![s] = "connecting"] /\ imClients' = imClients \cup {s}
        /\ awaiting' = awaiting \cup {s} /\ UNCHANGED <<connected, sessionsByUid, sessionsById>>
    BY <1>1 DEF handleUpgrade
  <2> QED BY <2>1 DEF Tables, SessionTablesAgree, ClosedSessionForgotten, SocketOwned
<1>2. CASE ImConnect(s)
  <2>1. /\ tcp[s] = "connecting" /\ tcp' = [tcp EXCEPT ![s] = "up"]
        /\ connected' = connected \cup {s}
        /\ UNCHANGED <<ws, awaiting, imClients, sessionsByUid, sessionsById>>
    BY <1>2 DEF ImConnect, gatewayVars
  <2> QED BY <2>1 DEF Tables, SessionTablesAgree, ClosedSessionForgotten, SocketOwned
<1>3. CASE ImDecodeFails(s) /\ s \in awaiting
  BY <1>3, Cleanup DEF ImDecodeFails
<1>4. CASE ImDecodeFails(s) /\ s \notin awaiting
  <2>1. /\ tcp' = [tcp EXCEPT ![s] = "ended"] /\ connected' = connected \ {s}
        /\ awaiting' = awaiting \ {s}
        /\ UNCHANGED <<ws, imClients, sessionsByUid, sessionsById>>
    BY <1>4 DEF ImDecodeFails
  <2> QED BY <2>1 DEF Tables, SessionTablesAgree, ClosedSessionForgotten, SocketOwned
<1>5. CASE ImClose(s) /\ s \in awaiting
  <2>1. /\ ws' = [ws EXCEPT ![s] = IF @ = "open" THEN "closing" ELSE @]
        /\ tcp' = [tcp EXCEPT ![s] = "gone"] /\ connected' = connected \ {s}
        /\ awaiting' = awaiting \ {s} /\ imClients' = imClients \ {s}
        /\ sessionsByUid' = Removed(s) /\ sessionsById' = sessionsById \ {s}
    BY <1>5 DEF ImClose
  <2>2. SessionTablesAgree'
    BY <2>1, RemovedFacts DEF Tables, SessionTablesAgree
  <2>3. SocketOwned' /\ ClosedSessionForgotten'
    BY <2>1 DEF Tables, SocketOwned, ClosedSessionForgotten
  <2>4. /\ DOMAIN sessionsByUid' \subseteq Uid
        /\ \A u \in DOMAIN sessionsByUid' : sessionsByUid'[u] \in Session /\ UidOf[sessionsByUid'[u]] = u
    BY <2>1, RemovedFacts DEF Tables
  <2> QED BY <2>1, <2>2, <2>3, <2>4 DEF Tables
<1>6. CASE ImClose(s) /\ s \notin awaiting
  <2>1. /\ ws' = [ws EXCEPT ![s] = IF @ = "open" THEN "closing" ELSE @]
        /\ tcp' = [tcp EXCEPT ![s] = "gone"] /\ connected' = connected \ {s}
        /\ awaiting' = awaiting \ {s} /\ UNCHANGED <<imClients, sessionsByUid, sessionsById>>
    BY <1>6 DEF ImClose
  <2> QED BY <2>1 DEF Tables, SessionTablesAgree, ClosedSessionForgotten, SocketOwned
<1>7. CASE WsClose(s)
  BY <1>7, Cleanup DEF WsClose
<1>8. CASE handleLoginResponse(s)
  <2>1. s \in imClients
    BY <1>8 DEF handleLoginResponse, Reads, Tables, SocketOwned
  <2>2. CASE isOpen(s)
    BY <1>8, <2>1, <2>2, Register DEF handleLoginResponse
  <2>3. CASE ~isOpen(s)
    <3>1. ws' = [ws EXCEPT ![s] = ws[s]]
      BY <1>8, <2>3 DEF handleLoginResponse, Tables
    <3> QED BY <1>8, <2>3, <3>1, Cleanup DEF handleLoginResponse
  <2> QED BY <2>2, <2>3
<1>9. CASE TcpEnds(s)
  <2>1. /\ tcp' = [tcp EXCEPT ![s] = "ended"]
        /\ UNCHANGED <<ws, connected, awaiting, imClients, sessionsByUid, sessionsById>>
    BY <1>9 DEF TcpEnds, gatewayVars
  <2> QED BY <2>1 DEF Tables, SessionTablesAgree, ClosedSessionForgotten, SocketOwned
<1> QED BY <1>1, <1>2, <1>3, <1>4, <1>5, <1>6, <1>7, <1>8, <1>9

\* The other callbacks and the server leave the tables alone, unless an ACK ends
\* the process and with it every session.
LEMMA TablesKept ==
  ASSUME IInv, NEW s \in Session,
         \/ handleAck(s) \/ handleChatPush(s) \/ ServerStep(s)
         \/ \E cid \in ClientMsgId, valid \in BOOLEAN : handleSendMessage(s, cid, valid)
         \/ \E m \in MsgId : handleMessageAck(s, m)
         \/ \E m \in MsgId, history \in BOOLEAN : ServerPush(s, m, history)
  PROVE  Tables'
<1>1. CASE UNCHANGED tableVars
  BY <1>1 DEF IInv, tableVars, Tables, SessionTablesAgree, ClosedSessionForgotten, SocketOwned
<1>2. CASE Crash
  BY <1>2 DEF IInv, Crash, Tables, SessionTablesAgree, ClosedSessionForgotten, SocketOwned,
    EmptyMap, Range
<1>3. Crash \/ UNCHANGED tableVars
  BY DEF handleAck, handleChatPush, handleSendMessage, handleMessageAck, ServerStep, ServerBind,
    ServerLogin, ServerReply, ServerClosed, ServerPush, gatewayVars, tableVars
<1> QED BY <1>1, <1>2, <1>3

\* What the gateway reads is an envelope of the type it looked for.
LEMMA ReadsFacts ==
  ASSUME IInv, NEW s \in Session, NEW type, Reads(s, type)
  PROVE  /\ Head(data[s]) \in Envelope /\ Head(data[s]).type = type
         /\ data' \in [Session -> Seq(Envelope)]
<1>1. data[s] \in Seq(Envelope) /\ data[s] # <<>>
  BY DEF IInv, Traffic, Reads
<1>2. Head(data[s]) \in Envelope /\ Tail(data[s]) \in Seq(Envelope)
  BY <1>1, HeadTailProperties
<1> QED BY <1>2 DEF Reads, IInv, Traffic

\* What the server sends extends what the gateway has still to read.
LEMMA DeliverFacts ==
  ASSUME IInv, NEW s \in Session, NEW e \in Envelope, data' = Deliver(s, e)
  PROVE  data' \in [Session -> Seq(Envelope)]
<1>1. Append(data[s], e) \in Seq(Envelope)
  BY AppendProperties DEF IInv, Traffic
<1> QED BY <1>1 DEF Deliver, IInv, Traffic

\* A step of session s that keeps the types, adds to the ACKs only what its page
\* has seen and forgets nothing seen keeps the traffic in order.
LEMMA TrafficKept ==
  ASSUME IInv, NEW s \in Session, NEW new \in Page,
         page' = [page EXCEPT ![s] = new], page[s].seen \subseteq new.seen, new.toAck \subseteq new.seen,
         ackedAtServer' \subseteq ackedAtServer \cup page[s].toAck,
         pendingSends' \in [Session -> SUBSET ClientMsgId],
         pushSeqByMsgId' \in [Session -> SUBSET MsgId],
         requests' \in [Session -> SUBSET ClientMsgId],
         data' \in [Session -> Seq(Envelope)]
  PROVE  Traffic'
<1>1. page' \in [Session -> Page] /\ \A x \in Session : page'[x].toAck \subseteq page'[x].seen
  BY DEF IInv, Traffic
<1>2. \A x \in Session : page[x].seen \subseteq page'[x].seen
  BY DEF IInv, Traffic
<1>3. AckedWasSeen'
  BY <1>2 DEF IInv, Traffic, AckedWasSeen
<1> QED BY <1>1, <1>3 DEF Traffic

\* An answer to the browser changes nothing of what its page has seen.
LEMMA AnsweredFacts ==
  ASSUME IInv, NEW s \in Session, NEW cid \in ClientMsgId
  PROVE  \E new \in Page : /\ Answered(s, cid) = [page EXCEPT ![s] = new]
                           /\ new.seen = page[s].seen /\ new.toAck = page[s].toAck
<1> DEFINE new == [page[s] EXCEPT !.answered = IF isOpen(s) THEN @ \cup {cid} ELSE @]
<1>1. page[s] \in Page
  BY DEF IInv, Traffic
<1>2. new \in Page /\ new.seen = page[s].seen /\ new.toAck = page[s].toAck
  BY <1>1 DEF Page
<1>3. Answered(s, cid) = [page EXCEPT ![s] = new]
  BY DEF Answered
<1> HIDE DEF new
<1> QED BY <1>2, <1>3

\* A table of messages per session, with or without one more of them.
LEMMA Grows ==
  ASSUME NEW f \in [Session -> SUBSET ClientMsgId], NEW s \in Session, NEW cid \in ClientMsgId
  PROVE  /\ [f EXCEPT ![s] = @] \in [Session -> SUBSET ClientMsgId]
         /\ [f EXCEPT ![s] = @ \cup {cid}] \in [Session -> SUBSET ClientMsgId]
OBVIOUS

\* The steps of a session keep the traffic in order.
LEMMA TrafficStep ==
  ASSUME IInv, NEW s \in Session,
         \/ handleAck(s) \/ handleChatPush(s)
         \/ \E cid \in ClientMsgId, valid \in BOOLEAN : handleSendMessage(s, cid, valid)
         \/ \E m \in MsgId : handleMessageAck(s, m)
         \/ WsClose(s)
  PROVE  Traffic'
<1> USE DEF IInv
<1>0. page[s] \in Page /\ page[s].toAck \subseteq page[s].seen /\ page = [page EXCEPT ![s] = page[s]]
  BY DEF Traffic
<1>1. CASE handleAck(s)
  <2> DEFINE cid == Head(data[s]).id
  <2>1. /\ Reads(s, "ack") /\ UNCHANGED <<pushSeqByMsgId, requests, ackedAtServer>>
        /\ pendingSends' = [pendingSends EXCEPT ![s] = @ \ {cid}]
        /\ page' = IF cid \in pendingSends[s] THEN Answered(s, cid) ELSE page
    BY <1>1 DEF handleAck, serverVars
  <2>2. cid \in ClientMsgId /\ data' \in [Session -> Seq(Envelope)]
    BY <2>1, ReadsFacts DEF Envelope
  <2>3. PICK new \in Page : /\ page' = [page EXCEPT ![s] = new]
                            /\ new.seen = page[s].seen /\ new.toAck = page[s].toAck
    BY <1>0, <2>1, <2>2, AnsweredFacts
  <2>4. pendingSends' \in [Session -> SUBSET ClientMsgId]
    BY <2>1 DEF Traffic
  <2>5. pushSeqByMsgId' \in [Session -> SUBSET MsgId] /\ requests' \in [Session -> SUBSET ClientMsgId]
    BY <2>1 DEF Traffic
  <2> QED BY <1>0, <2>1, <2>2, <2>3, <2>4, <2>5, TrafficKept
<1>2. CASE handleChatPush(s)
  <2>1. PICK m, fresh : m = Head(data[s]).id /\ fresh = IF Head(data[s]).history THEN {} ELSE {m}
    OBVIOUS
  <2> DEFINE new == IF isOpen(s) THEN [page[s] EXCEPT !.seen = @ \cup {m}, !.toAck = @ \cup fresh]
                    ELSE page[s]
  <2>2. /\ Reads(s, "push") /\ UNCHANGED <<pendingSends, requests, ackedAtServer>>
        /\ pushSeqByMsgId' = [pushSeqByMsgId EXCEPT ![s] = @ \cup fresh]
        /\ page' = IF isOpen(s) THEN [page EXCEPT ![s].seen = @ \cup {m}, ![s].toAck = @ \cup fresh]
                                ELSE page
    BY <1>2, <2>1 DEF handleChatPush, serverVars
  <2>3. m \in MsgId /\ fresh \subseteq {m} /\ data' \in [Session -> Seq(Envelope)]
    BY <2>1, <2>2, ReadsFacts DEF Envelope
  <2>4. /\ new \in Page /\ page' = [page EXCEPT ![s] = new]
        /\ page[s].seen \subseteq new.seen /\ new.toAck \subseteq new.seen
    <3>1. CASE isOpen(s)
      <4>1. /\ new = [page[s] EXCEPT !.seen = @ \cup {m}, !.toAck = @ \cup fresh]
            /\ new.seen = page[s].seen \cup {m} /\ new.toAck = page[s].toAck \cup fresh
            /\ new \in Page
        BY <1>0, <2>3, <3>1 DEF Page
      <4>2. page' = [page EXCEPT ![s] = new]
        BY <1>0, <2>2, <3>1, <4>1 DEF Traffic
      <4> QED BY <1>0, <2>3, <4>1, <4>2
    <3>2. CASE ~isOpen(s)
      BY <1>0, <2>2, <3>2
    <3> QED BY <3>1, <3>2
  <2> HIDE DEF new
  <2>5. /\ pushSeqByMsgId' \in [Session -> SUBSET MsgId]
        /\ pendingSends' \in [Session -> SUBSET ClientMsgId]
        /\ requests' \in [Session -> SUBSET ClientMsgId]
    BY <2>2, <2>3 DEF Traffic
  <2> QED BY <2>2, <2>3, <2>4, <2>5, TrafficKept
<1>3. ASSUME NEW cid \in ClientMsgId, NEW valid \in BOOLEAN, handleSendMessage(s, cid, valid)
     PROVE Traffic'
  <2>1. PICK told \in Page : told = Answered(s, cid)[s]
    BY <1>0, AnsweredFacts DEF Traffic
  <2> DEFINE asked == [page[s] EXCEPT !.asked = @ \cup {cid}]
             both == [asked EXCEPT !.answered = told.answered]
  <2>2. /\ asked \in Page /\ asked.seen = page[s].seen /\ asked.toAck = page[s].toAck
        /\ both \in Page /\ both.seen = page[s].seen /\ both.toAck = page[s].toAck
    BY <1>0, <2>1 DEF Page
  <2>3. \/ page' = [page EXCEPT ![s] = asked]
        \/ page' = [page EXCEPT ![s] = both]
    <3>1. [page EXCEPT ![s].asked = @ \cup {cid}] = [page EXCEPT ![s] = asked]
      OBVIOUS
    <3>2. [[page EXCEPT ![s].asked = @ \cup {cid}] EXCEPT ![s].answered = told.answered]
            = [page EXCEPT ![s] = both]
      BY DEF Traffic
    <3> QED BY <1>3, <2>1, <3>1, <3>2 DEF handleSendMessage
  <2> HIDE DEF asked, both
  <2>4. /\ pendingSends' \in [Session -> SUBSET ClientMsgId]
        /\ requests' \in [Session -> SUBSET ClientMsgId]
        /\ UNCHANGED <<pushSeqByMsgId, data, ackedAtServer>>
    <3>1. \/ pendingSends' = [pendingSends EXCEPT ![s] = @]
          \/ pendingSends' = [pendingSends EXCEPT ![s] = @ \cup {cid}]
      BY Zenon, <1>3 DEF handleSendMessage
    <3>2. \/ requests' = requests
          \/ requests' = [requests EXCEPT ![s] = @]
          \/ requests' = [requests EXCEPT ![s] = @ \cup {cid}]
      BY Zenon, <1>3 DEF handleSendMessage
    <3>3. UNCHANGED <<pushSeqByMsgId, data, ackedAtServer>>
      BY <1>3 DEF handleSendMessage
    <3>4. /\ pendingSends \in [Session -> SUBSET ClientMsgId]
          /\ requests \in [Session -> SUBSET ClientMsgId]
      BY Zenon DEF Traffic
    <3>5. /\ [pendingSends EXCEPT ![s] = @] \in [Session -> SUBSET ClientMsgId]
          /\ [pendingSends EXCEPT ![s] = @ \cup {cid}] \in [Session -> SUBSET ClientMsgId]
      BY <3>4, Grows
    <3>6. /\ [requests EXCEPT ![s] = @] \in [Session -> SUBSET ClientMsgId]
          /\ [requests EXCEPT ![s] = @ \cup {cid}] \in [Session -> SUBSET ClientMsgId]
      BY <3>4, Grows
    <3> QED BY Zenon, <3>1, <3>2, <3>3, <3>4, <3>5, <3>6
  <2>5. pushSeqByMsgId' \in [Session -> SUBSET MsgId] /\ data' \in [Session -> Seq(Envelope)]
    BY <2>4 DEF Traffic
  <2> QED BY <1>0, <2>2, <2>3, <2>4, <2>5, TrafficKept
<1>4. ASSUME NEW m \in MsgId, handleMessageAck(s, m) PROVE Traffic'
  <2> DEFINE new == [page[s] EXCEPT !.toAck = @ \ {m}]
  <2>1. new \in Page /\ new.seen = page[s].seen /\ new.toAck \subseteq page[s].toAck
    BY <1>0 DEF Page
  <2>2. page' = [page EXCEPT ![s] = new] /\ m \in page[s].toAck /\ requests' = requests
    BY <1>4 DEF handleMessageAck, serverVars
  <2> HIDE DEF new
  <2>3. ackedAtServer' \subseteq ackedAtServer \cup page[s].toAck
    BY <1>4, <2>2 DEF handleMessageAck, Crash
  <2>4. CASE Crash
    <3>1. /\ pendingSends' \in [Session -> SUBSET ClientMsgId]
          /\ pushSeqByMsgId' \in [Session -> SUBSET MsgId]
          /\ data' \in [Session -> Seq(Envelope)]
      BY <2>4, EmptySeq DEF Crash
    <3>2. requests' \in [Session -> SUBSET ClientMsgId]
      BY <2>2 DEF Traffic
    <3> QED BY <1>0, <2>1, <2>2, <2>3, <3>1, <3>2, TrafficKept
  <2>5. CASE ~Crash
    <3>1. /\ UNCHANGED <<pendingSends, data>>
          /\ pushSeqByMsgId' \in {pushSeqByMsgId, [pushSeqByMsgId EXCEPT ![s] = @ \ {m}]}
      BY <1>4, <2>5 DEF handleMessageAck, gatewayVars
    <3>2. /\ pendingSends' \in [Session -> SUBSET ClientMsgId]
          /\ pushSeqByMsgId' \in [Session -> SUBSET MsgId]
          /\ data' \in [Session -> Seq(Envelope)]
          /\ requests' \in [Session -> SUBSET ClientMsgId]
      BY <2>2, <3>1 DEF Traffic
    <3> QED BY <1>0, <2>1, <2>2, <2>3, <3>2, TrafficKept
  <2> QED BY <2>4, <2>5
<1>5. CASE WsClose(s)
  <2> DEFINE new == [page[s] EXCEPT !.toAck = {}]
  <2>1. new \in Page /\ new.seen = page[s].seen /\ new.toAck = {}
    BY <1>0 DEF Page
  <2>2. /\ page' = [page EXCEPT ![s] = new] /\ UNCHANGED <<requests, ackedAtServer>>
        /\ pendingSends' = [pendingSends EXCEPT ![s] = {}]
        /\ pushSeqByMsgId' = [pushSeqByMsgId EXCEPT ![s] = {}]
        /\ data' = [data EXCEPT ![s] = <<>>]
    BY <1>5 DEF WsClose, serverVars
  <2> HIDE DEF new
  <2>3. /\ pendingSends' \in [Session -> SUBSET ClientMsgId]
        /\ pushSeqByMsgId' \in [Session -> SUBSET MsgId]
        /\ requests' \in [Session -> SUBSET ClientMsgId]
    BY <2>2 DEF Traffic
  <2>4. data' \in [Session -> Seq(Envelope)]
    BY <2>2, EmptySeq DEF Traffic
  <2> QED BY <2>1, <2>2, <2>3, <2>4, TrafficKept
<1> QED BY <1>1, <1>2, <1>3, <1>4, <1>5

\* The server's replies and the callbacks of the sockets touch only what the
\* gateway has still to read and the server has still to answer.
LEMMA TrafficOthers ==
  ASSUME IInv, NEW s \in Session,
         \/ handleUpgrade(s) \/ ImConnect(s) \/ ImDecodeFails(s) \/ ImClose(s)
         \/ handleLoginResponse(s) \/ TcpEnds(s) \/ ServerStep(s)
         \/ \E m \in MsgId, history \in BOOLEAN : ServerPush(s, m, history)
  PROVE  Traffic'
<1> USE DEF IInv
<1>1. UNCHANGED <<pendingSends, pushSeqByMsgId, page, ackedAtServer>>
  BY DEF handleUpgrade, ImConnect, ImDecodeFails, ImClose, handleLoginResponse, TcpEnds,
    ServerStep, ServerBind, ServerLogin, ServerReply, ServerClosed, ServerPush, gatewayVars
<1>2. data' \in [Session -> Seq(Envelope)]
  <2>1. CASE data' = data
    BY <2>1 DEF Traffic
  <2>2. CASE ImClose(s)
    BY <2>2, EmptySeq DEF ImClose, Traffic
  <2>3. CASE handleLoginResponse(s)
    BY <2>3, ReadsFacts DEF handleLoginResponse
  <2>4. CASE ServerLogin(s)
    <3>1. [type |-> "login_resp"] \in Envelope
      BY DEF Envelope
    <3> QED BY <2>4, <3>1, DeliverFacts DEF ServerLogin
  <2>5. CASE ServerReply(s)
    <3>1. PICK cid \in requests[s] : data' = Deliver(s, [type |-> "ack", id |-> cid])
      BY <2>5 DEF ServerReply
    <3>2. [type |-> "ack", id |-> cid] \in Envelope
      BY <3>1 DEF Envelope, Traffic
    <3> QED BY <3>1, <3>2, DeliverFacts
  <2>6. CASE \E m \in MsgId, history \in BOOLEAN : ServerPush(s, m, history)
    <3>1. PICK m \in MsgId, history \in BOOLEAN :
            data' = Deliver(s, [type |-> "push", id |-> m, history |-> history])
      BY <2>6 DEF ServerPush
    <3>2. [type |-> "push", id |-> m, history |-> history] \in Envelope
      BY DEF Envelope
    <3> QED BY <3>1, <3>2, DeliverFacts
  <2> QED BY <2>1, <2>2, <2>3, <2>4, <2>5, <2>6
      DEF handleUpgrade, ImConnect, ImDecodeFails, TcpEnds, ServerStep, ServerBind, ServerClosed
<1>3. requests' \in [Session -> SUBSET ClientMsgId]
  <2>1. requests' = requests \/ \E cid \in requests[s] : requests' = [requests EXCEPT ![s] = @ \ {cid}]
    BY DEF handleUpgrade, ImConnect, ImDecodeFails, ImClose, handleLoginResponse, TcpEnds,
      ServerStep, ServerBind, ServerLogin, ServerReply, ServerClosed, ServerPush, serverVars
  <2> QED BY <2>1 DEF Traffic
<1> QED BY <1>1, <1>2, <1>3 DEF Traffic, AckedWasSeen

\* Every step of the gateway and its environment keeps the invariant.
LEMMA GatewayStep == IInv /\ [Next]_vars => IInv'
<1> SUFFICES ASSUME IInv, [Next]_vars PROVE IInv'
  OBVIOUS
<1>1. CASE UNCHANGED vars
  BY <1>1 DEF vars, gatewayVars, serverVars, IInv, Tables, Traffic, SessionTablesAgree,
    ClosedSessionForgotten, SocketOwned, AckedWasSeen
<1>2. CASE Next
  BY <1>2, TablesStep, TablesKept, TrafficStep, TrafficOthers DEF Next, SocketEvent, IInv
<1> QED BY <1>1, <1>2

LEMMA GatewayInductive == Spec => []IInv
BY GatewayInit, GatewayStep, PTL DEF Spec

-----------------------------------------------------------------------------
\* The gateway's variables keep their types; a user's entry names a session of
\* that user.
THEOREM GatewayTypeCorrect == Spec => []TypeOK
<1>1. IInv => TypeOK
  BY DEF IInv, Tables, Traffic, TypeOK
<1> QED BY <1>1, GatewayInductive, PTL

\* The two maps of WsSessionManager never drift apart, whatever order logins,
\* replacements and closes come in.
THEOREM GatewayTablesAgree == Spec => []SessionTablesAgree
BY GatewayInductive, PTL DEF IInv, Tables

\* After the close event of a WebSocket no table names the session and its
\* connection to the server is down, also if the login answer comes later.
THEOREM GatewayForgetsClosed == Spec => []ClosedSessionForgotten
BY GatewayInductive, PTL DEF IInv, Tables

\* Every ACK that the gateway sends to the server is for a message that a
\* browser page has received.
THEOREM GatewayAcksSeen == Spec => []AckedWasSeen
BY GatewayInductive, PTL DEF IInv, Traffic

\* A late close of a replaced session leaves the session that replaced it in
\* place: cleanupSession goes by the session, not by the user.
THEOREM GatewayOldCloseKeepsNew == Spec => OldCloseKeepsNew
<1> DEFINE Kept == \A u \in DOMAIN sessionsByUid :
                     ws'[sessionsByUid[u]] = "open" => u \in DOMAIN sessionsByUid'
<1>1. ASSUME IInv, Next PROVE Kept
  <2>1. PICK s \in Session :
          \/ handleUpgrade(s) \/ SocketEvent(s) \/ ImDecodeFails(s) \/ WsClose(s)
          \/ \E cid \in ClientMsgId, valid \in BOOLEAN : handleSendMessage(s, cid, valid)
          \/ \E m \in MsgId : handleMessageAck(s, m)
          \/ \E m \in MsgId, history \in BOOLEAN : ServerPush(s, m, history)
          \/ ServerStep(s) \/ TcpEnds(s)
    BY <1>1 DEF Next
  <2>2. CASE DOMAIN sessionsByUid \subseteq DOMAIN sessionsByUid'
    BY <2>2
  <2>3. CASE sessionsByUid' = Removed(s) /\ ws'[s] # "open"
    BY <1>1, <2>3, RemovedFacts DEF IInv
  <2>4. CASE Crash
    BY <1>1, <2>4 DEF Crash, IInv, Tables
  <2>5. \/ sessionsByUid' = sessionsByUid \/ Crash
        \/ sessionsByUid' = Put(sessionsByUid, UidOf[s], s)
        \/ sessionsByUid' = Removed(s) /\ ws'[s] # "open"
    <3>1. ws \in [Session -> {"none", "open", "closing", "closed"}]
      BY <1>1 DEF IInv, Tables
    <3> QED BY <2>1, <3>1 DEF handleUpgrade, SocketEvent, ImConnect, ImClose, handleLoginResponse,
          isOpen, Add, cleanupSession, handleAck, handleChatPush, ImDecodeFails, WsClose,
          handleSendMessage, handleMessageAck, ServerPush, ServerStep, ServerBind, ServerLogin,
          ServerReply, ServerClosed, TcpEnds, gatewayVars
  <2>6. DOMAIN sessionsByUid \subseteq DOMAIN Put(sessionsByUid, UidOf[s], s)
    BY DEF Put
  <2> QED BY <2>2, <2>3, <2>4, <2>5, <2>6
<1>2. IInv /\ [Next]_vars => [Kept]_vars
  BY <1>1
<1> QED BY <1>2, GatewayInductive, PTL DEF Spec, OldCloseKeepsNew

=============================================================================
