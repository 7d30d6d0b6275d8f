----------------------------- MODULE WebGateway -----------------------------
(***************************************************************************)
(* web_gateway/src: WebSocketServer.ts, ImClient.ts, WsSessionManager.ts.  *)
(* The gateway gives every browser WebSocket (a session) a TCP connection  *)
(* of its own to the IM server.  Node runs one callback at a time, so a    *)
(* callback together with the promise continuations it releases is one     *)
(* step.  Browsers, TCP and the IM server are the environment; of the      *)
(* server we use what OnlineDirectory promises.                            *)
(***************************************************************************)
EXTENDS Naturals, Sequences, Maps

CONSTANTS
  Session, Uid,
  UidOf,          \* session -> the user its token belongs to
  ClientMsgId,    \* messages that browsers send
  MsgId,          \* messages that the server pushes
  PushTo,         \* bound on pushes: the sessions that get any,
  MaxPushes,      \* and how many there are
  BadFrames       \* whether a frame that cannot be decoded may arrive

ASSUME GatewayAssumption ==
  /\ UidOf \in [Session -> Uid]
  /\ PushTo \subseteq Session /\ MaxPushes \in Nat
  /\ BadFrames \in BOOLEAN

VARIABLES
  ws,              \* session -> "none", "open", "closing", "closed"
  tcp,             \* session -> "none", "connecting", "up", "ended", "gone"
  connected,       \* sessions whose ImClient is connected
  awaiting,        \* sessions in connectAndLogin (loginResolver is set)
  imClients,       \* imClientsBySessionId, its keys
  sessionsByUid,   \* user -> session
  sessionsById,    \* its keys
  pendingSends,    \* session -> requests that wait for the server's ACK
  pushSeqByMsgId,  \* session -> messages that wait for the browser's ACK
  crashed,         \* an exception has ended the process (history)
  srv,             \* session -> its login at the server: "none", "asked", "bound", "in", "closed"
  online,          \* who is online at the server (OnlineDirectory)
  requests,        \* session -> chat requests the server has still to answer
  data,            \* session -> what the server sent and the gateway has not read
  page,            \* session -> the browser: messages asked to send, answered ones,
                   \*            pushes seen, pushes it has still to acknowledge
  ackedAtServer,   \* messages whose ACK was sent to the server (history)
  pushes

gatewayVars == <<imClients, sessionsByUid, sessionsById, pendingSends, pushSeqByMsgId>>
serverVars == <<srv, online, requests, pushes>>
vars == <<ws, tcp, connected, awaiting, gatewayVars, crashed, serverVars, data, page,
          ackedAtServer>>

Server == INSTANCE OnlineDirectory WITH Conn <- Session

NewPage == [asked |-> {}, answered |-> {}, seen |-> {}, toAck |-> {}]

Init ==
  /\ ws = [s \in Session |-> "none"] /\ tcp = [s \in Session |-> "none"]
  /\ connected = {} /\ awaiting = {}
  /\ imClients = {} /\ sessionsByUid = EmptyMap /\ sessionsById = {}
  /\ pendingSends = [s \in Session |-> {}] /\ pushSeqByMsgId = [s \in Session |-> {}]
  /\ crashed = FALSE
  /\ srv = [s \in Session |-> "none"] /\ Server!Init
  /\ data = [s \in Session |-> <<>>] /\ page = [s \in Session |-> NewPage]
  /\ requests = [s \in Session |-> {}] /\ ackedAtServer = {} /\ pushes = 0

isOpen(s) == ws[s] = "open"

-----------------------------------------------------------------------------
(* WsSessionManager *)

\* remove(): the user's entry goes only if it names this session.
Removed(s) ==
  IF UidOf[s] \in DOMAIN sessionsByUid /\ sessionsByUid[UidOf[s]] = s
  THEN Erase(sessionsByUid, UidOf[s]) ELSE sessionsByUid

\* A slip of Replaced: an older session of the user is left alone.
Replaced_None(s) == {}

Replaced(s) ==
  IF UidOf[s] \in DOMAIN sessionsByUid THEN {sessionsByUid[UidOf[s]]} \ {s} ELSE {}

\* add(): the session that the user had is removed and told to close.
Add(s) ==
  /\ sessionsByUid' = Put(sessionsByUid, UidOf[s], s)
  /\ sessionsById' = (sessionsById \ Replaced(s)) \cup {s}
  /\ ws' = [x \in Session |-> IF x \in Replaced(s) /\ ws[x] = "open"
                              THEN "closing" ELSE ws[x]]

\* ImClient.close() destroys the socket; its close event is still to come.
Destroyed(s) ==
  [tcp EXCEPT ![s] = IF s \in imClients /\ @ \in {"connecting", "up"} THEN "ended" ELSE @]

\* A slip of cleanupSession: it goes by the user, not by the session.
cleanupSession_ByUid(s) ==
  /\ sessionsByUid' = Erase(sessionsByUid, UidOf[s])
  /\ sessionsById' = sessionsById \ {x \in Session : UidOf[x] = UidOf[s]}
  /\ imClients' = imClients \ {s}
  /\ tcp' = Destroyed(s)
  /\ connected' = IF s \in imClients THEN connected \ {s} ELSE connected

\* A slip of cleanupSession: the connection to the server stays.
cleanupSession_KeepsImClient(s) ==
  /\ sessionsByUid' = Removed(s)
  /\ sessionsById' = sessionsById \ {s}
  /\ UNCHANGED <<imClients, tcp, connected>>

cleanupSession(s) ==
  /\ sessionsByUid' = Removed(s)
  /\ sessionsById' = sessionsById \ {s}
  /\ imClients' = imClients \ {s}
  /\ tcp' = Destroyed(s)
  /\ connected' = IF s \in imClients THEN connected \ {s} ELSE connected

-----------------------------------------------------------------------------
(* Browser connects; attachSession runs up to its await. *)

handleUpgrade(s) ==
  /\ ws[s] = "none"
  /\ ws' = [ws EXCEPT ![s] = "open"]
  /\ tcp' = [tcp EXCEPT ![s] = "connecting"]
  /\ imClients' = imClients \cup {s}
  /\ awaiting' = awaiting \cup {s}
  /\ UNCHANGED <<connected, sessionsByUid, sessionsById, pendingSends, pushSeqByMsgId,
                 crashed, serverVars, data, page, ackedAtServer>>

\* The connect event: LOGIN_REQ goes out.
ImConnect(s) ==
  /\ tcp[s] = "connecting"
  /\ tcp' = [tcp EXCEPT ![s] = "up"]
  /\ connected' = connected \cup {s}
  /\ srv' = [srv EXCEPT ![s] = "asked"]
  /\ UNCHANGED <<ws, awaiting, gatewayVars, crashed, online, requests, pushes, data, page,
                 ackedAtServer>>

\* handleData cannot decode what it read: handleError, then close().  If the
\* login is awaited it is rejected, and attachSession closes and cleans up.
ImDecodeFails(s) ==
  /\ BadFrames /\ tcp[s] = "up" /\ s \in connected
  /\ awaiting' = awaiting \ {s}
  /\ \/ /\ s \in awaiting
        /\ ws' = [ws EXCEPT ![s] = IF @ = "open" THEN "closing" ELSE @]
        /\ cleanupSession(s)
     \/ /\ s \notin awaiting
        /\ tcp' = [tcp EXCEPT ![s] = "ended"]
        /\ connected' = connected \ {s}
        /\ UNCHANGED <<ws, imClients, sessionsByUid, sessionsById>>
  /\ UNCHANGED <<pendingSends, pushSeqByMsgId, crashed, serverVars, data, page, ackedAtServer>>

\* The close event (an error event comes with it): handleClose, handleImClose
\* and, if the login is still awaited, the same end of attachSession.
ImClose(s) ==
  /\ tcp[s] = "ended"
  /\ ws' = [ws EXCEPT ![s] = IF @ = "open" THEN "closing" ELSE @]
  /\ awaiting' = awaiting \ {s}
  /\ tcp' = [tcp EXCEPT ![s] = "gone"]
  /\ connected' = connected \ {s}
  /\ data' = [data EXCEPT ![s] = <<>>]
  /\ \/ /\ s \in awaiting
        /\ sessionsByUid' = Removed(s)
        /\ sessionsById' = sessionsById \ {s}
        /\ imClients' = imClients \ {s}
     \/ s \notin awaiting /\ UNCHANGED <<imClients, sessionsByUid, sessionsById>>
  /\ UNCHANGED <<pendingSends, pushSeqByMsgId, crashed, serverVars, page, ackedAtServer>>

\* The WebSocket's close or error event.  With the ImClient go its tables and
\* what its destroyed socket had not yet read, with the page what it still
\* wanted to acknowledge.
WsClose(s) ==
  /\ ws[s] \in {"open", "closing"}
  /\ ws' = [ws EXCEPT ![s] = "closed"]
  /\ cleanupSession(s)
  /\ pendingSends' = [pendingSends EXCEPT ![s] = {}]
  /\ pushSeqByMsgId' = [pushSeqByMsgId EXCEPT ![s] = {}]
  /\ data' = [data EXCEPT ![s] = <<>>]
  /\ page' = [page EXCEPT ![s].toAck = {}]
  /\ UNCHANGED <<awaiting, crashed, serverVars, ackedAtServer>>

-----------------------------------------------------------------------------
(* handleData, one envelope at a time; the socket was not destroyed. *)

Reads(s, type) ==
  /\ s \in connected /\ data[s] # <<>> /\ Head(data[s]).type = type
  /\ data' = [data EXCEPT ![s] = Tail(@)]

\* attachSession goes on: the session is added if its browser is still there.
handleLoginResponse(s) ==
  /\ Reads(s, "login_resp")
  /\ awaiting' = awaiting \ {s}
  /\ \/ isOpen(s) /\ Add(s) /\ UNCHANGED <<imClients, tcp, connected>>
     \/ ~isOpen(s) /\ cleanupSession(s) /\ UNCHANGED ws
  /\ UNCHANGED <<pendingSends, pushSeqByMsgId, crashed, serverVars, page, ackedAtServer>>

\* A slip of Answered: no answer without a connection to the server.
Answered_WhenConnected(s, cid) ==
  [page EXCEPT ![s].answered = IF isOpen(s) /\ s \in connected THEN @ \cup {cid} ELSE @]

\* forwardSendAck and the negative answers of handleSendMessage.
Answered(s, cid) == [page EXCEPT ![s].answered = IF isOpen(s) THEN @ \cup {cid} ELSE @]

handleAck(s) ==
  LET cid == Head(data[s]).id
  IN  /\ Reads(s, "ack")
      /\ pendingSends' = [pendingSends EXCEPT ![s] = @ \ {cid}]
      /\ page' = IF cid \in pendingSends[s] THEN Answered(s, cid) ELSE page
      /\ UNCHANGED <<ws, tcp, connected, awaiting, imClients, sessionsByUid, sessionsById,
                     pushSeqByMsgId, crashed, serverVars, ackedAtServer>>

\* A slip of handleChatPush: the gateway acknowledges for the browser.
handleChatPush_AcksFirst(s) ==
  LET m   == Head(data[s]).id
      new == IF Head(data[s]).history THEN {} ELSE {m}
  IN  /\ Reads(s, "push")
      /\ pushSeqByMsgId' = [pushSeqByMsgId EXCEPT ![s] = @ \cup new]
      /\ page' = IF isOpen(s) THEN [page EXCEPT ![s].seen = @ \cup {m}, ![s].toAck = @ \cup new]
                              ELSE page
      /\ ackedAtServer' = ackedAtServer \cup {m}
      /\ UNCHANGED <<ws, tcp, connected, awaiting, imClients, sessionsByUid, sessionsById,
                     pendingSends, crashed, serverVars>>

\* forwardChatPush included: a browser that is leaving gets nothing.  History is
\* shown and not acknowledged.
handleChatPush(s) ==
  LET m   == Head(data[s]).id
      new == IF Head(data[s]).history THEN {} ELSE {m}
  IN  /\ Reads(s, "push")
      /\ pushSeqByMsgId' = [pushSeqByMsgId EXCEPT ![s] = @ \cup new]
      /\ page' = IF isOpen(s) THEN [page EXCEPT ![s].seen = @ \cup {m}, ![s].toAck = @ \cup new]
                              ELSE page
      /\ UNCHANGED <<ws, tcp, connected, awaiting, imClients, sessionsByUid, sessionsById,
                     pendingSends, crashed, serverVars, ackedAtServer>>

-----------------------------------------------------------------------------
(* handleMessage.  A WebSocket that the gateway is closing still delivers. *)

\* A request without an IM client, or with a receiver, content or client_msg_id
\* that is not valid, is refused.  sendChat enters any other request before it
\* finds out that it cannot be sent.
handleSendMessage(s, cid, valid) ==
  LET accepted == s \in imClients /\ valid
      asked    == [page EXCEPT ![s].asked = @ \cup {cid}]
      told     == [asked EXCEPT ![s].answered = Answered(s, cid)[s].answered]
  IN  /\ ws[s] \in {"open", "closing"} /\ cid \notin page[s].asked
      /\ pendingSends' = [pendingSends EXCEPT ![s] = IF accepted THEN @ \cup {cid} ELSE @]
      /\ \/ /\ accepted /\ s \in connected
            /\ page' = asked
            /\ requests' = [requests EXCEPT ![s] =
                              IF tcp[s] = "up" THEN @ \cup {cid} ELSE @]
         \/ /\ ~(accepted /\ s \in connected)
            /\ page' = told
            /\ UNCHANGED requests
      /\ UNCHANGED <<ws, tcp, connected, awaiting, imClients, sessionsByUid, sessionsById,
                     pushSeqByMsgId, crashed, srv, online, pushes, data, ackedAtServer>>

\* The exception ends the process, and with it every session and connection;
\* it is started again.
Crash ==
  /\ crashed' = TRUE
  /\ ws' = [s \in Session |-> IF ws[s] = "none" THEN "none" ELSE "closed"]
  /\ tcp' = [s \in Session |-> IF tcp[s] = "none" THEN "none" ELSE "gone"]
  /\ connected' = {} /\ awaiting' = {} /\ imClients' = {}
  /\ sessionsByUid' = EmptyMap /\ sessionsById' = {}
  /\ pendingSends' = [s \in Session |-> {}] /\ pushSeqByMsgId' = [s \in Session |-> {}]
  /\ data' = [s \in Session |-> <<>>]
  /\ UNCHANGED ackedAtServer

\* ackMessage throws without a connection, and nobody catches it.
handleMessageAck(s, m) ==
  /\ ws[s] \in {"open", "closing"} /\ m \in page[s].toAck
  /\ page' = [page EXCEPT ![s].toAck = @ \ {m}]
  /\ \/ /\ s \in imClients /\ m \in pushSeqByMsgId[s] /\ s \in connected
        /\ pushSeqByMsgId' = [pushSeqByMsgId EXCEPT ![s] = @ \ {m}]
        /\ ackedAtServer' = ackedAtServer \cup {m}
        /\ UNCHANGED <<ws, tcp, connected, awaiting, imClients, sessionsByUid, sessionsById,
                       pendingSends, crashed, data>>
     \/ s \in imClients /\ m \in pushSeqByMsgId[s] /\ s \notin connected /\ Crash
     \/ /\ s \notin imClients \/ m \notin pushSeqByMsgId[s]
        /\ UNCHANGED <<ws, tcp, connected, awaiting, gatewayVars, crashed, data, ackedAtServer>>
  /\ UNCHANGED serverVars

-----------------------------------------------------------------------------
(* The environment: TCP and the IM server. *)

Deliver(s, e) == [data EXCEPT ![s] = IF tcp[s] = "up" THEN Append(@, e) ELSE @]

\* From here on other workers push to the connection, before LOGIN_RESP is sent.
ServerBind(s) ==
  /\ srv[s] = "asked"
  /\ srv' = [srv EXCEPT ![s] = "bound"]
  /\ Server!Login(s, UidOf[s])
  /\ UNCHANGED <<ws, tcp, connected, awaiting, gatewayVars, crashed, requests, pushes, data,
                 page, ackedAtServer>>

ServerLogin(s) ==
  /\ srv[s] = "bound"
  /\ srv' = [srv EXCEPT ![s] = "in"]
  /\ data' = Deliver(s, [type |-> "login_resp"])
  /\ UNCHANGED <<ws, tcp, connected, awaiting, gatewayVars, crashed, online, requests, pushes,
                 page, ackedAtServer>>

ServerReply(s) ==
  /\ srv[s] = "in"
  /\ \E cid \in requests[s] :
       /\ requests' = [requests EXCEPT ![s] = @ \ {cid}]
       /\ data' = Deliver(s, [type |-> "ack", id |-> cid])
  /\ UNCHANGED <<ws, tcp, connected, awaiting, gatewayVars, crashed, srv, online, pushes, page,
                 ackedAtServer>>

ServerPush(s, m, history) ==
  /\ <<s, UidOf[s]>> \in online /\ s \in PushTo /\ pushes < MaxPushes
  /\ pushes' = pushes + 1
  /\ data' = Deliver(s, [type |-> "push", id |-> m, history |-> history])
  /\ UNCHANGED <<ws, tcp, connected, awaiting, gatewayVars, crashed, srv, online, requests,
                 page, ackedAtServer>>

\* The server handles the disconnect, after what came before it.
ServerClosed(s) ==
  /\ srv[s] = "in" /\ tcp[s] \in {"ended", "gone"}
  /\ srv' = [srv EXCEPT ![s] = "closed"]
  /\ Server!Leave(s)
  /\ UNCHANGED <<ws, tcp, connected, awaiting, gatewayVars, crashed, requests, pushes, data,
                 page, ackedAtServer>>

\* No connection, or the connection breaks; the gateway learns of it later.
TcpEnds(s) ==
  /\ tcp[s] \in {"connecting", "up"}
  /\ tcp' = [tcp EXCEPT ![s] = "ended"]
  /\ UNCHANGED <<ws, connected, awaiting, gatewayVars, crashed, serverVars, data, page,
                 ackedAtServer>>

SocketEvent(s) ==
  ImConnect(s) \/ ImClose(s) \/ handleLoginResponse(s) \/ handleAck(s) \/ handleChatPush(s)

ServerStep(s) == ServerBind(s) \/ ServerLogin(s) \/ ServerReply(s) \/ ServerClosed(s)

Next ==
  \E s \in Session :
    \/ handleUpgrade(s) \/ SocketEvent(s) \/ ImDecodeFails(s) \/ WsClose(s)
    \/ \E cid \in ClientMsgId, valid \in BOOLEAN : handleSendMessage(s, cid, valid)
    \/ \E m \in MsgId : handleMessageAck(s, m)
    \/ \E m \in MsgId, history \in BOOLEAN : ServerPush(s, m, history)
    \/ ServerStep(s) \/ TcpEnds(s)

Spec == Init /\ [][Next]_vars

\* The event loop dispatches pending events, a WebSocket that is closing closes,
\* and the server handles what it has received.  Browsers owe nothing.
EventLoop == \E s \in Session : SocketEvent(s) \/ (ws[s] = "closing" /\ WsClose(s))

FairSpec ==
  /\ Spec
  /\ WF_vars(EventLoop)
  /\ WF_vars(\E s \in Session : ServerStep(s))

-----------------------------------------------------------------------------
TypeOK ==
  /\ ws \in [Session -> {"none", "open", "closing", "closed"}]
  /\ tcp \in [Session -> {"none", "connecting", "up", "ended", "gone"}]
  /\ connected \cup awaiting \cup imClients \cup sessionsById \subseteq Session
  /\ DOMAIN sessionsByUid \subseteq Uid
  /\ \A u \in DOMAIN sessionsByUid : sessionsByUid[u] \in Session /\ UidOf[sessionsByUid[u]] = u
  /\ pendingSends \in [Session -> SUBSET ClientMsgId]
  /\ pushSeqByMsgId \in [Session -> SUBSET MsgId]

\* The two tables of WsSessionManager hold the same sessions, one per user,
\* and each of them still has its connection object.
SessionTablesAgree ==
  /\ sessionsById = Range(sessionsByUid)
  /\ sessionsById \subseteq imClients

\* Once the WebSocket is closed nothing of the session is left, wherever in
\* attachSession, login or delivery it was: no table entry and no connection
\* to the server that would swallow the user's messages.
ClosedSessionForgotten ==
  \A s \in Session : ws[s] = "closed" =>
    /\ s \notin imClients \cup sessionsById \cup connected
    /\ tcp[s] \notin {"connecting", "up"}

\* "The gateway must not acknowledge to the server before the browser did":
\* a message is acknowledged only if some browser page has it.
AckedWasSeen == \A m \in ackedAtServer : \E s \in Session : m \in page[s].seen

\* The late close of an old session never unregisters the new one: a user
\* whose registered session stays open stays registered.
OldCloseKeepsNew ==
  [][\A u \in DOMAIN sessionsByUid :
       ws'[sessionsByUid[u]] = "open" => u \in DOMAIN sessionsByUid']_vars

\* Every message the browser asks to send gets its send_ack while the page
\* stays connected, also if it is sent before the login or while the
\* connection to the server breaks.
SendIsAnswered ==
  \A s \in Session, cid \in ClientMsgId :
    cid \in page[s].asked ~> cid \in page[s].answered \/ ws[s] # "open"

\* "After the WebSocket is connected and USER_ONLINE is done the user is
\* online": a session that is registered and stays so is online at the server.
RegisteredIsOnline ==
  \A s \in Session :
    s \in sessionsById ~> s \notin sessionsById \/ <<s, UidOf[s]>> \in online

\* "No crashes in the logs": no event ends the process.
NeverCrashes == ~crashed

=============================================================================
