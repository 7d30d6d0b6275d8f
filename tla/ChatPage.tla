------------------------------ MODULE ChatPage ------------------------------
(***************************************************************************)
(* web_gateway/public/app.js: a browser page through logins, WebSockets,   *)
(* chats and the delayed rendering of what arrives, with the accounts of   *)
(* AuthService.  A callback of the page is one step; the functions that it *)
(* calls are operators from a page to the page after the call.  What the   *)
(* user sees is state: the message pane, the unread numbers, the composer. *)
(* The gateway and the IM server behind it are the environment.  A socket  *)
(* that the page has closed delivers no more messages (WebSocket API).     *)
(***************************************************************************)
EXTENDS Naturals, Sequences, Maps

CONSTANTS
  Uid, Password, StringOf, tokenTtlMs,
  MESSAGE_PAGE_SIZE,
  MsgId, From, To,   \* messages of others: from whom, to whom
  ClientMsgId,       \* messages that the page sends; also their msg_id
  Opens,             \* user -> the users with whom they open a chat
  MaxLogins, MaxPushes, MaxQueue,   \* bounds
  MaxFaults          \* restarts, expired tokens, lost replies, notices

ASSUME PageAssumption ==
  /\ 0 \notin Uid \cup MsgId \cup ClientMsgId \cup {MESSAGE_PAGE_SIZE}
  /\ MsgId \cap ClientMsgId = {}   \* the store numbers all messages
  /\ StringOf \in [Uid -> Password] /\ {From, To} \subseteq [MsgId -> Uid]
  /\ Opens \in [Uid -> SUBSET Uid]
  /\ {tokenTtlMs, MESSAGE_PAGE_SIZE, MaxLogins, MaxPushes, MaxQueue, MaxFaults} \subseteq Nat

VARIABLES
  page,       \* the object `state' and what the user sees
  sock,       \* the n-th login's WebSocket
  logins, pushes, faults,
  sent,       \* the client_msg_ids in use (makeClientMsgId draws fresh ones)
  acks,       \* <<user, message>> for each message_ack since the login (history)
  users, tokens, now   \* AuthService

vars == <<page, sock, logins, pushes, faults, sent, acks, users, tokens, now>>

Auth == INSTANCE AuthService

NoSocket == [state |-> "none", uid |-> 0, told |-> FALSE, down |-> <<>>, asked |-> {}]

NoTimer == [on |-> FALSE, needsMessages |-> FALSE, peer |-> 0]

\* 0 stands for null; a WebSocket is known by the number of its login.
Init ==
  /\ page = [view |-> "auth", uid |-> 0, ws |-> 0, connected |-> FALSE, active |-> 0,
             conversations |-> EmptyMap, pending |-> EmptyMap, rendered |-> {},
             timer |-> NoTimer, pane |-> <<>>, list |-> EmptyMap, composer |-> FALSE]
  /\ sock = [n \in 1..MaxLogins |-> NoSocket]
  /\ logins = 0 /\ pushes = 0 /\ faults = 0 /\ sent = {} /\ acks = {}
  /\ Auth!Init

-----------------------------------------------------------------------------
(* Conversations and the window of messages that is shown. *)

getVisibleMessageCount(c) ==
  IF c.visibleMessageCount < Len(c.messages) THEN c.visibleMessageCount ELSE Len(c.messages)

getVisibleMessages(c) ==
  SubSeq(c.messages, Len(c.messages) - getVisibleMessageCount(c) + 1, Len(c.messages))

AtMostPage(n) == IF n < MESSAGE_PAGE_SIZE THEN n ELSE MESSAGE_PAGE_SIZE

resetVisibleMessageWindow(c) ==
  [c EXCEPT !.visibleMessageCount = AtMostPage(Len(c.messages))]

\* The message was appended.  A window that is not empty keeps its size.
updateVisibleWindowAfterAppend(c, keepTop) ==
  LET visibleCount == getVisibleMessageCount(c)
  IN  IF keepTop
      THEN [c EXCEPT !.visibleMessageCount =
              IF visibleCount < Len(c.messages) THEN visibleCount + 1 ELSE Len(c.messages)]
      ELSE IF visibleCount = 0 THEN resetVisibleMessageWindow(c) ELSE c

addConversation(p, peer) ==
  IF peer \in DOMAIN p.conversations THEN p
  ELSE [p EXCEPT !.conversations =
          Put(@, peer, [messages |-> <<>>, unread |-> 0, visibleMessageCount |-> 0])]

\* A message joins its conversation.
Pushed(p, peer, message, keepTop) ==
  LET q == addConversation(p, peer)
      c == [q.conversations[peer] EXCEPT !.messages = Append(@, message)]
  IN  [q EXCEPT !.conversations[peer] = updateVisibleWindowAfterAppend(c, keepTop)]

-----------------------------------------------------------------------------
(* Rendering *)

setComposerEnabled(p, enabled) == [p EXCEPT !.composer = enabled /\ p.active # 0]

renderConversationList(p) ==
  [p EXCEPT !.list = [peer \in DOMAIN p.conversations |-> p.conversations[peer].unread]]

renderMessages(p) ==
  LET q == setComposerEnabled(p, p.connected)
  IN  [q EXCEPT !.pane = IF p.active = 0 THEN <<>>
                         ELSE getVisibleMessages(p.conversations[p.active])]

\* A slip of scheduleIncomingRender: an armed timer is left as it is.
scheduleIncomingRender_First(p, needsMessages, peer) ==
  IF p.timer.on THEN p
  ELSE [p EXCEPT !.timer = [on |-> TRUE, needsMessages |-> needsMessages,
                            peer |-> IF needsMessages THEN peer ELSE 0]]

\* The list needs rendering whenever the timer is set.
scheduleIncomingRender(p, needsMessages, peer) ==
  [p EXCEPT !.timer = [on |-> TRUE, needsMessages |-> @.needsMessages \/ needsMessages,
                       peer |-> IF needsMessages THEN peer ELSE @.peer]]

\* The timer fires.
flushIncomingRender ==
  LET p == renderConversationList([page EXCEPT !.timer = NoTimer])
  IN  /\ page.timer.on
      /\ page' = IF page.timer.needsMessages /\ page.timer.peer = page.active
                 THEN renderMessages(p) ELSE p
      /\ UNCHANGED <<sock, logins, pushes, faults, sent, acks, users, tokens, now>>

-----------------------------------------------------------------------------
(* Messages.  nearBottom: whether the pane is scrolled to its end. *)

Message(direction, id, cid, from, to, status) ==
  [direction |-> direction, msg_id |-> id, client_msg_id |-> cid,
   from_uid |-> from, to_uid |-> to, status |-> status]

addSystemMessageToConversation(p, peer, nearBottom) ==
  LET q == Pushed(p, peer, Message("system", 0, 0, 0, 0, "notice"),
                  p.active = peer /\ ~nearBottom)
  IN  renderMessages(renderConversationList(q))

\* Without an active conversation only a hint is shown.
addSystemMessageToActive(p, nearBottom) ==
  IF p.active = 0 THEN p ELSE addSystemMessageToConversation(p, p.active, nearBottom)

appendIncomingMessage(p, m, nearBottom) ==
  LET peer == IF m.from = p.uid THEN m.to ELSE m.from
      isActive == p.active = peer
      message == Message(IF m.from = p.uid THEN "outgoing" ELSE "incoming", m.id, 0,
                         m.from, m.to, IF m.history THEN "history" ELSE "received")
      q == Pushed(p, peer, message, isActive /\ ~nearBottom)
  IN  scheduleIncomingRender(
        IF ~isActive /\ ~m.history
        THEN [q EXCEPT !.conversations[peer].unread = @ + 1] ELSE q,
        isActive, peer)

\* A slip of Fresh: a repeated message counts as new.
Fresh_Always(p, id) == TRUE

Fresh(p, id) == id \notin p.rendered

\* The ACK is sent for a repeated message too; see AckSent.
handleIncomingMessage(p, m, nearBottom) ==
  IF Fresh(p, m.id)
  THEN appendIncomingMessage([p EXCEPT !.rendered = @ \cup {m.id}], m, nearBottom)
  ELSE p

\* A slip of AckSent: no ACK before the gateway's "online".
AckSent_WhenOnline(m) ==
  IF ~m.history /\ page.connected THEN {<<sock[page.ws].uid, m.id>>} ELSE {}

\* sendMessageAck, on the page's present socket.
AckSent(m) ==
  IF ~m.history /\ page.ws # 0 /\ sock[page.ws].state = "open"
  THEN {<<sock[page.ws].uid, m.id>>} ELSE {}

\* Sent messages are found by their client_msg_id; one that the user cleared
\* away is changed where nobody sees it.
applySendAck(p, m, nearBottom) ==
  IF m.cid \notin DOMAIN p.pending THEN addSystemMessageToActive(p, nearBottom)
  ELSE LET peer == p.pending[m.cid]
           settled(x) == IF x.client_msg_id # m.cid THEN x
                         ELSE [x EXCEPT !.msg_id = IF m.ok THEN m.cid ELSE 0,
                                        !.status = IF m.ok THEN "sent" ELSE "failed"]
           q == [p EXCEPT !.conversations[peer].messages =
                            [i \in DOMAIN @ |-> settled(@[i])],
                          !.rendered = IF m.ok THEN @ \cup {m.cid} ELSE @,
                          !.pending = Erase(@, m.cid)]
       IN  renderMessages(renderConversationList(q))

-----------------------------------------------------------------------------
(* WebSocket events *)

handleOnline(p, uid) ==
  renderMessages(renderConversationList([p EXCEPT !.connected = TRUE, !.uid = uid]))

\* A slip of handleClose: the event of any socket counts.
handleClose_AnySocket(p, n) == setComposerEnabled([p EXCEPT !.connected = FALSE], FALSE)

\* The close event of a socket that the page has replaced changes nothing.
handleClose(p, n) ==
  IF p.ws = n THEN setComposerEnabled([p EXCEPT !.connected = FALSE], FALSE) ELSE p

handleServerMessage(n) ==
  LET m == Head(sock[n].down)
  IN  /\ sock[n].state = "open" /\ sock[n].down # <<>> /\ m.type # "close"
      /\ \E nearBottom \in BOOLEAN :
           \/ m.type = "online" /\ page' = handleOnline(page, sock[n].uid)
           \/ m.type = "send_ack" /\ page' = applySendAck(page, m, nearBottom)
           \/ m.type = "message" /\ page' = handleIncomingMessage(page, m, nearBottom)
           \/ m.type = "error" /\ page' = addSystemMessageToActive(page, nearBottom)
      /\ acks' = acks \cup IF m.type = "message" THEN AckSent(m) ELSE {}
      /\ sock' = [sock EXCEPT ![n].down = Tail(@), ![n].told = @ \/ m.type = "online"]
      /\ UNCHANGED <<logins, pushes, faults, sent, users, tokens, now>>

\* The connection ended behind what it had delivered, or it never came up, or
\* the page closed it a while ago.
CloseEvent(n) ==
  /\ \/ sock[n].state = "closing"
     \/ /\ sock[n].state \in {"connecting", "open"} /\ sock[n].down # <<>>
        /\ Head(sock[n].down).type = "close"
  /\ page' = handleClose(page, n)
  /\ sock' = [sock EXCEPT ![n] = NoSocket]
  /\ UNCHANGED <<logins, pushes, faults, sent, acks, users, tokens, now>>

-----------------------------------------------------------------------------
(* The user *)

\* state.ws.close()
Closed ==
  IF page.ws # 0 /\ sock[page.ws].state \in {"connecting", "open"}
  THEN [sock EXCEPT ![page.ws].state = "closing", ![page.ws].down = <<>>] ELSE sock

closeWebSocket(p) == setComposerEnabled([p EXCEPT !.ws = 0, !.connected = FALSE], FALSE)

resetChatState(p) ==
  [p EXCEPT !.timer = NoTimer, !.uid = 0, !.connected = FALSE, !.active = 0,
            !.conversations = EmptyMap, !.pending = EmptyMap, !.rendered = {}]

showChatView(p) == renderMessages(renderConversationList([p EXCEPT !.view = "chat"]))

\* The answer to /api/login arrives, or is lost.  A refused login changes
\* nothing (there is no socket that its closeWebSocket could close).
login(uid, password) ==
  LET n == logins + 1
      fresh == [resetChatState(page) EXCEPT !.uid = uid]
  IN  /\ page.view = "auth" /\ logins < MaxLogins
      /\ logins' = n
      /\ Auth!login(uid, password, n)
      /\ \/ /\ page' = [closeWebSocket(showChatView(fresh)) EXCEPT !.ws = n]
            /\ sock' = [Closed EXCEPT ![n].state = "connecting"]
            /\ UNCHANGED faults
         \/ faults < MaxFaults /\ faults' = faults + 1 /\ UNCHANGED <<page, sock>>
      /\ acks' = {}
      /\ UNCHANGED <<pushes, sent>>

register(uid, password) ==
  /\ page.view = "auth"
  /\ Auth!register(uid, password)
  /\ UNCHANGED <<page, sock, logins, pushes, faults, sent, acks>>

logout ==
  /\ page.view = "chat"
  /\ page' = [resetChatState(closeWebSocket(page)) EXCEPT !.view = "auth"]
  /\ sock' = Closed
  /\ UNCHANGED <<logins, pushes, faults, sent, acks, users, tokens, now>>

InChat == page.view = "chat" /\ UNCHANGED <<logins, pushes, acks, users, tokens, now>>

selectConversation(p, peer) ==
  LET q == [addConversation(p, peer) EXCEPT !.active = peer]
      c == [q.conversations[peer] EXCEPT !.unread = 0]
      r == [q EXCEPT !.conversations[peer] = resetVisibleMessageWindow(c)]
  IN  setComposerEnabled(renderMessages(renderConversationList(r)), r.connected)

Select(peer) ==
  /\ InChat /\ peer \in Opens[page.uid]
  /\ page' = selectConversation(page, peer)
  /\ UNCHANGED <<sock, faults, sent>>

\* The form for a new chat reminds users that they chat with themselves.
NewSelfChat ==
  /\ InChat /\ page.uid \in Opens[page.uid] /\ faults < MaxFaults /\ faults' = faults + 1
  /\ \E nearBottom \in BOOLEAN :
       page' = selectConversation(addSystemMessageToConversation(page, page.uid, nearBottom),
                                  page.uid)
  /\ UNCHANGED <<sock, sent>>

Clear ==
  /\ InChat /\ page.active # 0
  /\ page' = renderConversationList(renderMessages(
               [page EXCEPT !.conversations[page.active] =
                  [messages |-> <<>>, unread |-> 0, visibleMessageCount |-> 0]]))
  /\ UNCHANGED <<sock, faults, sent>>

loadOlderMessages ==
  LET c == page.conversations[page.active]
      more == getVisibleMessageCount(c) + MESSAGE_PAGE_SIZE
  IN  /\ InChat /\ page.active # 0
      /\ getVisibleMessageCount(c) < Len(c.messages)
      /\ page' = renderMessages([page EXCEPT !.conversations[page.active].visibleMessageCount =
                                   IF more < Len(c.messages) THEN more ELSE Len(c.messages)])
      /\ UNCHANGED <<sock, faults, sent>>

sendMessage(cid) ==
  LET peer == page.active
      message == Message("outgoing", 0, cid, page.uid, peer, "sending")
      c == [page.conversations[peer] EXCEPT !.messages = Append(@, message)]
  IN  /\ InChat /\ page.composer /\ sock[page.ws].state = "open"
      /\ cid \notin sent /\ sent' = sent \cup {cid}
      /\ page' = renderMessages(renderConversationList(
                   [page EXCEPT !.conversations[peer] = resetVisibleMessageWindow(c),
                                !.pending = Put(@, cid, peer)]))
      /\ sock' = [sock EXCEPT ![page.ws].asked = @ \cup {[cid |-> cid, to |-> peer]}]
      /\ UNCHANGED faults

\* The socket is closing, which the page has not been told.
sendMessageUnready ==
  /\ InChat /\ page.composer /\ faults < MaxFaults /\ faults' = faults + 1
  /\ sock[page.ws].down # <<>> /\ Head(sock[page.ws].down).type = "close"
  /\ \E nearBottom \in BOOLEAN :
       page' = addSystemMessageToConversation(page, page.active, nearBottom)
  /\ UNCHANGED <<sock, sent>>

-----------------------------------------------------------------------------
(* The gateway and the IM server *)

\* The upgrade request arrives with the token of the n-th login.
handleUpgrade(n) ==
  /\ sock[n].state = "connecting" /\ sock[n].down = <<>>
  /\ Auth!verifyToken(n)
  /\ sock' = IF Auth!Verified(n)
             THEN [sock EXCEPT ![n].state = "open", ![n].uid = tokens[n].uid]
             ELSE [sock EXCEPT ![n].down = <<[type |-> "close"]>>]
  /\ UNCHANGED <<page, logins, pushes, faults, sent, acks>>

\* Nothing follows a close.
Serving(n) ==
  sock[n].state = "open" /\ \A i \in DOMAIN sock[n].down : sock[n].down[i].type # "close"

Sends(n, items) ==
  /\ Serving(n) /\ Len(sock[n].down) < MaxQueue
  /\ sock' = [sock EXCEPT ![n].down = @ \o items]

GatewayOnline(n) ==
  /\ ~sock[n].told
  /\ \A i \in DOMAIN sock[n].down : sock[n].down[i].type # "online"
  /\ Sends(n, <<[type |-> "online"]>>)
  /\ UNCHANGED <<page, logins, pushes, faults, sent, acks, users, tokens, now>>

PushOf(id, from, to, history) ==
  [type |-> "message", id |-> id, from |-> from, to |-> to, history |-> history]

\* A delivery, its repetition, or the history after a login; also before "online".
GatewayPush(n, m, history) ==
  /\ pushes < MaxPushes
  /\ sock[n].uid \in IF history THEN {From[m], To[m]} ELSE {To[m]}
  /\ pushes' = pushes + 1
  /\ Sends(n, <<PushOf(m, From[m], To[m], history)>>)
  /\ UNCHANGED <<page, logins, faults, sent, acks, users, tokens, now>>

\* The server answers a request: a message to oneself it pushes first.
GatewayAnswer(n) ==
  /\ Serving(n) /\ Len(sock[n].down) < MaxQueue
  /\ \E x \in sock[n].asked, ok \in BOOLEAN :
       LET ack  == [type |-> "send_ack", cid |-> x.cid, ok |-> ok]
           push == PushOf(x.cid, sock[n].uid, x.to, FALSE)
       IN  sock' = [sock EXCEPT
             ![n].asked = @ \ {x},
             ![n].down = @ \o IF ok /\ x.to = sock[n].uid THEN <<push, ack>> ELSE <<ack>>]
  /\ UNCHANGED <<page, logins, pushes, faults, sent, acks, users, tokens, now>>

GatewayError(n) ==
  /\ faults < MaxFaults /\ faults' = faults + 1
  /\ Sends(n, <<[type |-> "error"]>>)
  /\ UNCHANGED <<page, logins, pushes, sent, acks, users, tokens, now>>

GatewayClose(n) ==
  /\ Sends(n, <<[type |-> "close"]>>)
  /\ UNCHANGED <<page, logins, pushes, faults, sent, acks, users, tokens, now>>

GatewayRestart ==
  /\ faults < MaxFaults /\ faults' = faults + 1
  /\ Auth!Restart
  /\ sock' = [n \in DOMAIN sock |->
                IF Serving(n) THEN [sock[n] EXCEPT !.down = Append(@, [type |-> "close"])]
                ELSE sock[n]]
  /\ UNCHANGED <<page, logins, pushes, sent, acks>>

TimePasses ==
  /\ faults < MaxFaults /\ faults' = faults + 1
  /\ Auth!Tick
  /\ UNCHANGED <<page, sock, logins, pushes, sent, acks>>

User ==
  \/ \E u \in Uid, password \in Password : login(u, password) \/ register(u, password)
  \/ logout \/ Clear \/ loadOlderMessages \/ NewSelfChat \/ sendMessageUnready
  \/ \E peer \in Uid : Select(peer)
  \/ \E cid \in ClientMsgId : sendMessage(cid)

Gateway(n) ==
  \/ handleUpgrade(n) \/ GatewayOnline(n) \/ GatewayAnswer(n) \/ GatewayError(n)
  \/ GatewayClose(n)
  \/ \E m \in MsgId, history \in BOOLEAN : GatewayPush(n, m, history)

Next ==
  \/ User \/ flushIncomingRender \/ GatewayRestart \/ TimePasses
  \/ \E n \in 1..MaxLogins : handleServerMessage(n) \/ CloseEvent(n) \/ Gateway(n)

Spec == Init /\ [][Next]_vars

-----------------------------------------------------------------------------
Chats ==
  UNION {{<<peer, i>> : i \in DOMAIN page.conversations[peer].messages} :
           peer \in DOMAIN page.conversations}

MessageAt(x) == page.conversations[x[1]].messages[x[2]]

\* What the user sees is what the page knows, or a timer is set that will show
\* it: batching the rendering (scheduleIncomingRender), switching chats while
\* the timer runs, clearing and logging out leave no view behind.  The newest
\* message is always in the window, and the composer is enabled exactly while
\* messages can be sent.
ViewIsCurrent ==
  LET c == page.conversations[page.active]
  IN  page.view = "chat" =>
        /\ page.composer = (page.connected /\ page.active # 0)
        /\ page.timer.on \/ page.list = renderConversationList(page).list
        /\ page.active # 0 =>
             /\ \/ page.pane = getVisibleMessages(c)
                \/ page.timer.on /\ page.timer.needsMessages /\ page.timer.peer = page.active
             /\ c.messages # <<>> => getVisibleMessages(c) # <<>>

\* Messages between two users are shown once: deliveries that are repeated,
\* that overlap with the history or with what the page itself sent do not
\* appear again (renderedMessageIds).
ShownOnce ==
  \A x, y \in Chats :
    x # y /\ MessageAt(x).msg_id = MessageAt(y).msg_id /\ MessageAt(x).msg_id # 0 =>
      MessageAt(x).from_uid = MessageAt(x).to_uid

\* The same of every message, as the test plan says ("a message that was
\* delivered and acknowledged is not displayed again").  A message to oneself
\* breaks it: its push arrives before its send_ack.
EachShownOnce ==
  \A x, y \in Chats :
    x # y /\ MessageAt(x).msg_id = MessageAt(y).msg_id => MessageAt(x).msg_id = 0

\* The page is online exactly if its present socket said so and is not
\* closed, as the user who logged in; and it holds messages of this user only,
\* each under its peer.  Late events of an earlier login's socket, the loss of
\* tokens in a restart and their expiry do not change that.
PageFollowsSession ==
  /\ page.connected = (page.ws # 0 /\ sock[page.ws].told)
  /\ page.connected => sock[page.ws].uid = page.uid
  /\ \A x \in Chats : MessageAt(x).direction # "system" =>
       {MessageAt(x).from_uid, MessageAt(x).to_uid} = {page.uid, x[1]}

\* A message that the page labels as acknowledged was acknowledged, also if it
\* came before "online".
AckLabelIsTrue ==
  \A x \in Chats : MessageAt(x).status = "received" => <<page.uid, MessageAt(x).msg_id>> \in acks

=============================================================================
