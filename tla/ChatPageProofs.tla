--------------------------- MODULE ChatPageProofs ---------------------------
(***************************************************************************)
(* Proofs about ChatPage, for any users, messages, page size and bounds.   *)
(* The functions of app.js are operators on pages, so there is a lemma     *)
(* about each of them first.  The invariant has three parts: the view      *)
(* (View), the page's socket and login (Session), and the messages that    *)
(* the page holds or is about to get (Content).                            *)
(***************************************************************************)
EXTENDS ChatPage, TLAPS

MapOf(S, T) == UNION {[D -> T] : D \in SUBSET S}

MessageIds == MsgId \cup ClientMsgId

ChatMessage ==
  [direction : {"system", "outgoing", "incoming"}, msg_id : MessageIds \cup {0},
   client_msg_id : ClientMsgId \cup {0}, from_uid : Uid \cup {0}, to_uid : Uid \cup {0},
   status : {"notice", "history", "received", "sending", "sent", "failed"}]

Conversation == [messages : Seq(ChatMessage), unread : Nat, visibleMessageCount : Nat]

Timer == [on : BOOLEAN, needsMessages : BOOLEAN, peer : Uid \cup {0}]

Page ==
  [view : {"auth", "chat"}, uid : Uid \cup {0}, ws : 0..MaxLogins, connected : BOOLEAN,
   active : Uid \cup {0}, conversations : MapOf(Uid, Conversation),
   pending : MapOf(ClientMsgId, Uid), rendered : SUBSET MessageIds, timer : Timer,
   pane : Seq(ChatMessage), list : MapOf(Uid, Nat), composer : BOOLEAN]

\* What the gateway sends to a page.
Push == [type : {"message"}, id : MessageIds, from : Uid, to : Uid, history : BOOLEAN]
SendAck == [type : {"send_ack"}, cid : ClientMsgId, ok : BOOLEAN]
Item == Push \cup SendAck \cup [type : {"online", "error", "close"}]

Request == [cid : ClientMsgId, to : Uid]

Socket ==
  [state : {"none", "connecting", "open", "closing"}, uid : Uid \cup {0}, told : BOOLEAN,
   down : Seq(Item), asked : SUBSET Request]

Types ==
  /\ page \in Page /\ sock \in [1..MaxLogins -> Socket] /\ logins \in 0..MaxLogins
  /\ sent \subseteq ClientMsgId

\* The active chat and those that wait for a send_ack are open, and the window
\* of a chat with messages is not empty.
Shape(p) ==
  /\ p \in Page
  /\ p.active # 0 => p.active \in DOMAIN p.conversations
  /\ \A cid \in DOMAIN p.pending : p.pending[cid] \in DOMAIN p.conversations
  /\ \A k \in DOMAIN p.conversations :
       p.conversations[k].messages # <<>> => p.conversations[k].visibleMessageCount # 0

ListShown(p) == p.list = renderConversationList(p).list
PaneShown(p) == p.active # 0 => p.pane = getVisibleMessages(p.conversations[p.active])
ComposerShown(p) == p.composer = (p.connected /\ p.active # 0)

\* What ViewIsCurrent says of a page in the chat view.
Shown(p) ==
  /\ ComposerShown(p)
  /\ p.timer.on \/ ListShown(p)
  /\ PaneShown(p) \/ (p.timer.on /\ p.timer.needsMessages /\ p.timer.peer = p.active)

View == Shape(page) /\ (page.view = "chat" => Shown(page))

\* A socket that is not yet closed is the page's present one, and it was opened
\* with the token of the user who logged in.
Session ==
  /\ page.view = "auth" => page.ws = 0 /\ page.conversations = EmptyMap
  /\ page.view = "chat" => page.uid \in Uid
  /\ page.connected = (page.ws # 0 /\ sock[page.ws].told)
  /\ page.ws # 0 => sock[page.ws].state # "closing"
  /\ \A n \in 1..MaxLogins :
       /\ n > logins => sock[n].state = "none"
       /\ sock[n].state = "none" => sock[n] = NoSocket
       /\ sock[n].state \in {"connecting", "open"} => page.ws = n
       /\ sock[n].state = "connecting" =>
            /\ ~sock[n].told /\ sock[n].asked = {}
            /\ n \in DOMAIN tokens => tokens[n].uid = page.uid
       /\ sock[n].state = "open" => sock[n].uid = page.uid

\* The messages with each user.
Messages(p) ==
  [k \in Uid |-> IF k \in DOMAIN p.conversations THEN p.conversations[k].messages ELSE <<>>]

\* A message x in the chat with k.  own is the set of the client_msg_ids of
\* messages to oneself.
Good(x, k, own) ==
  /\ x.direction # "system" => {x.from_uid, x.to_uid} = {page.uid, k}
  /\ x.status = "received" => <<page.uid, x.msg_id>> \in acks
  /\ x.msg_id # 0 => x.msg_id \in page.rendered
  /\ x.client_msg_id # 0 =>
       /\ x.client_msg_id \in sent
       /\ x.msg_id \in {0, x.client_msg_id}
       /\ x.client_msg_id \in own <=> x.from_uid = x.to_uid
  /\ x.msg_id \in ClientMsgId /\ x.client_msg_id # x.msg_id =>
       x.from_uid = x.to_uid /\ x.msg_id \in own \cap sent

GoodItem(d, own) ==
  d.type = "message" =>
    /\ page.uid \in {d.from, d.to}
    /\ d.history \/ d.to = page.uid
    /\ d.id \in ClientMsgId => d.from = d.to /\ d.id \in own \cap sent

GoodRequest(a, own) == a.cid \in sent /\ (a.cid \in own <=> a.to = page.uid)

\* Two messages are the same only if they are one message to oneself.
Distinct(x, y) ==
  /\ x.client_msg_id = y.client_msg_id => x.client_msg_id = 0
  /\ x.msg_id = y.msg_id /\ x.msg_id # 0 => x.from_uid = x.to_uid

\* What a socket is about to deliver, and what is asked of the server on it.
LineGood(s, own) ==
  /\ \A j \in DOMAIN s.down : GoodItem(s.down[j], own)
  /\ \A a \in s.asked : GoodRequest(a, own)

MessagesGood(own) ==
  \A k \in Uid : \A i \in DOMAIN Messages(page)[k] : Good(Messages(page)[k][i], k, own)

ContentWith(own) ==
  /\ MessagesGood(own)
  /\ \A n \in 1..MaxLogins : sock[n].state = "open" => LineGood(sock[n], own)

NoneTwice(M) ==
  \A k, l \in Uid : \A i \in DOMAIN M[k], j \in DOMAIN M[l] :
    <<k, i>> # <<l, j>> => Distinct(M[k][i], M[l][j])

NoRepeats == NoneTwice(Messages(page))

Content == NoRepeats /\ \E own \in SUBSET ClientMsgId : ContentWith(own)

IInv == Types /\ View /\ Session /\ Content

-----------------------------------------------------------------------------
(* The operators of the page *)

LEMMA PutType ==
  ASSUME NEW S, NEW T, NEW f \in MapOf(S, T), NEW k \in S, NEW v \in T
  PROVE  Put(f, k, v) \in MapOf(S, T)
<1>1. DOMAIN f \subseteq S /\ \A x \in DOMAIN f : f[x] \in T
  BY Zenon DEF MapOf
<1>2. Put(f, k, v) \in [DOMAIN f \cup {k} -> T] /\ DOMAIN f \cup {k} \in SUBSET S
  BY Zenon, <1>1 DEF Put
<1> QED BY Zenon, <1>2 DEF MapOf

LEMMA MapIs ==
  ASSUME NEW S, NEW T, NEW f \in MapOf(S, T)
  PROVE  DOMAIN f \subseteq S /\ f \in [DOMAIN f -> T]
BY Zenon DEF MapOf

LEMMA MapUpdate ==
  ASSUME NEW S, NEW T, NEW f \in MapOf(S, T), NEW k \in DOMAIN f, NEW v \in T
  PROVE  /\ [f EXCEPT ![k] = v] \in MapOf(S, T)
         /\ DOMAIN [f EXCEPT ![k] = v] = DOMAIN f
<1>1. DOMAIN f \subseteq S /\ f \in [DOMAIN f -> T]
  BY Zenon, MapIs
<1>2. [f EXCEPT ![k] = v] \in [DOMAIN f -> T]
  BY Zenon, <1>1
<1> QED BY Zenon, <1>1, <1>2 DEF MapOf

LEMMA EmptyMapType == \A S, T : EmptyMap \in MapOf(S, T) /\ DOMAIN EmptyMap = {}
<1> SUFFICES ASSUME NEW S, NEW T PROVE EmptyMap \in MapOf(S, T) /\ DOMAIN EmptyMap = {}
  BY Zenon
<1>1. EmptyMap \in [{} -> T] /\ {} \in SUBSET S /\ DOMAIN EmptyMap = {}
  BY Zenon DEF EmptyMap
<1> QED BY Zenon, <1>1 DEF MapOf

LEMMA EraseType ==
  ASSUME NEW S, NEW T, NEW f \in MapOf(S, T), NEW k
  PROVE  Erase(f, k) \in MapOf(S, T)
<1>1. DOMAIN f \subseteq S /\ f \in [DOMAIN f -> T]
  BY Zenon, MapIs
<1>2. Erase(f, k) \in [DOMAIN f \ {k} -> T] /\ DOMAIN f \ {k} \in SUBSET S
  BY Zenon, <1>1 DEF Erase, Restrict
<1> QED BY Zenon, <1>2 DEF MapOf

\* The window of a chat is a part of its messages, and not empty if its size is not.
LEMMA WindowIs ==
  ASSUME NEW c \in Conversation
  PROVE  /\ getVisibleMessageCount(c) \in 0..Len(c.messages)
         /\ getVisibleMessages(c) \in Seq(ChatMessage)
         /\ c.messages # <<>> /\ c.visibleMessageCount # 0 => getVisibleMessages(c) # <<>>
<1> DEFINE n == Len(c.messages)
           v == getVisibleMessageCount(c)
<1>1. c.messages \in Seq(ChatMessage) /\ n \in Nat /\ c.visibleMessageCount \in Nat
  BY DEF Conversation
<1>2. v \in 0..n /\ (n # 0 /\ c.visibleMessageCount # 0 => v # 0)
  BY <1>1 DEF getVisibleMessageCount
<1> HIDE DEF v
<1>3. n - v + 1 \in 1..(n + 1)
  BY <1>1, <1>2
<1>4. ASSUME NEW m \in 1..(n + 1)
      PROVE  /\ SubSeq(c.messages, m, n) \in Seq(ChatMessage)
             /\ m <= n => SubSeq(c.messages, m, n) # <<>>
  <2>1. /\ SubSeq(c.messages, m, n) \in Seq(ChatMessage)
        /\ m <= n => Len(SubSeq(c.messages, m, n)) = n - m + 1
    BY <1>1
  <2>2. m <= n => n - m + 1 # 0
    BY <1>1
  <2> QED BY Zenon, <2>1, <2>2
<1>5. v # 0 => n - v + 1 <= n
  BY <1>1, <1>2
<1>6. c.messages # <<>> => n # 0
  BY <1>1
<1> QED BY Zenon, <1>2, <1>3, <1>4, <1>5, <1>6 DEF getVisibleMessages, v

LEMMA ResetWindowIs ==
  ASSUME NEW c \in Conversation
  PROVE  LET d == resetVisibleMessageWindow(c)
         IN  /\ d \in Conversation /\ d.messages = c.messages /\ d.unread = c.unread
             /\ c.messages # <<>> => d.visibleMessageCount # 0
<1>1. c.messages \in Seq(ChatMessage) /\ Len(c.messages) \in Nat
      /\ (c.messages # <<>> => Len(c.messages) # 0)
  BY DEF Conversation
<1>2. /\ AtMostPage(Len(c.messages)) \in Nat
      /\ c.messages # <<>> => AtMostPage(Len(c.messages)) # 0
  BY Zenon, <1>1, PageAssumption DEF AtMostPage
<1> QED BY Zenon, <1>2 DEF resetVisibleMessageWindow, Conversation

LEMMA AppendWindowIs ==
  ASSUME NEW c \in Conversation, c.messages # <<>>, NEW keepTop \in BOOLEAN
  PROVE  LET d == updateVisibleWindowAfterAppend(c, keepTop)
         IN  /\ d \in Conversation /\ d.messages = c.messages /\ d.unread = c.unread
             /\ d.visibleMessageCount # 0
<1> DEFINE n == Len(c.messages)
           v == getVisibleMessageCount(c)
<1>1. n \in Nat /\ n # 0 /\ v \in 0..n /\ c.visibleMessageCount \in Nat
      /\ (v # 0 => c.visibleMessageCount # 0)
  BY WindowIs DEF Conversation, getVisibleMessageCount
<1>2. LET w == IF v < n THEN v + 1 ELSE n IN w \in Nat /\ w # 0
  BY <1>1
<1>3. CASE keepTop
  BY Zenon, <1>2, <1>3 DEF updateVisibleWindowAfterAppend, Conversation
<1>4. CASE ~keepTop
  <2> HIDE DEF v
  <2>1. CASE v = 0
    BY Zenon, <1>4, <2>1, ResetWindowIs DEF updateVisibleWindowAfterAppend, v
  <2>2. CASE v # 0
    BY Zenon, <1>1, <1>4, <2>2 DEF updateVisibleWindowAfterAppend, v
  <2> QED BY Zenon, <2>1, <2>2
<1> QED BY Zenon, <1>3, <1>4

\* What the operators leave alone: all but the chats, and all but what is shown.
AllButChats(p, q) ==
  /\ q.view = p.view /\ q.uid = p.uid /\ q.ws = p.ws /\ q.connected = p.connected
  /\ q.active = p.active /\ q.pending = p.pending /\ q.rendered = p.rendered
  /\ q.timer = p.timer /\ q.pane = p.pane /\ q.list = p.list /\ q.composer = p.composer

AllButShown(p, q) ==
  /\ q.view = p.view /\ q.uid = p.uid /\ q.ws = p.ws /\ q.connected = p.connected
  /\ q.active = p.active /\ q.conversations = p.conversations /\ q.pending = p.pending
  /\ q.rendered = p.rendered /\ q.timer = p.timer

\* Rendering everything makes the view current.
LEMMA RenderIs ==
  ASSUME NEW p, Shape(p)
  PROVE  /\ LET q == renderMessages(renderConversationList(p))
            IN  Shape(q) /\ Shown(q) /\ AllButShown(p, q)
         /\ LET q == renderConversationList(renderMessages(p))
            IN  Shape(q) /\ Shown(q) /\ AllButShown(p, q)
<1> DEFINE list == [peer \in DOMAIN p.conversations |-> p.conversations[peer].unread]
           on == p.connected /\ p.active # 0
           pane == IF p.active = 0 THEN <<>> ELSE getVisibleMessages(p.conversations[p.active])
           q == [p EXCEPT !.list = list, !.composer = on, !.pane = pane]
<1>1. p \in Page /\ p.conversations \in MapOf(Uid, Conversation)
  BY Zenon DEF Shape, Page
<1>2. /\ DOMAIN p.conversations \subseteq Uid
      /\ \A k \in DOMAIN p.conversations : p.conversations[k] \in Conversation
  BY <1>1, MapIs
<1>3. list \in MapOf(Uid, Nat)
  <2>1. list \in [DOMAIN p.conversations -> Nat]
    BY Zenon, <1>2 DEF Conversation
  <2> QED BY Zenon, <1>2, <2>1 DEF MapOf
<1>4. pane \in Seq(ChatMessage)
  <2>1. <<>> \in Seq(ChatMessage)
    OBVIOUS
  <2> QED BY Zenon, <1>2, <2>1, WindowIs DEF Shape
<1>5. on \in BOOLEAN
  BY Zenon, <1>1 DEF Page
<1> HIDE DEF list, on, pane
<1>6. q \in Page /\ AllButShown(p, q) /\ q.list = list /\ q.composer = on /\ q.pane = pane
  BY Zenon, <1>1, <1>3, <1>4, <1>5 DEF Page, AllButShown
<1>7. /\ renderMessages(renderConversationList(p)) = q
      /\ renderConversationList(renderMessages(p)) = q
  BY Zenon, <1>1
  DEF renderMessages, renderConversationList, setComposerEnabled, list, on, pane, Page
<1>8. renderConversationList(q).list = list
  BY Zenon, <1>6 DEF renderConversationList, AllButShown, Page, list
<1> HIDE DEF q
<1>9. Shape(q)
  BY Zenon, <1>6 DEF Shape, AllButShown
<1>10. Shown(q)
  BY Zenon, <1>6, <1>8 DEF Shown, ComposerShown, ListShown, PaneShown, AllButShown, on, pane
<1> QED BY Zenon, <1>6, <1>7, <1>9, <1>10

LEMMA MessagesType ==
  ASSUME NEW p \in Page PROVE Messages(p) \in [Uid -> Seq(ChatMessage)]
<1>0. p.conversations \in MapOf(Uid, Conversation)
  BY Zenon DEF Page
<1>1. /\ DOMAIN p.conversations \subseteq Uid
      /\ \A k \in DOMAIN p.conversations : p.conversations[k].messages \in Seq(ChatMessage)
  <2>1. DOMAIN p.conversations \subseteq Uid
        /\ p.conversations \in [DOMAIN p.conversations -> Conversation]
    BY Zenon, <1>0, MapIs
  <2> QED BY Zenon, <2>1 DEF Conversation
<1>2. <<>> \in Seq(ChatMessage)
  OBVIOUS
<1> QED BY Zenon, <1>1, <1>2 DEF Messages

\* Exactly the chat with k gets new messages and a new window.
ChatBecomes(p, q, k, messages) ==
  /\ AllButChats(p, q)
  /\ DOMAIN q.conversations = DOMAIN p.conversations \cup {k}
  /\ \A j \in DOMAIN p.conversations : j # k => q.conversations[j] = p.conversations[j]
  /\ Messages(q) = [Messages(p) EXCEPT ![k] = messages]

\* A chat is replaced by another one.
LEMMA ReplaceChat ==
  ASSUME NEW p, Shape(p), NEW k \in DOMAIN p.conversations, NEW c \in Conversation,
         c.messages # <<>> => c.visibleMessageCount # 0
  PROVE  LET q == [p EXCEPT !.conversations[k] = c]
         IN  Shape(q) /\ ChatBecomes(p, q, k, c.messages) /\ q.conversations[k] = c
<1> DEFINE q == [p EXCEPT !.conversations[k] = c]
<1>1. p \in Page /\ p.conversations \in MapOf(Uid, Conversation) /\ k \in Uid
  BY Zenon, MapIs DEF Shape, Page
<1>2. [p.conversations EXCEPT ![k] = c] \in MapOf(Uid, Conversation)
  BY Zenon, <1>1, MapUpdate
<1>3. /\ q.conversations = [p.conversations EXCEPT ![k] = c] /\ AllButChats(p, q)
      /\ q \in Page
  BY Zenon, <1>1, <1>2 DEF Page, AllButChats
<1>4. /\ DOMAIN q.conversations = DOMAIN p.conversations /\ q.conversations[k] = c
      /\ \A j \in DOMAIN p.conversations : j # k => q.conversations[j] = p.conversations[j]
  BY Zenon, <1>1, <1>3, MapIs
<1> HIDE DEF q
<1>5. Messages(q) = [Messages(p) EXCEPT ![k] = c.messages]
  BY Zenon, <1>1, <1>4 DEF Messages
<1>6. Shape(q)
  BY <1>3, <1>4 DEF Shape, AllButChats
<1> QED BY Zenon, <1>3, <1>4, <1>5, <1>6 DEF ChatBecomes, q

NoMessages == [messages |-> <<>>, unread |-> 0, visibleMessageCount |-> 0]

LEMMA NoMessagesType == NoMessages \in Conversation
<1>1. <<>> \in Seq(ChatMessage)
  OBVIOUS
<1> QED BY Zenon, <1>1 DEF NoMessages, Conversation

LEMMA AddConversationIs ==
  ASSUME NEW p, Shape(p), NEW k \in Uid
  PROVE  LET q == addConversation(p, k)
         IN  /\ Shape(q) /\ ChatBecomes(p, q, k, Messages(p)[k])
             /\ q.conversations[k].messages = Messages(p)[k]
             /\ k \in DOMAIN p.conversations => q = p
<1> DEFINE f == Put(p.conversations, k, NoMessages)
           q == [p EXCEPT !.conversations = f]
<1>0. Messages(p) \in [Uid -> Seq(ChatMessage)]
  BY Zenon, MessagesType DEF Shape
<1>1. CASE k \in DOMAIN p.conversations
  BY Zenon, <1>0, <1>1 DEF addConversation, ChatBecomes, AllButChats, Messages
<1>2. CASE k \notin DOMAIN p.conversations
  <2>1. p \in Page /\ p.conversations \in MapOf(Uid, Conversation)
    BY Zenon DEF Shape, Page
  <2>2. /\ f \in MapOf(Uid, Conversation) /\ DOMAIN f = DOMAIN p.conversations \cup {k}
        /\ f[k] = NoMessages /\ \A x \in DOMAIN p.conversations : x # k => f[x] = p.conversations[x]
    <3>1. f \in MapOf(Uid, Conversation)
      BY Zenon, <2>1, PutType, NoMessagesType
    <3> QED BY Zenon, <3>1 DEF Put
  <2> HIDE DEF f
  <2>3. q.conversations = f /\ AllButChats(p, q) /\ q \in Page
    BY Zenon, <2>1, <2>2 DEF Page, AllButChats
  <2>4. q = addConversation(p, k)
    BY Zenon, <1>2, <2>1 DEF addConversation, NoMessages, Page, f
  <2> HIDE DEF q
  <2>5. NoMessages.messages = <<>>
    BY Zenon DEF NoMessages
  <2>6. Messages(q) = [Messages(p) EXCEPT ![k] = Messages(p)[k]]
    BY Zenon, <1>2, <2>2, <2>3, <2>5 DEF Messages
  <2>7. Shape(q)
    BY Zenon, <2>2, <2>3, <2>5 DEF Shape, AllButChats
  <2>8. q.conversations[k].messages = Messages(p)[k]
    BY Zenon, <1>2, <2>2, <2>3, <2>5 DEF Messages
  <2> QED BY Zenon, <1>2, <2>2, <2>3, <2>4, <2>6, <2>7, <2>8 DEF ChatBecomes
<1> QED BY Zenon, <1>1, <1>2

LEMMA PushedIs ==
  ASSUME NEW p, Shape(p), NEW k \in Uid, NEW x \in ChatMessage, NEW keepTop \in BOOLEAN
  PROVE  LET q == Pushed(p, k, x, keepTop)
         IN  Shape(q) /\ ChatBecomes(p, q, k, Append(Messages(p)[k], x))
<1> DEFINE r == addConversation(p, k)
           c == [r.conversations[k] EXCEPT !.messages = Append(@, x)]
           d == updateVisibleWindowAfterAppend(c, keepTop)
           q == [r EXCEPT !.conversations[k] = d]
<1>1. /\ Shape(r) /\ ChatBecomes(p, r, k, Messages(p)[k])
      /\ r.conversations[k].messages = Messages(p)[k]
  BY Zenon, AddConversationIs
<1>2. k \in DOMAIN r.conversations /\ r.conversations \in MapOf(Uid, Conversation)
  BY Zenon, <1>1 DEF ChatBecomes, Shape, Page
<1>3. r.conversations[k] \in Conversation
  BY <1>2, MapIs
<1>4. Messages(p) \in [Uid -> Seq(ChatMessage)]
  BY Zenon, MessagesType DEF Shape
<1>5. Append(Messages(p)[k], x) \in Seq(ChatMessage) /\ Append(Messages(p)[k], x) # <<>>
  BY <1>4
<1>6. c \in Conversation /\ c.messages = Append(Messages(p)[k], x)
  BY Zenon, <1>1, <1>3, <1>5 DEF Conversation
<1> HIDE DEF r, c
<1>7. d \in Conversation /\ d.messages = c.messages /\ d.visibleMessageCount # 0
  BY Zenon, <1>5, <1>6, AppendWindowIs
<1> HIDE DEF d
<1>8. Shape(q) /\ ChatBecomes(r, q, k, d.messages)
  BY Zenon, <1>1, <1>2, <1>7, ReplaceChat
<1>9. q = Pushed(p, k, x, keepTop)
  BY Zenon DEF Pushed, r, c, d
<1> HIDE DEF q
<1>10. ChatBecomes(p, q, k, d.messages)
  BY Zenon, <1>1, <1>4, <1>8 DEF ChatBecomes, AllButChats
<1> QED BY Zenon, <1>6, <1>7, <1>8, <1>9, <1>10

\* What the page does apart from its chats and its view.
SameSession(p, q) ==
  q.view = p.view /\ q.uid = p.uid /\ q.ws = p.ws /\ q.connected = p.connected

Notice == Message("system", 0, 0, 0, 0, "notice")

LEMMA NoticeType == Notice \in ChatMessage
BY Zenon DEF Notice, Message, ChatMessage

LEMMA AddSystemIs ==
  ASSUME NEW p, Shape(p), NEW k \in Uid, NEW nearBottom \in BOOLEAN
  PROVE  LET q == addSystemMessageToConversation(p, k, nearBottom)
         IN  /\ Shape(q) /\ Shown(q) /\ SameSession(p, q) /\ q.active = p.active
             /\ q.rendered = p.rendered
             /\ Messages(q) = [Messages(p) EXCEPT ![k] = Append(Messages(p)[k], Notice)]
<1> DEFINE keepTop == p.active = k /\ ~nearBottom
           r == Pushed(p, k, Notice, keepTop)
           q == renderMessages(renderConversationList(r))
<1>1. keepTop \in BOOLEAN
  BY Zenon
<1>2. q = addSystemMessageToConversation(p, k, nearBottom)
  BY Zenon DEF addSystemMessageToConversation, Notice
<1> HIDE DEF keepTop
<1>3. Shape(r) /\ ChatBecomes(p, r, k, Append(Messages(p)[k], Notice))
  BY Zenon, <1>1, NoticeType, PushedIs
<1> HIDE DEF r
<1>4. Shape(q) /\ Shown(q) /\ AllButShown(r, q)
  BY Zenon, <1>3, RenderIs
<1> HIDE DEF q
<1>5. Messages(q) = Messages(r)
  BY Zenon, <1>4 DEF Messages, AllButShown
<1> QED BY Zenon, <1>2, <1>3, <1>4, <1>5 DEF ChatBecomes, AllButChats, AllButShown, SameSession

\* What a push becomes in its chat.
PeerOf(p, m) == IF m.from = p.uid THEN m.to ELSE m.from
Incoming(p, m) ==
  Message(IF m.from = p.uid THEN "outgoing" ELSE "incoming", m.id, 0,
          m.from, m.to, IF m.history THEN "history" ELSE "received")

\* An incoming message is shown, or a timer is set that will show it.
LEMMA AppendIncomingIs ==
  ASSUME NEW p, Shape(p), NEW m \in Push, NEW nearBottom \in BOOLEAN
  PROVE  LET q == appendIncomingMessage(p, m, nearBottom)
             k == PeerOf(p, m)
         IN  /\ Shape(q) /\ (Shown(p) => Shown(q)) /\ SameSession(p, q)
             /\ q.rendered = p.rendered /\ k \in Uid /\ Incoming(p, m) \in ChatMessage
             /\ Messages(q) = [Messages(p) EXCEPT ![k] = Append(Messages(p)[k], Incoming(p, m))]
<1> DEFINE k == PeerOf(p, m)
           x == Incoming(p, m)
           isActive == p.active = k
           keepTop == isActive /\ ~nearBottom
           r == Pushed(p, k, x, keepTop)
           s == IF ~isActive /\ ~m.history THEN [r EXCEPT !.conversations[k].unread = @ + 1] ELSE r
           timer == [on |-> TRUE, needsMessages |-> s.timer.needsMessages \/ isActive,
                     peer |-> IF isActive THEN k ELSE s.timer.peer]
           q == [s EXCEPT !.timer = timer]
<1>1. keepTop \in BOOLEAN /\ isActive \in BOOLEAN /\ k \in Uid
  BY Zenon DEF Push, PeerOf
<1>2. x \in ChatMessage
  BY Zenon DEF Push, Incoming, Message, ChatMessage, MessageIds
<1>3. q = appendIncomingMessage(p, m, nearBottom)
  BY Zenon DEF appendIncomingMessage, scheduleIncomingRender, PeerOf, Incoming
<1> HIDE DEF k, x, keepTop, isActive
<1>4. Shape(r) /\ ChatBecomes(p, r, k, Append(Messages(p)[k], x))
  BY Zenon, <1>1, <1>2, PushedIs
<1> HIDE DEF r
<1>5. /\ Shape(s) /\ AllButChats(r, s) /\ Messages(s) = Messages(r)
      /\ DOMAIN s.conversations = DOMAIN r.conversations
      /\ \A j \in DOMAIN r.conversations : j # k => s.conversations[j] = r.conversations[j]
  <2> DEFINE c == [r.conversations[k] EXCEPT !.unread = @ + 1]
  <2>1. k \in DOMAIN r.conversations /\ r.conversations \in MapOf(Uid, Conversation)
    BY Zenon, <1>4 DEF ChatBecomes, Shape, Page
  <2>2. r.conversations[k] \in Conversation
    BY <2>1, MapIs
  <2>3. /\ c \in Conversation /\ c.messages = r.conversations[k].messages
        /\ c.visibleMessageCount = r.conversations[k].visibleMessageCount
    BY <2>2 DEF Conversation
  <2>4. [r EXCEPT !.conversations[k].unread = @ + 1] = [r EXCEPT !.conversations[k] = c]
    BY Zenon, <1>4, <2>1, <2>2 DEF Shape, Page, Conversation
  <2> HIDE DEF c
  <2>5. c.messages # <<>> => c.visibleMessageCount # 0
    BY Zenon, <1>4, <2>1, <2>3 DEF Shape
  <2>6. LET t == [r EXCEPT !.conversations[k] = c]
        IN  Shape(t) /\ ChatBecomes(r, t, k, c.messages)
    BY Zenon, <1>4, <2>1, <2>3, <2>5, ReplaceChat
  <2>7. Messages(r) = [Messages(r) EXCEPT ![k] = c.messages]
    <3>1. r \in Page
      BY Zenon, <1>4 DEF Shape
    <3>2. Messages(r) \in [Uid -> Seq(ChatMessage)]
      BY Zenon, <3>1, MessagesType
    <3>3. Messages(r)[k] = c.messages
      BY Zenon, <1>1, <2>1, <2>3 DEF Messages
    <3> QED BY Zenon, <1>1, <3>2, <3>3
  <2>8. CASE ~isActive /\ ~m.history
    BY Zenon, <1>1, <2>1, <2>4, <2>6, <2>7, <2>8 DEF ChatBecomes
  <2>9. CASE ~(~isActive /\ ~m.history)
    BY Zenon, <1>4, <2>9 DEF AllButChats
  <2> QED BY Zenon, <2>8, <2>9
<1> HIDE DEF s
<1>6. timer \in Timer
  BY Zenon, <1>1, <1>5 DEF Shape, Page, Timer
<1> HIDE DEF timer
<1>7. /\ q \in Page /\ q.timer = timer /\ q.conversations = s.conversations
      /\ q.view = s.view /\ q.uid = s.uid /\ q.ws = s.ws /\ q.connected = s.connected
      /\ q.active = s.active /\ q.pending = s.pending /\ q.rendered = s.rendered
      /\ q.pane = s.pane /\ q.list = s.list /\ q.composer = s.composer
  BY Zenon, <1>5, <1>6 DEF Shape, Page
<1> HIDE DEF q
<1>8. Shape(q)
  BY Zenon, <1>5, <1>7 DEF Shape
<1>9. Messages(q) = Messages(s)
  BY Zenon, <1>7 DEF Messages
<1>10. ASSUME Shown(p) PROVE Shown(q)
  <2>1. /\ q.composer = p.composer /\ q.connected = p.connected /\ q.active = p.active
        /\ q.pane = p.pane /\ s.timer = p.timer
    BY Zenon, <1>4, <1>5, <1>7 DEF ChatBecomes, AllButChats
  <2>2. /\ q.timer.on /\ (isActive => q.timer.needsMessages /\ q.timer.peer = k)
        /\ ~isActive => /\ q.timer.peer = p.timer.peer
                        /\ p.timer.needsMessages => q.timer.needsMessages
    <3>1. /\ timer.on /\ timer.needsMessages = (s.timer.needsMessages \/ isActive)
          /\ timer.peer = IF isActive THEN k ELSE s.timer.peer
      BY Zenon DEF timer
    <3>2. CASE isActive
      BY Zenon, <1>7, <3>1, <3>2
    <3>3. CASE ~isActive
      <4>1. q.timer.on /\ q.timer.peer = p.timer.peer
        BY Zenon, <1>7, <2>1, <3>1, <3>3
      <4>2. p.timer.needsMessages => q.timer.needsMessages
        BY Zenon, <1>7, <2>1, <3>1, Zenon
      <4> QED BY Zenon, <3>3, <4>1, <4>2
    <3> QED BY Zenon, <3>2, <3>3
  <2>3. ~isActive /\ p.active # 0 => q.conversations[p.active] = p.conversations[p.active]
    BY ZenonT(60), <1>4, <1>5, <1>7 DEF ChatBecomes, isActive, Shape
  <2> QED BY Zenon, <1>10, <2>1, <2>2, <2>3 DEF Shown, ComposerShown, PaneShown, isActive
<1>11. SameSession(p, q) /\ q.rendered = p.rendered
  BY Zenon, <1>4, <1>5, <1>7 DEF ChatBecomes, AllButChats, SameSession
<1>12. Messages(q) = [Messages(p) EXCEPT ![k] = Append(Messages(p)[k], x)]
  BY Zenon, <1>4, <1>5, <1>9 DEF ChatBecomes
<1> QED BY Zenon, <1>1, <1>2, <1>3, <1>8, <1>10, <1>11, <1>12 DEF k, x

\* What a send_ack does to a message, and to the messages of a chat.
Settled(x, m) ==
  IF x.client_msg_id # m.cid THEN x
  ELSE [x EXCEPT !.msg_id = IF m.ok THEN m.cid ELSE 0,
                 !.status = IF m.ok THEN "sent" ELSE "failed"]
AllSettled(s, m) == [i \in DOMAIN s |-> Settled(s[i], m)]

LEMMA SettledType ==
  ASSUME NEW s \in Seq(ChatMessage), NEW m \in SendAck
  PROVE  /\ \A x \in ChatMessage : Settled(x, m) \in ChatMessage
         /\ AllSettled(s, m) \in Seq(ChatMessage) /\ DOMAIN AllSettled(s, m) = DOMAIN s
         /\ AllSettled(s, m) # <<>> => s # <<>>
<1>1. ASSUME NEW x \in ChatMessage PROVE Settled(x, m) \in ChatMessage
  <2> DEFINE id == IF m.ok THEN m.cid ELSE 0
             st == IF m.ok THEN "sent" ELSE "failed"
  <2>1. id \in MessageIds \cup {0} /\ st \in {"sent", "failed"}
    BY Zenon DEF SendAck, MessageIds
  <2> HIDE DEF id, st
  <2>2. [x EXCEPT !.msg_id = id, !.status = st] \in ChatMessage
    BY Zenon, <2>1 DEF ChatMessage
  <2> QED BY Zenon, <2>2 DEF Settled, id, st
<1>2. Len(s) \in Nat /\ DOMAIN s = 1..Len(s) /\ \A i \in 1..Len(s) : s[i] \in ChatMessage
  OBVIOUS
<1>3. AllSettled(s, m) = [i \in 1..Len(s) |-> Settled(s[i], m)]
  BY Zenon, <1>2 DEF AllSettled
<1>4. AllSettled(s, m) \in [1..Len(s) -> ChatMessage]
  BY Zenon, <1>1, <1>2, <1>3
<1>5. AllSettled(s, m) \in Seq(ChatMessage)
  BY <1>2, <1>4
<1>6. DOMAIN AllSettled(s, m) = DOMAIN s
  BY Zenon, <1>2, <1>4
<1>7. AllSettled(s, m) # <<>> => s # <<>>
  BY <1>5, <1>6
<1> QED BY Zenon, <1>1, <1>5, <1>6, <1>7

LEMMA SendAckIs ==
  ASSUME NEW p, Shape(p), NEW m \in SendAck, m.cid \in DOMAIN p.pending,
         NEW nearBottom \in BOOLEAN
  PROVE  LET q == applySendAck(p, m, nearBottom)
             k == p.pending[m.cid]
         IN  /\ Shape(q) /\ Shown(q) /\ SameSession(p, q) /\ k \in Uid
             /\ q.rendered = IF m.ok THEN p.rendered \cup {m.cid} ELSE p.rendered
             /\ Messages(q) = [Messages(p) EXCEPT ![k] = AllSettled(Messages(p)[k], m)]
<1> DEFINE k == p.pending[m.cid]
           old == p.conversations[k]
           c == [old EXCEPT !.messages = AllSettled(@, m)]
           shown == IF m.ok THEN p.rendered \cup {m.cid} ELSE p.rendered
           waits == Erase(p.pending, m.cid)
           r == [p EXCEPT !.conversations[k] = c]
           s == [r EXCEPT !.rendered = shown, !.pending = waits]
           q == renderMessages(renderConversationList(s))
<1>1. /\ p \in Page /\ p.conversations \in MapOf(Uid, Conversation)
      /\ p.pending \in MapOf(ClientMsgId, Uid) /\ p.rendered \subseteq MessageIds
  BY Zenon DEF Shape, Page
<1>2. k \in Uid /\ k \in DOMAIN p.conversations
  BY Zenon, <1>1, MapIs DEF Shape
<1>3. old \in Conversation /\ old.messages \in Seq(ChatMessage) /\ old.messages = Messages(p)[k]
      /\ (old.messages # <<>> => old.visibleMessageCount # 0)
  <2>1. old \in Conversation
    BY <1>1, <1>2, MapIs
  <2> QED BY Zenon, <1>2, <2>1 DEF Conversation, Messages, Shape
<1>4. c \in Conversation /\ c.messages = AllSettled(Messages(p)[k], m)
      /\ (c.messages # <<>> => c.visibleMessageCount # 0)
  BY Zenon, <1>3, SettledType DEF Conversation
<1>5. q = applySendAck(p, m, nearBottom)
  <2>1. s = [p EXCEPT !.conversations[k].messages =
                            [i \in DOMAIN @ |-> Settled(@[i], m)],
                          !.rendered = IF m.ok THEN @ \cup {m.cid} ELSE @,
                          !.pending = Erase(@, m.cid)]
    BY Zenon, <1>1, <1>2, <1>3 DEF Page, Conversation, AllSettled
  <2> HIDE DEF s
  <2> QED BY Zenon, <2>1 DEF applySendAck, Settled
<1>6. shown \subseteq MessageIds /\ waits \in MapOf(ClientMsgId, Uid)
      /\ \A cid \in DOMAIN waits : cid \in DOMAIN p.pending /\ waits[cid] = p.pending[cid]
  <2>1. waits \in MapOf(ClientMsgId, Uid)
    BY Zenon, <1>1, EraseType
  <2> QED BY Zenon, <1>1, <2>1 DEF SendAck, MessageIds, Erase, Restrict
<1> HIDE DEF k, c, shown, waits, old
<1>7. Shape(r) /\ ChatBecomes(p, r, k, c.messages)
  BY Zenon, <1>2, <1>4, ReplaceChat
<1> HIDE DEF r
<1>8. /\ s \in Page /\ s.conversations = r.conversations /\ SameSession(r, s)
      /\ s.active = r.active /\ s.pending = waits /\ s.rendered = shown
  BY Zenon, <1>6, <1>7 DEF Shape, Page, SameSession
<1> HIDE DEF s
<1>9. Shape(s)
  BY Zenon, <1>6, <1>7, <1>8 DEF Shape, ChatBecomes, AllButChats
<1>10. Shape(q) /\ Shown(q) /\ AllButShown(s, q)
  BY Zenon, <1>9, RenderIs
<1> HIDE DEF q
<1>11. Messages(q) = Messages(r)
  BY Zenon, <1>8, <1>10 DEF Messages, AllButShown
<1>12. SameSession(p, q) /\ q.rendered = shown
  BY Zenon, <1>7, <1>8, <1>10 DEF ChatBecomes, AllButChats, AllButShown, SameSession
<1> QED BY Zenon, <1>2, <1>4, <1>5, <1>7, <1>10, <1>11, <1>12 DEF ChatBecomes, k, shown

\* Selecting a chat shows it.
LEMMA SelectIs ==
  ASSUME NEW p, Shape(p), NEW k \in Uid
  PROVE  LET q == selectConversation(p, k)
         IN  /\ Shape(q) /\ Shown(q) /\ SameSession(p, q)
             /\ q.rendered = p.rendered /\ Messages(q) = Messages(p)
<1> DEFINE a == addConversation(p, k)
           b == [a EXCEPT !.active = k]
           c == [b.conversations[k] EXCEPT !.unread = 0]
           d == resetVisibleMessageWindow(c)
           r == [b EXCEPT !.conversations[k] = d]
           s == renderMessages(renderConversationList(r))
           q == setComposerEnabled(s, r.connected)
<1>1. q = selectConversation(p, k)
  BY Zenon DEF selectConversation
<1>2. /\ Shape(a) /\ ChatBecomes(p, a, k, Messages(p)[k])
      /\ a.conversations[k].messages = Messages(p)[k]
  BY Zenon, AddConversationIs
<1>3. Messages(p) \in [Uid -> Seq(ChatMessage)]
  BY Zenon, MessagesType DEF Shape
<1> HIDE DEF a
<1>4. /\ b \in Page /\ b.active = k /\ b.conversations = a.conversations /\ b.pending = a.pending
      /\ b.rendered = a.rendered /\ SameSession(a, b)
  BY Zenon, <1>2 DEF Shape, Page, SameSession
<1> HIDE DEF b
<1>5. Shape(b) /\ Messages(b) = Messages(a) /\ k \in DOMAIN b.conversations
  BY ZenonT(60), <1>2, <1>4 DEF Shape, Messages, ChatBecomes
<1>6. b.conversations[k] \in Conversation
  BY <1>4, <1>5, MapIs DEF Page
<1>7. c \in Conversation /\ c.messages = b.conversations[k].messages
  BY Zenon, <1>6 DEF Conversation
<1> HIDE DEF c
<1>8. /\ d \in Conversation /\ d.messages = Messages(p)[k]
      /\ d.messages # <<>> => d.visibleMessageCount # 0
  BY Zenon, <1>2, <1>4, <1>7, ResetWindowIs
<1> HIDE DEF d
<1>9. Shape(r) /\ ChatBecomes(b, r, k, d.messages)
  BY Zenon, <1>5, <1>8, ReplaceChat
<1>10. Messages(r) = Messages(p)
  BY Zenon, <1>2, <1>3, <1>5, <1>8, <1>9 DEF ChatBecomes
<1>11. SameSession(p, r) /\ r.rendered = p.rendered
  BY Zenon, <1>2, <1>4, <1>9 DEF ChatBecomes, AllButChats, SameSession
<1> HIDE DEF r
<1>12. Shape(s) /\ Shown(s) /\ AllButShown(r, s)
  BY Zenon, <1>9, RenderIs
<1> HIDE DEF s
<1>13. q = s
  <2>1. s \in Page /\ s.composer = (r.connected /\ s.active # 0)
    BY Zenon, <1>12 DEF Shape, Shown, ComposerShown, AllButShown
  <2> QED BY Zenon, <2>1 DEF setComposerEnabled, Page
<1>14. Messages(s) = Messages(r)
  BY Zenon, <1>12 DEF AllButShown, Messages
<1> HIDE DEF q
<1> QED BY Zenon, <1>1, <1>10, <1>11, <1>12, <1>13, <1>14 DEF AllButShown, SameSession

-----------------------------------------------------------------------------
(* The gateway *)

Goal == Types' /\ View' /\ Session' /\ Content'

LEMMA ConcatElements ==
  ASSUME NEW a \in Seq(Item), NEW b \in Seq(Item)
  PROVE  /\ a \o b \in Seq(Item)
         /\ \A j \in DOMAIN (a \o b) : \/ \E i \in DOMAIN a : (a \o b)[j] = a[i]
                                       \/ \E i \in DOMAIN b : (a \o b)[j] = b[i]
<1>1. /\ a \o b \in Seq(Item) /\ Len(a) \in Nat /\ Len(b) \in Nat
      /\ DOMAIN a = 1..Len(a) /\ DOMAIN b = 1..Len(b) /\ DOMAIN (a \o b) = 1..(Len(a) + Len(b))
  OBVIOUS
<1>2. ASSUME NEW j \in 1..(Len(a) + Len(b)), j <= Len(a)
      PROVE  j \in DOMAIN a /\ (a \o b)[j] = a[j]
  BY <1>1, <1>2
<1>3. ASSUME NEW j \in 1..(Len(a) + Len(b)), ~(j <= Len(a))
      PROVE  j - Len(a) \in DOMAIN b /\ (a \o b)[j] = b[j - Len(a)]
  BY <1>1, <1>3
<1> QED BY Zenon, <1>1, <1>2, <1>3

\* A step of the gateway that leaves the states of the sockets alone.
LEMMA GatewayStep ==
  ASSUME Types, View, Session, Content,
         UNCHANGED <<page, logins, sent, acks>>,
         \A n \in DOMAIN tokens' : n \in DOMAIN tokens /\ tokens'[n].uid = tokens[n].uid,
         sock' \in [1..MaxLogins -> Socket],
         \A n \in 1..MaxLogins :
           /\ sock'[n].state = sock[n].state /\ sock'[n].uid = sock[n].uid
           /\ sock'[n].told = sock[n].told
           /\ sock[n].state = "none" => sock'[n] = sock[n]
           /\ sock[n].state = "connecting" => sock'[n].asked = sock[n].asked
           /\ sock[n].state = "open" => \A own \in SUBSET ClientMsgId :
                LineGood(sock[n], own) => LineGood(sock'[n], own)
  PROVE  Goal
<1>1. Types' /\ View'
  BY Zenon DEF Types, View
<1>2. Session'
  <2>1. page.ws \in 0..MaxLogins /\ (page.ws # 0 => page.ws \in 1..MaxLogins)
    BY DEF Types, Page
  <2> QED BY ZenonT(60), <2>1 DEF Session, Types
<1>3. Content'
  <2>1. PICK own \in SUBSET ClientMsgId : ContentWith(own)
    BY Zenon DEF Content
  <2>2. NoRepeats'
    BY Zenon DEF Content, NoRepeats
  <2>3. MessagesGood(own)'
    BY <2>1 DEF ContentWith, MessagesGood, Good
  <2>4. \A n \in 1..MaxLogins : sock'[n].state = "open" => LineGood(sock'[n], own)
    BY Zenon, <2>1 DEF ContentWith
  <2>5. \A n \in 1..MaxLogins : (sock[n].state = "open" => LineGood(sock[n], own))'
    BY ZenonT(60), <2>4 DEF LineGood, GoodItem, GoodRequest
  <2> QED BY Zenon, <2>2, <2>3, <2>5 DEF Content, ContentWith
<1> QED BY Zenon, <1>1, <1>2, <1>3 DEF Goal

\* The gateway appends to what an open socket delivers, and forgets requests.
LEMMA GatewaySends ==
  ASSUME Types, View, Session, Content, NEW n \in 1..MaxLogins, sock[n].state = "open",
         UNCHANGED <<page, logins, sent, acks, tokens>>,
         NEW items \in Seq(Item), NEW asked \in SUBSET sock[n].asked,
         \A own \in SUBSET ClientMsgId : LineGood(sock[n], own) =>
           \A i \in DOMAIN items : GoodItem(items[i], own),
         sock' = [sock EXCEPT ![n].down = @ \o items, ![n].asked = asked]
  PROVE  Goal
<1>1. sock \in [1..MaxLogins -> Socket] /\ sock[n] \in Socket
  BY Zenon DEF Types
<1>2. sock[n].down \in Seq(Item) /\ sock[n].asked \subseteq Request
  BY Zenon, <1>1 DEF Socket
<1>3. PICK down \in Seq(Item) :
        /\ down = sock[n].down \o items
        /\ \A j \in DOMAIN down : \/ \E i \in DOMAIN sock[n].down : down[j] = sock[n].down[i]
                                  \/ \E i \in DOMAIN items : down[j] = items[i]
  <2>1. LET down == sock[n].down \o items
        IN  /\ down \in Seq(Item)
            /\ \A j \in DOMAIN down : \/ \E i \in DOMAIN sock[n].down : down[j] = sock[n].down[i]
                                      \/ \E i \in DOMAIN items : down[j] = items[i]
    BY Zenon, <1>2, ConcatElements
  <2> QED BY Zenon, <2>1
<1>4. PICK s \in Socket : /\ s = [sock[n] EXCEPT !.down = down, !.asked = asked]
                          /\ s.state = sock[n].state /\ s.uid = sock[n].uid
                          /\ s.told = sock[n].told /\ s.down = down /\ s.asked = asked
  <2>1. [sock[n] EXCEPT !.down = down, !.asked = asked] \in Socket
    BY Zenon, <1>1, <1>2 DEF Socket
  <2> QED BY Zenon, <1>1, <2>1 DEF Socket
<1>5. sock' = [sock EXCEPT ![n] = s]
  BY Zenon, <1>1, <1>3, <1>4 DEF Socket
<1>6. ASSUME NEW own \in SUBSET ClientMsgId, LineGood(sock[n], own) PROVE LineGood(s, own)
  <2>1. \A i \in DOMAIN items : GoodItem(items[i], own)
    BY Zenon, <1>6
  <2>2. \A i \in DOMAIN sock[n].down : GoodItem(sock[n].down[i], own)
    BY Zenon, <1>6 DEF LineGood
  <2>3. \A j \in DOMAIN down : GoodItem(down[j], own)
    BY Zenon, <1>3, <2>1, <2>2
  <2> QED BY Zenon, <1>4, <1>6, <2>3 DEF LineGood
<1>7. sock' \in [1..MaxLogins -> Socket]
  BY Zenon, <1>1, <1>5
<1>8. sock'[n] = s /\ \A m \in 1..MaxLogins : m # n => sock'[m] = sock[m]
  BY Zenon, <1>1, <1>5
<1> QED BY Zenon, <1>4, <1>6, <1>7, <1>8, GatewayStep

LEMMA VerifyKeepsTokens ==
  ASSUME NEW n, Auth!verifyToken(n)
  PROVE  \A m \in DOMAIN tokens' : m \in DOMAIN tokens /\ tokens'[m] = tokens[m]
BY Zenon DEF Auth!verifyToken, Auth!Erase, Auth!Restrict

\* A socket opens as the user who logged in, because it brings the token of
\* its own login.
LEMMA UpgradeIs ==
  ASSUME Types, View, Session, Content, NEW n \in 1..MaxLogins, handleUpgrade(n)
  PROVE  Goal
<1>1. sock \in [1..MaxLogins -> Socket] /\ sock[n] \in Socket
  BY Zenon DEF Types
<1>2. /\ sock[n].state = "connecting" /\ sock[n].down = <<>> /\ page.ws = n
      /\ ~sock[n].told /\ sock[n].asked = {} /\ (n \in DOMAIN tokens => tokens[n].uid = page.uid)
  BY Zenon DEF handleUpgrade, Session
<1>3. \A m \in DOMAIN tokens' : m \in DOMAIN tokens /\ tokens'[m] = tokens[m]
  BY Zenon, VerifyKeepsTokens DEF handleUpgrade
<1>4. CASE Auth!Verified(n)
  <2>1. tokens[n].uid = page.uid
    BY Zenon, <1>2, <1>4 DEF Auth!Verified
  <2>2. PICK s \in Socket :
          /\ s = [sock[n] EXCEPT !.state = "open", !.uid = page.uid]
          /\ s.state = "open" /\ s.uid = page.uid /\ s.told = sock[n].told
          /\ s.down = sock[n].down /\ s.asked = sock[n].asked
    <3>1. page.uid \in Uid \cup {0}
      BY Zenon DEF Types, Page
    <3>2. [sock[n] EXCEPT !.state = "open", !.uid = page.uid] \in Socket
      BY Zenon, <1>1, <3>1 DEF Socket
    <3> QED BY Zenon, <1>1, <3>2 DEF Socket
  <2>3. sock' = [sock EXCEPT ![n] = s]
    BY Zenon, <1>1, <1>4, <2>1, <2>2 DEF handleUpgrade, Socket
  <2>4. /\ sock' \in [1..MaxLogins -> Socket] /\ sock'[n] = s
        /\ \A m \in 1..MaxLogins : m # n => sock'[m] = sock[m]
    BY Zenon, <1>1, <2>3
  <2>5. page' = page /\ logins' = logins /\ sent' = sent /\ acks' = acks
    BY Zenon DEF handleUpgrade
  <2>6. Types' /\ View'
    BY Zenon, <2>4, <2>5 DEF Types, View
  <2>7. Session'
    <3>1. page.ws \in 1..MaxLogins /\ page.ws # 0
      BY <1>2
    <3>2. /\ page.view = "auth" => page.ws = 0 /\ page.conversations = EmptyMap
          /\ page.view = "chat" => page.uid \in Uid
          /\ page.connected = (page.ws # 0 /\ sock'[page.ws].told)
          /\ page.ws # 0 => sock'[page.ws].state # "closing"
      BY Zenon, <1>2, <2>2, <2>4, <3>1 DEF Session
    <3>3. ASSUME NEW m \in 1..MaxLogins
          PROVE  /\ m > logins => sock'[m].state = "none"
                 /\ sock'[m].state = "none" => sock'[m] = NoSocket
                 /\ sock'[m].state \in {"connecting", "open"} => page.ws = m
                 /\ sock'[m].state = "connecting" =>
                      /\ ~sock'[m].told /\ sock'[m].asked = {}
                      /\ m \in DOMAIN tokens' => tokens'[m].uid = page.uid
                 /\ sock'[m].state = "open" => sock'[m].uid = page.uid
      <4>1. CASE m = n
        BY Zenon, <1>2, <2>2, <2>4, <4>1 DEF Session
      <4>2. CASE m # n
        BY Zenon, <1>3, <2>4, <4>2 DEF Session
      <4> QED BY Zenon, <4>1, <4>2
    <3> QED BY Zenon, <2>5, <3>2, <3>3 DEF Session
  <2>8. Content'
    <3>1. PICK own \in SUBSET ClientMsgId : ContentWith(own)
      BY Zenon DEF Content
    <3>2. NoRepeats' /\ MessagesGood(own)'
      BY <2>5, <3>1 DEF Content, ContentWith, NoRepeats, MessagesGood, Good
    <3>3. \A m \in 1..MaxLogins : sock'[m].state = "open" => LineGood(sock'[m], own)
      <4>1. s.down = <<>> /\ s.asked = {} /\ DOMAIN s.down = {}
        BY <1>2, <2>2
      <4>2. LineGood(s, own)
        BY Zenon, <4>1 DEF LineGood
      <4> QED BY Zenon, <2>4, <3>1, <4>2 DEF ContentWith
    <3>4. \A m \in 1..MaxLogins : (sock[m].state = "open" => LineGood(sock[m], own))'
      BY Zenon, <2>5, <3>3 DEF LineGood, GoodItem, GoodRequest
    <3> QED BY Zenon, <3>2, <3>4 DEF Content, ContentWith
  <2> QED BY Zenon, <2>6, <2>7, <2>8 DEF Goal
<1>5. CASE ~Auth!Verified(n)
  <2>1. PICK s \in Socket :
          /\ s = [sock[n] EXCEPT !.down = <<[type |-> "close"]>>]
          /\ s.state = sock[n].state /\ s.uid = sock[n].uid /\ s.told = sock[n].told
          /\ s.asked = sock[n].asked
    <3>1. <<[type |-> "close"]>> \in Seq(Item)
      BY DEF Item
    <3>2. [sock[n] EXCEPT !.down = <<[type |-> "close"]>>] \in Socket
      BY Zenon, <1>1, <3>1 DEF Socket
    <3> QED BY Zenon, <1>1, <3>2 DEF Socket
  <2>2. sock' = [sock EXCEPT ![n] = s]
    BY Zenon, <1>1, <1>5, <2>1 DEF handleUpgrade
  <2>3. /\ sock' \in [1..MaxLogins -> Socket] /\ sock'[n] = s
        /\ \A m \in 1..MaxLogins : m # n => sock'[m] = sock[m]
    BY Zenon, <1>1, <2>2
  <2>4. UNCHANGED <<page, logins, sent, acks>>
    BY Zenon DEF handleUpgrade
  <2> QED BY Zenon, <1>2, <1>3, <2>1, <2>3, <2>4, GatewayStep
<1> QED BY Zenon, <1>4, <1>5

LEMMA SendsIs ==
  ASSUME Types, View, Session, Content, NEW n \in 1..MaxLogins,
         NEW d \in Item, Sends(n, <<d>>), UNCHANGED <<page, logins, sent, acks, tokens>>,
         \A own \in SUBSET ClientMsgId : GoodItem(d, own)
  PROVE  Goal
<1>1. sock[n].state = "open" /\ sock' = [sock EXCEPT ![n].down = @ \o <<d>>]
  BY Zenon DEF Sends, Serving
<1>2. sock \in [1..MaxLogins -> Socket] /\ sock[n] \in Socket
  BY Zenon DEF Types
<1>3. sock' = [sock EXCEPT ![n].down = @ \o <<d>>, ![n].asked = sock[n].asked]
  BY Zenon, <1>1, <1>2 DEF Socket
<1>4. <<d>> \in Seq(Item) /\ \A i \in DOMAIN <<d>> : <<d>>[i] = d
  OBVIOUS
<1>5. \A own \in SUBSET ClientMsgId : \A i \in DOMAIN <<d>> : GoodItem(<<d>>[i], own)
  BY Zenon, <1>4
<1>6. sock[n].asked \in SUBSET sock[n].asked
  BY Zenon
<1>7. sock[n].state = "open" /\ <<d>> \in Seq(Item)
  BY Zenon, <1>1, <1>4
<1> QED BY Zenon, <1>3, <1>5, <1>6, <1>7, GatewaySends

LEMMA GatewayKeeps ==
  ASSUME Types, View, Session, Content, NEW n \in 1..MaxLogins, Gateway(n)
  PROVE  Goal
<1>0. sock \in [1..MaxLogins -> Socket] /\ sock[n] \in Socket
  BY Zenon DEF Types
<1>1. \A t \in {"online", "error", "close"} :
        [type |-> t] \in Item /\ \A own : GoodItem([type |-> t], own)
  BY Zenon DEF Item, GoodItem
<1>2. CASE GatewayOnline(n)
  BY Zenon, <1>1, <1>2, SendsIs DEF GatewayOnline
<1>3. CASE GatewayError(n)
  BY Zenon, <1>1, <1>3, SendsIs DEF GatewayError
<1>4. CASE GatewayClose(n)
  BY Zenon, <1>1, <1>4, SendsIs DEF GatewayClose
<1>5. ASSUME NEW m \in MsgId, NEW history \in BOOLEAN, GatewayPush(n, m, history)
      PROVE  Goal
  <2>1. PICK d \in Push : /\ d = PushOf(m, From[m], To[m], history)
                          /\ d.id = m /\ d.from = From[m] /\ d.to = To[m]
                          /\ d.history = history
    <3>1. From[m] \in Uid /\ To[m] \in Uid
      BY Zenon, PageAssumption
    <3>2. PushOf(m, From[m], To[m], history) \in Push
      BY Zenon, <3>1 DEF PushOf, Push, MessageIds
    <3> QED BY Zenon, <3>2 DEF PushOf
  <2>2. sock[n].state = "open" /\ sock[n].uid = page.uid
    BY Zenon, <1>5 DEF GatewayPush, Sends, Serving, Session
  <2>3. m \notin ClientMsgId
    BY Zenon, PageAssumption
  <2>4. \A own \in SUBSET ClientMsgId : GoodItem(d, own)
    BY Zenon, <1>5, <2>1, <2>2, <2>3 DEF GatewayPush, GoodItem
  <2>5. Sends(n, <<d>>) /\ UNCHANGED <<page, logins, sent, acks, tokens>> /\ d \in Item
    BY Zenon, <1>5, <2>1 DEF GatewayPush, Item
  <2> QED BY Zenon, <2>4, <2>5, SendsIs
<1>6. CASE GatewayAnswer(n)
  <2>1. PICK x \in sock[n].asked, ok \in BOOLEAN :
          sock' = [sock EXCEPT
             ![n].asked = @ \ {x},
             ![n].down = @ \o IF ok /\ x.to = sock[n].uid
               THEN <<PushOf(x.cid, sock[n].uid, x.to, FALSE),
                      [type |-> "send_ack", cid |-> x.cid, ok |-> ok]>>
               ELSE <<[type |-> "send_ack", cid |-> x.cid, ok |-> ok]>>]
    BY Zenon, <1>6 DEF GatewayAnswer
  <2>2. sock[n].state = "open" /\ sock[n].uid = page.uid
    BY Zenon, <1>6 DEF GatewayAnswer, Serving, Session
  <2>3. x \in Request /\ x.cid \in ClientMsgId /\ x.to \in Uid
    BY Zenon, <1>0 DEF Socket, Request
  <2>4. PICK ack \in SendAck : ack = [type |-> "send_ack", cid |-> x.cid, ok |-> ok]
    BY Zenon, <2>3 DEF SendAck
  <2>5. \A own : GoodItem(ack, own)
    BY Zenon DEF GoodItem, SendAck
  <2>6. CASE ok /\ x.to = sock[n].uid
    <3>1. PICK d \in Push : /\ d = PushOf(x.cid, sock[n].uid, x.to, FALSE)
                            /\ d.id = x.cid /\ d.from = x.to /\ d.to = x.to
      <4>1. PushOf(x.cid, x.to, x.to, FALSE) \in Push
        BY Zenon, <2>3 DEF PushOf, Push, MessageIds
      <4> QED BY Zenon, <2>6, <4>1 DEF PushOf
    <3>2. /\ <<d, ack>> \in Seq(Item)
          /\ \A i \in DOMAIN <<d, ack>> : <<d, ack>>[i] \in {d, ack}
      BY DEF Item
    <3>3. ASSUME NEW own \in SUBSET ClientMsgId, LineGood(sock[n], own)
          PROVE  GoodItem(d, own)
      BY Zenon, <2>2, <2>6, <3>1, <3>3 DEF LineGood, GoodRequest, GoodItem
    <3>4. sock' = [sock EXCEPT ![n].down = @ \o <<d, ack>>, ![n].asked = sock[n].asked \ {x}]
      BY Zenon, <1>0, <2>1, <2>4, <2>6, <3>1 DEF Socket
    <3>5. ASSUME NEW own \in SUBSET ClientMsgId, LineGood(sock[n], own)
          PROVE  \A i \in DOMAIN <<d, ack>> : GoodItem(<<d, ack>>[i], own)
      BY Zenon, <2>5, <3>2, <3>3, <3>5
    <3>6. UNCHANGED <<page, logins, sent, acks, tokens>>
      BY Zenon, <1>6 DEF GatewayAnswer
    <3>7. sock[n].asked \ {x} \in SUBSET sock[n].asked
      BY Zenon
    <3> QED BY Zenon, <2>2, <3>2, <3>4, <3>5, <3>6, <3>7, GatewaySends
  <2>7. CASE ~(ok /\ x.to = sock[n].uid)
    <3>1. /\ <<ack>> \in Seq(Item) /\ \A i \in DOMAIN <<ack>> : <<ack>>[i] = ack
      BY DEF Item
    <3>2. sock' = [sock EXCEPT ![n].down = @ \o <<ack>>, ![n].asked = sock[n].asked \ {x}]
      BY Zenon, <1>0, <2>1, <2>4, <2>7 DEF Socket
    <3>3. UNCHANGED <<page, logins, sent, acks, tokens>>
      BY Zenon, <1>6 DEF GatewayAnswer
    <3>4. sock[n].asked \ {x} \in SUBSET sock[n].asked
      BY Zenon
    <3>5. \A own \in SUBSET ClientMsgId : \A i \in DOMAIN <<ack>> : GoodItem(<<ack>>[i], own)
      BY Zenon, <2>5, <3>1
    <3> QED BY Zenon, <2>2, <3>1, <3>2, <3>3, <3>4, <3>5, GatewaySends
  <2> QED BY Zenon, <2>6, <2>7
<1> QED BY Zenon, <1>2, <1>3, <1>4, <1>5, <1>6, UpgradeIs DEF Gateway

LEMMA RestartKeeps ==
  ASSUME Types, View, Session, Content, GatewayRestart
  PROVE  Goal
<1> DEFINE close == [type |-> "close"]
<1>0. sock \in [1..MaxLogins -> Socket]
  BY Zenon DEF Types
<1>1. <<close>> \in Seq(Item) /\ close \in Item /\ \A own : GoodItem(close, own)
  BY DEF Item, GoodItem
<1>2. DOMAIN tokens' = {}
  BY Zenon DEF GatewayRestart, Auth!Restart, Auth!EmptyMap
<1>3. ASSUME NEW n \in 1..MaxLogins
      PROVE  /\ sock'[n] \in Socket
             /\ sock'[n].state = sock[n].state /\ sock'[n].uid = sock[n].uid
             /\ sock'[n].told = sock[n].told
             /\ sock[n].state = "none" => sock'[n] = sock[n]
             /\ sock[n].state = "connecting" => sock'[n].asked = sock[n].asked
             /\ sock[n].state = "open" => \A own \in SUBSET ClientMsgId :
                LineGood(sock[n], own) => LineGood(sock'[n], own)
  <2>0. /\ sock[n] \in Socket /\ sock[n].down \in Seq(Item)
        /\ sock'[n] = IF Serving(n) THEN [sock[n] EXCEPT !.down = Append(@, close)] ELSE sock[n]
    BY Zenon, <1>0 DEF GatewayRestart, Socket
  <2>1. PICK down \in Seq(Item) :
          /\ down = Append(sock[n].down, close)
          /\ \A j \in DOMAIN down : \/ \E i \in DOMAIN sock[n].down : down[j] = sock[n].down[i]
                                    \/ down[j] = close
    <3>1. /\ Append(sock[n].down, close) \in Seq(Item)
          /\ DOMAIN sock[n].down = 1..Len(sock[n].down) /\ Len(sock[n].down) \in Nat
          /\ DOMAIN Append(sock[n].down, close) = 1..(Len(sock[n].down) + 1)
          /\ Append(sock[n].down, close)[Len(sock[n].down) + 1] = close
          /\ \A j \in 1..Len(sock[n].down) : Append(sock[n].down, close)[j] = sock[n].down[j]
      BY <1>1, <2>0
    <3> HIDE DEF close
    <3>2. \A j \in 1..(Len(sock[n].down) + 1) :
            j \in 1..Len(sock[n].down) \/ j = Len(sock[n].down) + 1
      BY <3>1
    <3> QED BY Zenon, <3>1, <3>2
  <2>2. CASE Serving(n)
    <3>1. sock'[n] = [sock[n] EXCEPT !.down = down] /\ sock[n].state = "open"
      BY Zenon, <2>0, <2>1, <2>2 DEF Serving
    <3>2. /\ sock'[n] \in Socket /\ sock'[n].state = sock[n].state /\ sock'[n].uid = sock[n].uid
          /\ sock'[n].told = sock[n].told /\ sock'[n].down = down
          /\ sock'[n].asked = sock[n].asked
      BY Zenon, <2>0, <2>1, <3>1 DEF Socket
    <3>3. ASSUME NEW own \in SUBSET ClientMsgId, LineGood(sock[n], own)
          PROVE  LineGood(sock'[n], own)
      BY Zenon, <1>1, <2>1, <3>2, <3>3 DEF LineGood
    <3> QED BY Zenon, <3>1, <3>2, <3>3
  <2>3. CASE ~Serving(n)
    BY Zenon, <2>0, <2>3
  <2> QED BY Zenon, <2>2, <2>3
<1>4. sock' \in [1..MaxLogins -> Socket]
  BY Zenon, <1>0, <1>3 DEF GatewayRestart
<1>5. UNCHANGED <<page, logins, sent, acks>>
  BY Zenon DEF GatewayRestart
<1> QED BY Zenon, <1>2, <1>3, <1>4, <1>5, GatewayStep

-----------------------------------------------------------------------------
(* Steps of the page *)

\* Nothing that the messages refer to is taken back.
Monotone ==
  /\ page'.uid = page.uid /\ page.rendered \subseteq page'.rendered
  /\ acks \subseteq acks' /\ sent \subseteq sent'

\* What open sockets deliver and are asked stays good.
LinesKept ==
  \A n \in 1..MaxLogins : sock'[n].state = "open" =>
    /\ sock[n].state = "open"
    /\ \A own \in SUBSET ClientMsgId : LineGood(sock[n], own) => LineGood(sock'[n], own)

LEMMA GoodKept ==
  ASSUME Monotone, NEW own
  PROVE  /\ \A x, k : Good(x, k, own) => Good(x, k, own)'
         /\ \A s : LineGood(s, own) => LineGood(s, own)'
BY ZenonT(60) DEF Monotone, Good, LineGood, GoodItem, GoodRequest

LEMMA LinesStep ==
  ASSUME Monotone, LinesKept, NEW own \in SUBSET ClientMsgId, ContentWith(own)
  PROVE  \A n \in 1..MaxLogins : (sock[n].state = "open" => LineGood(sock[n], own))'
<1>1. \A n \in 1..MaxLogins : sock'[n].state = "open" => LineGood(sock'[n], own)
  BY Zenon DEF ContentWith, LinesKept
<1> QED BY Zenon, <1>1 DEF Monotone, LineGood, GoodItem, GoodRequest

LEMMA ContentSame ==
  ASSUME Content, Monotone, LinesKept, Messages(page)' = Messages(page)
  PROVE  Content'
<1>1. PICK own \in SUBSET ClientMsgId : ContentWith(own)
  BY Zenon DEF Content
<1>2. NoRepeats'
  BY Zenon DEF Content, NoRepeats
<1>3. PICK M : M = Messages(page)
  BY Zenon
<1>4. \A k \in Uid : \A i \in DOMAIN M[k] : Good(M[k][i], k, own)
  BY Zenon, <1>1, <1>3 DEF ContentWith, MessagesGood
<1>5. \A k \in Uid : \A i \in DOMAIN M[k] : Good(M[k][i], k, own)'
  BY Zenon, <1>4, GoodKept
<1>6. MessagesGood(own)'
  BY Zenon, <1>3, <1>5 DEF MessagesGood
<1> QED BY Zenon, <1>1, <1>2, <1>6, LinesStep DEF Content, ContentWith

\* A message is appended to the chat with k.
LEMMA ContentAppend ==
  ASSUME Types, NoRepeats, NEW own \in SUBSET ClientMsgId, ContentWith(own),
         Monotone, NEW k \in Uid, NEW x \in ChatMessage,
         \A n \in 1..MaxLogins : (sock[n].state = "open" => LineGood(sock[n], own))',
         Messages(page)' = [Messages(page) EXCEPT ![k] = Append(Messages(page)[k], x)],
         Good(x, k, own)',
         \A l \in Uid : \A i \in DOMAIN Messages(page)[l] :
           Distinct(Messages(page)[l][i], x) /\ Distinct(x, Messages(page)[l][i])
  PROVE  Content'
<1>1. PICK M \in [Uid -> Seq(ChatMessage)] : M = Messages(page)
  BY Zenon, MessagesType DEF Types
<1>2. PICK N : N = [M EXCEPT ![k] = Append(M[k], x)]
  BY Zenon
<1>3. N = Messages(page)'
  BY Zenon, <1>1, <1>2
<1>4. /\ Len(M[k]) \in Nat /\ DOMAIN M[k] = 1..Len(M[k]) /\ N[k] = Append(M[k], x)
      /\ DOMAIN N[k] = 1..(Len(M[k]) + 1) /\ N[k][Len(M[k]) + 1] = x
      /\ \A i \in 1..Len(M[k]) : N[k][i] = M[k][i]
      /\ \A l \in Uid : l # k => N[l] = M[l]
  BY <1>1, <1>2
<1>5. \A i \in DOMAIN N[k] : i \in DOMAIN M[k] \/ i = Len(M[k]) + 1
  BY <1>4
<1>6. ASSUME NEW l \in Uid, NEW i \in DOMAIN N[l]
      PROVE  \/ i \in DOMAIN M[l] /\ N[l][i] = M[l][i]
             \/ l = k /\ i = Len(M[k]) + 1 /\ N[l][i] = x
  BY Zenon, <1>4, <1>5
<1>7. NoneTwice(N)
  <2> SUFFICES ASSUME NEW a \in Uid, NEW b \in Uid, NEW i \in DOMAIN N[a], NEW j \in DOMAIN N[b],
                      <<a, i>> # <<b, j>>
               PROVE  Distinct(N[a][i], N[b][j])
    BY Zenon DEF NoneTwice
  <2>1. CASE i \in DOMAIN M[a] /\ N[a][i] = M[a][i] /\ j \in DOMAIN M[b] /\ N[b][j] = M[b][j]
    BY Zenon, <1>1, <2>1 DEF NoRepeats, NoneTwice
  <2>2. CASE i \in DOMAIN M[a] /\ N[a][i] = M[a][i] /\ N[b][j] = x
    BY Zenon, <1>1, <2>2
  <2>3. CASE N[a][i] = x /\ j \in DOMAIN M[b] /\ N[b][j] = M[b][j]
    BY Zenon, <1>1, <2>3
  <2> QED BY <1>6, <2>1, <2>2, <2>3
<1>8. \A l \in Uid : \A i \in DOMAIN M[l] : Good(M[l][i], l, own)
  BY Zenon, <1>1 DEF ContentWith, MessagesGood
<1>9. \A l \in Uid : \A i \in DOMAIN M[l] : Good(M[l][i], l, own)'
  BY Zenon, <1>8, GoodKept
<1>10. \A l \in Uid : \A i \in DOMAIN N[l] : Good(N[l][i], l, own)'
  BY Zenon, <1>6, <1>9
<1>11. MessagesGood(own)' /\ NoRepeats'
  BY Zenon, <1>3, <1>7, <1>10 DEF MessagesGood, NoRepeats
<1> QED BY Zenon, <1>11 DEF Content, ContentWith

LEMMA ContentNotice ==
  ASSUME Types, Content, Monotone, LinesKept, NEW k \in Uid,
         Messages(page)' = [Messages(page) EXCEPT ![k] = Append(Messages(page)[k], Notice)]
  PROVE  Content'
<1>1. PICK own \in SUBSET ClientMsgId : ContentWith(own)
  BY Zenon DEF Content
<1>2. PICK x \in ChatMessage : x = Notice
  BY Zenon, NoticeType
<1>3. /\ x.direction = "system" /\ x.status = "notice" /\ x.msg_id = 0 /\ x.client_msg_id = 0
      /\ 0 \notin ClientMsgId
  BY Zenon, <1>2, PageAssumption DEF Notice, Message
<1>4. Good(x, k, own)'
  BY Zenon, <1>3 DEF Good
<1>5. \A y : Distinct(x, y) /\ Distinct(y, x)
  BY Zenon, <1>3 DEF Distinct
<1>6. NoRepeats
  BY Zenon DEF Content
<1>7. Messages(page)' = [Messages(page) EXCEPT ![k] = Append(Messages(page)[k], x)]
  BY Zenon, <1>2
<1> QED BY Zenon, <1>1, <1>4, <1>5, <1>6, <1>7, LinesStep, ContentAppend

\* The messages that a send_ack is about get their id.
LEMMA ContentSettled ==
  ASSUME Types, Content, Monotone, LinesKept, NEW k \in Uid, NEW m \in SendAck,
         m.ok => m.cid \in page'.rendered,
         Messages(page)' = [Messages(page) EXCEPT ![k] = AllSettled(Messages(page)[k], m)]
  PROVE  Content'
<1>1. PICK own \in SUBSET ClientMsgId : ContentWith(own)
  BY Zenon DEF Content
<1>2. PICK M \in [Uid -> Seq(ChatMessage)] : M = Messages(page)
  BY Zenon, MessagesType DEF Types
<1>3. PICK N : N = [M EXCEPT ![k] = AllSettled(M[k], m)]
  BY Zenon
<1>4. N = Messages(page)'
  BY Zenon, <1>2, <1>3
<1>5. m.cid \in ClientMsgId /\ m.cid # 0 /\ m.ok \in BOOLEAN
  BY Zenon, PageAssumption DEF SendAck
<1>6. ASSUME NEW l \in Uid
      PROVE  /\ DOMAIN N[l] = DOMAIN M[l]
             /\ \A i \in DOMAIN M[l] : N[l][i] = IF l = k THEN Settled(M[l][i], m) ELSE M[l][i]
             /\ \A i \in DOMAIN M[l] : M[l][i] \in ChatMessage
  BY <1>2, <1>3 DEF AllSettled
<1>7. \A l \in Uid : \A i \in DOMAIN M[l] : Good(M[l][i], l, own) /\ Good(M[l][i], l, own)'
  BY Zenon, <1>1, <1>2, GoodKept DEF ContentWith, MessagesGood
<1>8. ASSUME NEW x \in ChatMessage
      PROVE  LET y == Settled(x, m)
             IN  /\ x.client_msg_id # m.cid => y = x
                 /\ x.client_msg_id = m.cid =>
                      /\ y.status \in {"sent", "failed"} /\ y.msg_id = IF m.ok THEN m.cid ELSE 0
                      /\ y.direction = x.direction /\ y.client_msg_id = x.client_msg_id
                      /\ y.from_uid = x.from_uid /\ y.to_uid = x.to_uid
  BY Zenon DEF Settled, ChatMessage
<1>9. ASSUME NEW x \in ChatMessage, NEW l, Good(x, l, own)' PROVE Good(Settled(x, m), l, own)'
  <2>1. CASE x.client_msg_id # m.cid
    BY Zenon, <1>8, <1>9, <2>1
  <2>2. CASE x.client_msg_id = m.cid
    <3>1. PICK y : y = Settled(x, m)
      BY Zenon
    <3>2. /\ y.status # "received" /\ y.msg_id = IF m.ok THEN m.cid ELSE 0
          /\ y.direction = x.direction /\ y.client_msg_id = m.cid
          /\ y.from_uid = x.from_uid /\ y.to_uid = x.to_uid
      BY Zenon, <1>8, <2>2, <3>1
    <3>3. Good(y, l, own)'
      BY Zenon, <1>5, <1>9, <2>2, <3>2, PageAssumption DEF Good
    <3> QED BY Zenon, <3>1, <3>3
  <2> QED BY Zenon, <2>1, <2>2
<1>10. MessagesGood(own)'
  <2>1. \A l \in Uid : \A i \in DOMAIN N[l] : Good(N[l][i], l, own)'
    BY <1>6, <1>7, <1>9
  <2> QED BY Zenon, <1>4, <2>1 DEF MessagesGood
<1>11. NoneTwice(N)
  <2> SUFFICES ASSUME NEW a \in Uid, NEW b \in Uid, NEW i \in DOMAIN N[a], NEW j \in DOMAIN N[b],
                      <<a, i>> # <<b, j>>
               PROVE  Distinct(N[a][i], N[b][j])
    BY Zenon DEF NoneTwice
  <2>1. PICK x \in ChatMessage, y \in ChatMessage : x = M[a][i] /\ y = M[b][j]
    BY Zenon, <1>6
  <2>2. Distinct(x, y) /\ Distinct(y, x) /\ Good(x, a, own) /\ Good(y, b, own)
    BY Zenon, <1>2, <1>6, <1>7, <2>1 DEF Content, NoRepeats, NoneTwice
  <2>3. N[a][i] \in {x, Settled(x, m)} /\ N[b][j] \in {y, Settled(y, m)}
    BY Zenon, <1>6, <2>1
  <2>4. CASE x.client_msg_id # m.cid /\ y.client_msg_id # m.cid
    BY Zenon, <1>8, <2>2, <2>3, <2>4
  <2>5. CASE x.client_msg_id = m.cid
    <3>1. y.client_msg_id # m.cid /\ N[b][j] = y
      BY Zenon, <1>5, <1>8, <2>2, <2>3, <2>5 DEF Distinct
    <3>2. y.msg_id = m.cid => x.from_uid = x.to_uid
      BY Zenon, <1>5, <2>2, <2>5, <3>1 DEF Good
    <3> QED BY ZenonT(60), <1>8, <2>2, <2>3, <2>5, <3>1, <3>2 DEF Distinct
  <2>6. CASE y.client_msg_id = m.cid
    <3>1. x.client_msg_id # m.cid /\ N[a][i] = x
      BY Zenon, <1>5, <1>8, <2>2, <2>3, <2>6 DEF Distinct
    <3>2. x.msg_id = m.cid => x.from_uid = x.to_uid
      BY Zenon, <1>5, <3>1, <2>2 DEF Good
    <3> QED BY Zenon, <1>8, <2>2, <2>3, <2>6, <3>1, <3>2 DEF Distinct
  <2> QED BY Zenon, <2>4, <2>5, <2>6
<1> QED BY Zenon, <1>1, <1>4, <1>10, <1>11, LinesStep DEF Content, ContentWith, NoRepeats

LEMMA SessionSame ==
  ASSUME Types, Session, SameSession(page, page'), UNCHANGED <<logins, tokens>>,
         page.view = "auth" => page'.conversations = page.conversations,
         \A n \in 1..MaxLogins :
           /\ sock'[n].state = sock[n].state /\ sock'[n].uid = sock[n].uid
           /\ sock'[n].told = sock[n].told
           /\ sock[n].state # "open" => sock'[n] = sock[n]
  PROVE  Session'
<1>1. page.ws \in 0..MaxLogins /\ (page.ws # 0 => page.ws \in 1..MaxLogins)
  BY DEF Types, Page
<1> QED BY ZenonT(60), <1>1 DEF Session, SameSession

\* A step of the page that is about what it shows or a notice in a chat, or
\* that changes nothing, while no socket but what it delivers changes.
LEMMA QuietStep ==
  ASSUME Types, View, Session, Content, page.view = "chat",
         Shape(page'), Shown(page'), SameSession(page, page'), page'.rendered = page.rendered,
         \/ Messages(page)' = Messages(page)
         \/ \E k \in Uid : Messages(page)' =
              [Messages(page) EXCEPT ![k] = Append(Messages(page)[k], Notice)],
         UNCHANGED <<logins, sent, acks, tokens>>,
         sock' \in [1..MaxLogins -> Socket], LinesKept,
         \A n \in 1..MaxLogins :
           /\ sock'[n].state = sock[n].state /\ sock'[n].uid = sock[n].uid
           /\ sock'[n].told = sock[n].told
           /\ sock[n].state # "open" => sock'[n] = sock[n]
  PROVE  Goal
<1>1. Types' /\ View'
  BY Zenon DEF Types, View, Shape
<1>2. Session'
  BY Zenon, SessionSame
<1>3. Monotone
  BY Zenon DEF Monotone, SameSession
<1>4. Content'
  BY Zenon, <1>3, ContentSame, ContentNotice
<1> QED BY Zenon, <1>1, <1>2, <1>4 DEF Goal

LEMMA SameSockets ==
  ASSUME Types, sock' = sock
  PROVE  /\ sock' \in [1..MaxLogins -> Socket] /\ LinesKept
         /\ \A n \in 1..MaxLogins :
              /\ sock'[n].state = sock[n].state /\ sock'[n].uid = sock[n].uid
              /\ sock'[n].told = sock[n].told
              /\ sock[n].state # "open" => sock'[n] = sock[n]
BY Zenon DEF Types, LinesKept

\* Select, NewSelfChat, sendMessageUnready.
LEMMA SelectKeeps ==
  ASSUME Types, View, Session, Content, NEW k \in Uid, Select(k)
  PROVE  Goal
<1>1. /\ page.view = "chat" /\ Shape(page) /\ page' = selectConversation(page, k)
      /\ UNCHANGED <<sock, logins, sent, acks, tokens>>
  BY Zenon DEF Select, InChat, View
<1>2. /\ Shape(page') /\ Shown(page') /\ SameSession(page, page')
      /\ page'.rendered = page.rendered /\ Messages(page') = Messages(page)
  BY Zenon, <1>1, SelectIs
<1>3. Messages(page)' = Messages(page)
  BY Zenon, <1>2 DEF Messages
<1> QED BY Zenon, <1>1, <1>2, <1>3, SameSockets, QuietStep

LEMMA NewSelfChatKeeps ==
  ASSUME Types, View, Session, Content, NewSelfChat
  PROVE  Goal
<1>1. /\ page.view = "chat" /\ Shape(page) /\ page.uid \in Uid
      /\ UNCHANGED <<sock, logins, sent, acks, tokens>>
  BY Zenon DEF NewSelfChat, InChat, View, Session
<1>2. PICK nearBottom \in BOOLEAN, u \in Uid :
        page' = selectConversation(addSystemMessageToConversation(page, u, nearBottom), u)
  BY Zenon, <1>1 DEF NewSelfChat
<1> DEFINE p == addSystemMessageToConversation(page, u, nearBottom)
           M == [Messages(page) EXCEPT ![u] = Append(Messages(page)[u], Notice)]
<1>3. Shape(p) /\ SameSession(page, p) /\ p.rendered = page.rendered /\ Messages(p) = M
  BY <1>1, AddSystemIs
<1> HIDE DEF p, M
<1>4. /\ Shape(page') /\ Shown(page') /\ SameSession(p, page')
      /\ page'.rendered = p.rendered /\ Messages(page') = Messages(p)
  BY Zenon, <1>1, <1>2, <1>3, SelectIs DEF p
<1>5. SameSession(page, page')
  BY Zenon, <1>3, <1>4 DEF SameSession
<1>6. Messages(page)' = M
  BY Zenon, <1>3, <1>4 DEF Messages
<1> QED BY Zenon, <1>1, <1>3, <1>4, <1>5, <1>6, SameSockets, QuietStep DEF M

\* A notice in the active chat, if there is one.
LEMMA AddSystemToActiveIs ==
  ASSUME Shape(page), Shown(page), NEW nearBottom \in BOOLEAN,
         page' = addSystemMessageToActive(page, nearBottom)
  PROVE  /\ Shape(page') /\ Shown(page') /\ SameSession(page, page')
         /\ page'.rendered = page.rendered
         /\ \/ Messages(page)' = Messages(page)
            \/ \E k \in Uid : Messages(page)' =
                 [Messages(page) EXCEPT ![k] = Append(Messages(page)[k], Notice)]
<1>1. CASE page.active = 0
  BY Zenon, <1>1 DEF addSystemMessageToActive, SameSession, Messages
<1>2. CASE page.active # 0
  <2>1. PICK k \in Uid : page' = addSystemMessageToConversation(page, k, nearBottom)
    BY Zenon, <1>2 DEF Shape, Page, addSystemMessageToActive
  <2>2. /\ Shape(page') /\ Shown(page') /\ SameSession(page, page')
        /\ page'.rendered = page.rendered
        /\ Messages(page') = [Messages(page) EXCEPT ![k] = Append(Messages(page)[k], Notice)]
    BY <2>1, AddSystemIs
  <2>3. Messages(page)' = Messages(page')
    BY Zenon DEF Messages
  <2> QED BY Zenon, <2>1, <2>2, <2>3
<1> QED BY Zenon, <1>1, <1>2

LEMMA SendMessageUnreadyKeeps ==
  ASSUME Types, View, Session, Content, sendMessageUnready
  PROVE  Goal
<1>1. /\ page.view = "chat" /\ Shape(page) /\ Shown(page) /\ page.active # 0
      /\ UNCHANGED <<sock, logins, sent, acks, tokens>>
  BY Zenon DEF sendMessageUnready, InChat, View, Shown, ComposerShown
<1>2. PICK nearBottom \in BOOLEAN : page' = addSystemMessageToActive(page, nearBottom)
  BY Zenon, <1>1 DEF sendMessageUnready, addSystemMessageToActive
<1> QED BY Zenon, <1>1, <1>2, AddSystemToActiveIs, SameSockets, QuietStep

\* The timer shows what it was set for.
LEMMA FlushKeeps ==
  ASSUME Types, View, Session, Content, flushIncomingRender
  PROVE  Goal
<1> DEFINE p == [page EXCEPT !.timer = NoTimer]
           q == renderConversationList(p)
<1>1. /\ Shape(page) /\ (page.view = "chat" => Shown(page)) /\ page \in Page
      /\ UNCHANGED <<sock, logins, sent, acks, tokens>>
      /\ page' = IF page.timer.needsMessages /\ page.timer.peer = page.active
                 THEN renderMessages(q) ELSE q
  BY Zenon DEF flushIncomingRender, View, Shape
<1>2. /\ p \in Page /\ p.timer = NoTimer /\ SameSession(page, p) /\ p.rendered = page.rendered
      /\ p.active = page.active /\ p.conversations = page.conversations
      /\ p.pending = page.pending /\ p.pane = page.pane /\ p.composer = page.composer
  BY Zenon, <1>1 DEF Page, NoTimer, Timer, SameSession
<1>3. Shape(p)
  BY Zenon, <1>1, <1>2 DEF Shape
<1>4. /\ q \in Page /\ q.timer = NoTimer /\ SameSession(p, q) /\ q.rendered = p.rendered
      /\ q.active = p.active /\ q.conversations = p.conversations
      /\ q.pending = p.pending /\ q.pane = p.pane /\ q.composer = p.composer
      /\ ListShown(q)
  <2>1. [k \in DOMAIN p.conversations |-> p.conversations[k].unread] \in MapOf(Uid, Nat)
    <3>1. p.conversations \in MapOf(Uid, Conversation)
      BY Zenon, <1>2 DEF Page
    <3>2. /\ DOMAIN p.conversations \subseteq Uid
          /\ \A k \in DOMAIN p.conversations : p.conversations[k] \in Conversation
      BY <3>1, MapIs
    <3>3. [k \in DOMAIN p.conversations |-> p.conversations[k].unread] \in
            [DOMAIN p.conversations -> Nat]
      BY Zenon, <3>2 DEF Conversation
    <3> QED BY Zenon, <3>2, <3>3 DEF MapOf
  <2>2. q = [p EXCEPT !.list = [k \in DOMAIN p.conversations |-> p.conversations[k].unread]]
    BY Zenon DEF renderConversationList
  <2> HIDE DEF p, q
  <2> QED BY Zenon, <1>2, <2>1, <2>2 DEF Page, SameSession, ListShown, renderConversationList
<1>5. Shape(q)
  BY Zenon, <1>3, <1>4 DEF Shape
<1>6. CASE page.timer.needsMessages /\ page.timer.peer = page.active
  <2>1. page' = renderMessages(renderConversationList(p))
    BY Zenon, <1>1, <1>6
  <2> HIDE DEF p, q
  <2>2. Shape(page') /\ Shown(page') /\ AllButShown(p, page')
    BY Zenon, <1>3, <2>1, RenderIs
  <2>3. /\ SameSession(page, page') /\ page'.rendered = page.rendered
        /\ page'.conversations = page.conversations
    BY Zenon, <1>2, <2>2 DEF AllButShown, SameSession
  <2>4. Types' /\ View'
    BY Zenon, <1>1, <2>2 DEF Types, View, Shape
  <2>5. Session'
    BY Zenon, <1>1, <2>3, SameSockets, SessionSame
  <2>6. Content'
    BY Zenon, <1>1, <2>3, SameSockets, ContentSame DEF Monotone, SameSession, Messages
  <2> QED BY Zenon, <2>4, <2>5, <2>6 DEF Goal
<1>7. CASE ~(page.timer.needsMessages /\ page.timer.peer = page.active)
  <2>1. page' = q
    BY Zenon, <1>1, <1>7
  <2> HIDE DEF p, q
  <2>2. /\ SameSession(page, page') /\ page'.rendered = page.rendered
        /\ page'.conversations = page.conversations
    BY Zenon, <1>2, <1>4, <2>1 DEF SameSession
  <2>3. page.view = "chat" => Shown(q)
    BY Zenon, <1>1, <1>2, <1>4, <1>7 DEF Shown, ComposerShown, PaneShown, SameSession
  <2>4. Types' /\ View'
    BY Zenon, <1>1, <1>5, <2>1, <2>2, <2>3 DEF Types, View, Shape, SameSession
  <2>5. Session'
    BY Zenon, <1>1, <2>2, SameSockets, SessionSame
  <2>6. Content'
    BY Zenon, <1>1, <2>2, SameSockets, ContentSame DEF Monotone, SameSession, Messages
  <2> QED BY Zenon, <2>4, <2>5, <2>6 DEF Goal
<1> QED BY Zenon, <1>6, <1>7

-----------------------------------------------------------------------------
(* What arrives on the page's WebSocket *)

\* The page takes the first item that a socket delivers.
LEMMA ReadIs ==
  ASSUME Types, Session, Content, NEW n \in 1..MaxLogins, handleServerMessage(n)
  PROVE  LET m == Head(sock[n].down)
         IN  /\ page.view = "chat" /\ page.ws = n /\ sock[n].uid = page.uid /\ m \in Item
             /\ \A own \in SUBSET ClientMsgId : ContentWith(own) => GoodItem(m, own)
             /\ sock' \in [1..MaxLogins -> Socket] /\ LinesKept
             /\ sock'[n].state = "open" /\ sock'[n].uid = page.uid
             /\ sock'[n].told = (sock[n].told \/ m.type = "online")
             /\ \A i \in 1..MaxLogins : i # n => sock'[i] = sock[i]
<1>1. sock \in [1..MaxLogins -> Socket] /\ sock[n] \in Socket /\ sock[n].down \in Seq(Item)
  BY Zenon DEF Types, Socket
<1>2. sock[n].state = "open" /\ sock[n].down # <<>> /\ n # 0
  BY DEF handleServerMessage
<1>3. page.ws = n /\ sock[n].uid = page.uid /\ page.view = "chat"
  BY Zenon, <1>2 DEF Session, Types, Page
<1>4. PICK m \in Item, rest \in Seq(Item) :
        /\ m = Head(sock[n].down) /\ rest = Tail(sock[n].down)
        /\ \A j \in DOMAIN rest : \E i \in DOMAIN sock[n].down : rest[j] = sock[n].down[i]
        /\ \E i \in DOMAIN sock[n].down : m = sock[n].down[i]
  <2>1. PICK s \in Seq(Item) : s = sock[n].down /\ s # <<>>
    BY Zenon, <1>1, <1>2
  <2>2. /\ Head(s) \in Item /\ Tail(s) \in Seq(Item) /\ Len(s) \in Nat /\ Len(s) > 0
        /\ DOMAIN s = 1..Len(s) /\ Head(s) = s[1] /\ Len(Tail(s)) = Len(s) - 1
        /\ DOMAIN Tail(s) = 1..(Len(s) - 1) /\ \A j \in 1..(Len(s) - 1) : Tail(s)[j] = s[j + 1]
    BY <2>1
  <2>3. 1 \in DOMAIN s /\ \A j \in 1..(Len(s) - 1) : j + 1 \in DOMAIN s
    BY <2>2
  <2> QED BY Zenon, <2>1, <2>2, <2>3
<1>5. PICK told \in BOOLEAN : told = (sock[n].told \/ m.type = "online")
  BY Zenon
<1>6. PICK t \in Socket :
        /\ t = [sock[n] EXCEPT !.down = rest, !.told = told]
        /\ t.state = sock[n].state /\ t.uid = sock[n].uid /\ t.told = told /\ t.down = rest
        /\ t.asked = sock[n].asked
  <2>1. [sock[n] EXCEPT !.down = rest, !.told = told] \in Socket
    BY Zenon, <1>1 DEF Socket
  <2> QED BY Zenon, <1>1, <2>1 DEF Socket
<1>7. sock' = [sock EXCEPT ![n] = t]
  BY Zenon, <1>1, <1>4, <1>5, <1>6 DEF handleServerMessage, Socket
<1>8. /\ sock' \in [1..MaxLogins -> Socket] /\ sock'[n] = t
      /\ \A i \in 1..MaxLogins : i # n => sock'[i] = sock[i]
  BY Zenon, <1>1, <1>7
<1>9. ASSUME NEW own \in SUBSET ClientMsgId, LineGood(sock[n], own)
      PROVE  LineGood(t, own) /\ GoodItem(m, own)
  BY <1>4, <1>6, <1>9 DEF LineGood
<1>10. LinesKept
  BY Zenon, <1>2, <1>8, <1>9 DEF LinesKept
<1>11. \A own \in SUBSET ClientMsgId : ContentWith(own) => GoodItem(m, own)
  BY Zenon, <1>2, <1>9 DEF ContentWith
<1> QED BY Zenon, <1>2, <1>3, <1>4, <1>5, <1>6, <1>8, <1>10, <1>11

\* Another event than "online" leaves the session alone.
LEMMA SessionRead ==
  ASSUME Types, Session, Content, NEW n \in 1..MaxLogins, handleServerMessage(n),
         Head(sock[n].down).type # "online", SameSession(page, page')
  PROVE  Session' /\ LinesKept /\ sock' \in [1..MaxLogins -> Socket]
         /\ \A i \in 1..MaxLogins :
              /\ sock'[i].state = sock[i].state /\ sock'[i].uid = sock[i].uid
              /\ sock'[i].told = sock[i].told
              /\ sock[i].state # "open" => sock'[i] = sock[i]
<1>1. sock[n].state = "open" /\ UNCHANGED <<logins, tokens>> /\ sock[n] \in Socket
  BY Zenon DEF handleServerMessage, Types
<1>2. /\ page.view = "chat" /\ sock[n].uid = page.uid
      /\ sock' \in [1..MaxLogins -> Socket] /\ LinesKept
      /\ sock'[n].state = "open" /\ sock'[n].uid = page.uid
      /\ sock'[n].told = (sock[n].told \/ Head(sock[n].down).type = "online")
      /\ \A i \in 1..MaxLogins : i # n => sock'[i] = sock[i]
  BY Zenon, ReadIs
<1>3. sock[n].told \in BOOLEAN
  BY Zenon, <1>1 DEF Socket
<1>4. sock'[n].told = sock[n].told
  BY Zenon, <1>2, <1>3
<1>5. \A i \in 1..MaxLogins :
        /\ sock'[i].state = sock[i].state /\ sock'[i].uid = sock[i].uid
        /\ sock'[i].told = sock[i].told
        /\ sock[i].state # "open" => sock'[i] = sock[i]
  BY Zenon, <1>1, <1>2, <1>4
<1>6. Session'
  BY Zenon, <1>1, <1>2, <1>5, SessionSame
<1> QED BY Zenon, <1>2, <1>5, <1>6

LEMMA OnlineKeeps ==
  ASSUME Types, View, Session, Content, NEW n \in 1..MaxLogins, handleServerMessage(n),
         Head(sock[n].down).type = "online", page' = handleOnline(page, sock[n].uid),
         UNCHANGED acks
  PROVE  Goal
<1>1. /\ page.view = "chat" /\ page.ws = n /\ sock[n].uid = page.uid
      /\ sock' \in [1..MaxLogins -> Socket] /\ LinesKept
      /\ sock'[n].state = "open" /\ sock'[n].uid = page.uid
      /\ sock'[n].told = (sock[n].told \/ Head(sock[n].down).type = "online")
      /\ \A i \in 1..MaxLogins : i # n => sock'[i] = sock[i]
  BY Zenon, ReadIs
<1>2. n # 0 /\ sock[n].state = "open" /\ UNCHANGED <<logins, sent, tokens>>
  BY DEF handleServerMessage
<1>a. sock'[n].told = TRUE
  <2>1. sock'[n].told
    BY Zenon, <1>1
  <2>2. sock'[n].told \in BOOLEAN
    BY Zenon, <1>1 DEF Socket
  <2> QED BY Zenon, <2>1, <2>2
<1> DEFINE p == [page EXCEPT !.connected = TRUE, !.uid = page.uid]
<1>3. Shape(page) /\ page \in Page
  BY Zenon DEF View, Shape
<1>4. /\ p \in Page /\ p.connected = TRUE /\ p.uid = page.uid /\ p.view = page.view
      /\ p.ws = page.ws /\ p.rendered = page.rendered /\ p.active = page.active
      /\ p.conversations = page.conversations /\ p.pending = page.pending
  BY Zenon, <1>3 DEF Page
<1>5. Shape(p) /\ page' = renderMessages(renderConversationList(p))
  BY ZenonT(60), <1>1, <1>3, <1>4 DEF Shape, handleOnline
<1> HIDE DEF p
<1>6. Shape(page') /\ Shown(page') /\ AllButShown(p, page')
  BY Zenon, <1>5, RenderIs
<1>7. /\ page'.connected = TRUE /\ page'.uid = page.uid /\ page'.view = page.view
      /\ page'.ws = page.ws /\ page'.rendered = page.rendered
      /\ page'.conversations = page.conversations
  BY Zenon, <1>4, <1>6 DEF AllButShown
<1>8. Types' /\ View'
  BY Zenon, <1>1, <1>2, <1>6 DEF Types, View, Shape
<1>9. Session'
  <2>1. page.view = "chat" /\ page.ws = n /\ page.uid \in Uid
    BY Zenon, <1>1 DEF Session
  <2>2. ASSUME NEW i \in 1..MaxLogins
        PROVE  /\ i > logins => sock'[i].state = "none"
               /\ sock'[i].state = "none" => sock'[i] = NoSocket
               /\ sock'[i].state \in {"connecting", "open"} => n = i
               /\ sock'[i].state = "connecting" =>
                    /\ ~sock'[i].told /\ sock'[i].asked = {}
                    /\ i \in DOMAIN tokens => tokens[i].uid = page.uid
               /\ sock'[i].state = "open" => sock'[i].uid = page.uid
    <3>1. CASE i = n
      BY Zenon, <1>1, <1>2, <3>1 DEF Session
    <3>2. CASE i # n
      BY <1>1, <3>2 DEF Session
    <3> QED BY Zenon, <3>1, <3>2
  <2>3. page'.ws = n /\ page'.connected = TRUE /\ n # 0 /\ sock'[n].told = TRUE
    BY Zenon, <1>2, <1>a, <1>7, <2>1
  <2>4. page'.connected = (page'.ws # 0 /\ sock'[page'.ws].told)
    BY Zenon, <2>3
  <2>5. sock'[page'.ws].state # "closing"
    BY Zenon, <1>1, <2>3
  <2> QED BY Zenon, <1>2, <1>7, <2>1, <2>2, <2>3, <2>4, <2>5 DEF Session
<1>10. Content'
  BY Zenon, <1>1, <1>2, <1>7, ContentSame DEF Monotone, Messages
<1> QED BY Zenon, <1>8, <1>9, <1>10 DEF Goal

LEMMA SendAckKeeps ==
  ASSUME Types, View, Session, Content, NEW n \in 1..MaxLogins, handleServerMessage(n),
         Head(sock[n].down).type = "send_ack", NEW nearBottom \in BOOLEAN,
         page' = applySendAck(page, Head(sock[n].down), nearBottom), UNCHANGED acks
  PROVE  Goal
<1>1. page.view = "chat" /\ Head(sock[n].down) \in Item
  BY Zenon, ReadIs
<1>2. PICK m \in SendAck : m = Head(sock[n].down) /\ m.type = "send_ack"
  BY Zenon, <1>1 DEF Item, Push, SendAck
<1>3. Shape(page) /\ Shown(page) /\ UNCHANGED <<logins, sent, tokens>>
  BY Zenon, <1>1 DEF View, handleServerMessage
<1>4. CASE m.cid \notin DOMAIN page.pending
  <2>1. page' = addSystemMessageToActive(page, nearBottom)
    BY Zenon, <1>2, <1>4 DEF applySendAck
  <2>2. /\ Shape(page') /\ Shown(page') /\ SameSession(page, page')
        /\ page'.rendered = page.rendered
        /\ \/ Messages(page)' = Messages(page)
           \/ \E k \in Uid : Messages(page)' =
                [Messages(page) EXCEPT ![k] = Append(Messages(page)[k], Notice)]
    BY Zenon, <1>3, <2>1, AddSystemToActiveIs
  <2> QED BY Zenon, <1>1, <1>2, <1>3, <2>2, SessionRead, QuietStep
<1>5. CASE m.cid \in DOMAIN page.pending
  <2>1. PICK k \in Uid :
          /\ Shape(page') /\ Shown(page') /\ SameSession(page, page')
          /\ page'.rendered = IF m.ok THEN page.rendered \cup {m.cid} ELSE page.rendered
          /\ Messages(page') = [Messages(page) EXCEPT ![k] = AllSettled(Messages(page)[k], m)]
    <3>0. page' = applySendAck(page, m, nearBottom)
      BY Zenon, <1>2
    <3>1. LET k == page.pending[m.cid]
          IN  /\ Shape(page') /\ Shown(page') /\ SameSession(page, page') /\ k \in Uid
              /\ page'.rendered = IF m.ok THEN page.rendered \cup {m.cid} ELSE page.rendered
              /\ Messages(page') = [Messages(page) EXCEPT ![k] = AllSettled(Messages(page)[k], m)]
      BY <1>3, <1>5, <3>0, SendAckIs
    <3> QED BY Zenon, <3>1
  <2>2. Session' /\ LinesKept /\ sock' \in [1..MaxLogins -> Socket]
    BY Zenon, <1>2, <2>1, SessionRead
  <2>3. Types' /\ View'
    BY Zenon, <1>3, <2>1, <2>2 DEF Types, View, Shape
  <2>4. Monotone /\ (m.ok => m.cid \in page'.rendered)
    BY Zenon, <1>3, <2>1 DEF Monotone, SameSession
  <2>5. Messages(page)' = [Messages(page) EXCEPT ![k] = AllSettled(Messages(page)[k], m)]
    BY Zenon, <2>1 DEF Messages
  <2>6. Content'
    BY Zenon, <2>2, <2>4, <2>5, ContentSettled
  <2> QED BY Zenon, <2>2, <2>3, <2>6 DEF Goal
<1> QED BY Zenon, <1>4, <1>5

LEMMA ErrorKeeps ==
  ASSUME Types, View, Session, Content, NEW n \in 1..MaxLogins, handleServerMessage(n),
         Head(sock[n].down).type = "error", NEW nearBottom \in BOOLEAN,
         page' = addSystemMessageToActive(page, nearBottom), UNCHANGED acks
  PROVE  Goal
<1>1. page.view = "chat"
  BY Zenon, ReadIs
<1>2. Shape(page) /\ Shown(page) /\ UNCHANGED <<logins, sent, tokens>>
  BY Zenon, <1>1 DEF View, handleServerMessage
<1>3. /\ Shape(page') /\ Shown(page') /\ SameSession(page, page')
      /\ page'.rendered = page.rendered
      /\ \/ Messages(page)' = Messages(page)
         \/ \E k \in Uid : Messages(page)' =
              [Messages(page) EXCEPT ![k] = Append(Messages(page)[k], Notice)]
  BY Zenon, <1>2, AddSystemToActiveIs
<1> QED BY Zenon, <1>1, <1>2, <1>3, SessionRead, QuietStep

\* A message that the page has is not appended again; a new one is, and if it
\* is labelled as acknowledged then the acknowledgement was sent.
LEMMA IncomingKeeps ==
  ASSUME Types, View, Session, Content, NEW n \in 1..MaxLogins, handleServerMessage(n),
         Head(sock[n].down).type = "message", NEW nearBottom \in BOOLEAN,
         page' = handleIncomingMessage(page, Head(sock[n].down), nearBottom),
         acks' = acks \cup AckSent(Head(sock[n].down))
  PROVE  Goal
<1>1. /\ page.view = "chat" /\ page.ws = n /\ sock[n].uid = page.uid
      /\ Head(sock[n].down) \in Item
      /\ \A own \in SUBSET ClientMsgId : ContentWith(own) => GoodItem(Head(sock[n].down), own)
  BY Zenon, ReadIs
<1>2. PICK m \in Push : m = Head(sock[n].down) /\ m.type = "message"
  BY Zenon, <1>1 DEF Item, Push, SendAck
<1>3. /\ Shape(page) /\ Shown(page) /\ UNCHANGED <<logins, sent, tokens>> /\ page \in Page
      /\ sock[n].state = "open" /\ n # 0
  BY <1>1 DEF View, handleServerMessage, Shape
<1>4. page' = handleIncomingMessage(page, m, nearBottom) /\ acks' = acks \cup AckSent(m)
  BY Zenon, <1>2
<1>5. CASE ~Fresh(page, m.id)
  <2>1. page' = page
    BY Zenon, <1>4, <1>5 DEF handleIncomingMessage
  <2>2. Session' /\ LinesKept /\ sock' \in [1..MaxLogins -> Socket]
    BY Zenon, <1>2, <2>1, SessionRead DEF SameSession
  <2>3. Types' /\ View'
    BY Zenon, <1>3, <2>1, <2>2 DEF Types, View
  <2>4. Content'
    BY Zenon, <1>3, <1>4, <2>1, <2>2, ContentSame DEF Monotone, Messages
  <2> QED BY Zenon, <2>2, <2>3, <2>4 DEF Goal
<1>6. CASE Fresh(page, m.id)
  <2> DEFINE p == [page EXCEPT !.rendered = page.rendered \cup {m.id}]
  <2>1. m.id \in MessageIds /\ m.id # 0 /\ m.from \in Uid /\ m.to \in Uid /\ m.history \in BOOLEAN
    BY Zenon, PageAssumption DEF Push, MessageIds
  <2>2. /\ p \in Page /\ p.rendered = page.rendered \cup {m.id} /\ SameSession(page, p)
        /\ p.active = page.active /\ p.conversations = page.conversations
        /\ p.pending = page.pending /\ p.pane = page.pane /\ p.list = page.list
        /\ p.composer = page.composer /\ p.timer = page.timer /\ p.uid = page.uid
    BY Zenon, <1>3, <2>1 DEF Page, SameSession
  <2>3. page' = appendIncomingMessage(p, m, nearBottom)
    BY Zenon, <1>4, <1>6 DEF handleIncomingMessage
  <2> HIDE DEF p
  <2>4. Shape(p) /\ Messages(p) = Messages(page)
    BY Zenon, <1>3, <2>2 DEF Shape, Messages
  <2>5. Shown(p)
    <3>1. page.list = renderConversationList(page).list => p.list = renderConversationList(p).list
      BY Zenon, <1>3, <2>2 DEF renderConversationList, Page
    <3> QED BY Zenon, <1>3, <2>2, <3>1 DEF Shown, ComposerShown, ListShown, PaneShown, SameSession
  <2>a. LET k == PeerOf(p, m)
            x == Incoming(p, m)
        IN  /\ Shape(page') /\ Shown(page') /\ SameSession(p, page')
            /\ page'.rendered = p.rendered /\ k \in Uid /\ x \in ChatMessage
            /\ Messages(page') = [Messages(p) EXCEPT ![k] = Append(Messages(p)[k], x)]
    BY <2>3, <2>4, <2>5, AppendIncomingIs
  <2>6. PICK k \in Uid, x \in ChatMessage :
          /\ k = PeerOf(p, m) /\ x = Incoming(p, m)
          /\ Shape(page') /\ Shown(page') /\ SameSession(p, page') /\ page'.rendered = p.rendered
          /\ Messages(page') = [Messages(p) EXCEPT ![k] = Append(Messages(p)[k], x)]
    BY Zenon, <2>a
  <2>7. SameSession(page, page') /\ page'.uid = page.uid
    BY Zenon, <2>2, <2>6 DEF SameSession
  <2>8. Session' /\ LinesKept /\ sock' \in [1..MaxLogins -> Socket]
    BY Zenon, <1>2, <2>7, SessionRead
  <2>9. Types' /\ View'
    BY Zenon, <1>3, <2>6, <2>8 DEF Types, View, Shape
  <2>10. PICK own \in SUBSET ClientMsgId : ContentWith(own)
    BY Zenon DEF Content
  <2>11. GoodItem(m, own)
    BY Zenon, <1>1, <1>2, <2>10
  <2>12. /\ x.direction \in {"outgoing", "incoming"} /\ x.msg_id = m.id /\ x.client_msg_id = 0
         /\ x.from_uid = m.from /\ x.to_uid = m.to
         /\ x.status = IF m.history THEN "history" ELSE "received"
         /\ k = IF m.from = page.uid THEN m.to ELSE m.from
    BY Zenon, <2>2, <2>6 DEF Incoming, Message, PeerOf
  <2>13. ~m.history => <<page.uid, m.id>> \in acks'
    BY Zenon, <1>1, <1>3, <1>4 DEF AckSent
  <2>14. Good(x, k, own)'
    <3>1. {m.from, m.to} = {page.uid, k}
      BY Zenon, <1>2, <2>11, <2>12 DEF GoodItem
    <3>2. m.id \in page'.rendered
      BY Zenon, <2>2, <2>6
    <3>3. m.id \in ClientMsgId => m.from = m.to /\ m.id \in own \cap sent'
      BY Zenon, <1>2, <1>3, <2>11 DEF GoodItem
    <3>4. x.status = "received" => <<page'.uid, x.msg_id>> \in acks'
      BY Zenon, <2>7, <2>12, <2>13
    <3> QED BY Zenon, <2>7, <2>12, <3>1, <3>2, <3>3, <3>4 DEF Good
  <2>15. ASSUME NEW l \in Uid, NEW i \in DOMAIN Messages(page)[l]
         PROVE  /\ Distinct(Messages(page)[l][i], x)
                /\ Distinct(x, Messages(page)[l][i])
    <3>1. Good(Messages(page)[l][i], l, own)
      BY Zenon, <2>10 DEF ContentWith, MessagesGood
    <3>2. m.id \notin page.rendered
      BY Zenon, <1>6 DEF Fresh
    <3> QED BY Zenon, <2>12, <3>1, <3>2 DEF Good, Distinct
  <2>16. Monotone
    BY Zenon, <1>3, <1>4, <2>2, <2>6, <2>7 DEF Monotone
  <2>17. Messages(page)' = [Messages(page) EXCEPT ![k] = Append(Messages(page)[k], x)]
    BY Zenon, <2>4, <2>6 DEF Messages
  <2>18. NoRepeats
    BY Zenon DEF Content
  <2>19. Content'
    BY Zenon, <2>8, <2>10, <2>14, <2>15, <2>16, <2>17, <2>18, LinesStep, ContentAppend
  <2> QED BY Zenon, <2>8, <2>9, <2>19 DEF Goal
<1> QED BY Zenon, <1>5, <1>6

LEMMA ServerMessageKeeps ==
  ASSUME Types, View, Session, Content, NEW n \in 1..MaxLogins, handleServerMessage(n)
  PROVE  Goal
<1>1. PICK nearBottom \in BOOLEAN :
        LET m == Head(sock[n].down)
        IN  /\ \/ m.type = "online" /\ page' = handleOnline(page, sock[n].uid)
               \/ m.type = "send_ack" /\ page' = applySendAck(page, m, nearBottom)
               \/ m.type = "message" /\ page' = handleIncomingMessage(page, m, nearBottom)
               \/ m.type = "error" /\ page' = addSystemMessageToActive(page, nearBottom)
            /\ m.type = "message" => acks' = acks \cup AckSent(m)
            /\ m.type # "message" => UNCHANGED acks
  BY Zenon DEF handleServerMessage
<1> QED BY Zenon, <1>1, OnlineKeeps, SendAckKeeps, IncomingKeeps, ErrorKeeps

\* The close event of a socket that the page still has; others it ignores.
LEMMA CloseKeeps ==
  ASSUME Types, View, Session, Content, NEW n \in 1..MaxLogins, CloseEvent(n)
  PROVE  Goal
<1>1. /\ sock \in [1..MaxLogins -> Socket] /\ page \in Page /\ Shape(page)
      /\ UNCHANGED <<logins, sent, acks, tokens>> /\ page' = handleClose(page, n)
  BY Zenon DEF Types, View, Shape, CloseEvent
<1>2. NoSocket \in Socket /\ NoSocket.state = "none" /\ NoSocket.told = FALSE
  <2>1. <<>> \in Seq(Item)
    OBVIOUS
  <2> QED BY Zenon, <2>1 DEF NoSocket, Socket
<1>3. /\ sock' \in [1..MaxLogins -> Socket] /\ sock'[n] = NoSocket
      /\ \A i \in 1..MaxLogins : i # n => sock'[i] = sock[i]
  BY Zenon, <1>1, <1>2 DEF CloseEvent
<1>4. LinesKept
  BY Zenon, <1>2, <1>3 DEF LinesKept
<1>5. /\ page' \in Page /\ page'.view = page.view /\ page'.uid = page.uid /\ page'.ws = page.ws
      /\ page'.conversations = page.conversations /\ page'.rendered = page.rendered
      /\ page'.pending = page.pending /\ page'.active = page.active
      /\ page'.pane = page.pane /\ page'.list = page.list /\ page'.timer = page.timer
      /\ page'.connected = IF page.ws = n THEN FALSE ELSE page.connected
      /\ page.ws = n => page'.composer = FALSE
      /\ page.ws # n => page'.composer = page.composer
  <2>1. CASE page.ws = n
    <3>1. page' = [page EXCEPT !.connected = FALSE, !.composer = FALSE]
      BY Zenon, <1>1, <2>1 DEF handleClose, setComposerEnabled, Page
    <3> QED BY Zenon, <1>1, <2>1, <3>1 DEF Page
  <2>2. CASE page.ws # n
    BY Zenon, <1>1, <2>2 DEF handleClose
  <2> QED BY Zenon, <2>1, <2>2
<1>6. Shape(page')
  BY Zenon, <1>1, <1>5 DEF Shape
<1>7. page.view = "chat" => Shown(page')
  <2>1. page.list = renderConversationList(page).list =>
          page'.list = renderConversationList(page').list
    BY Zenon, <1>1, <1>5 DEF renderConversationList, Page
  <2>2. page.composer = (page.connected /\ page.active # 0) =>
          page'.composer = (page'.connected /\ page'.active # 0)
    BY Zenon, <1>5
  <2> QED BY Zenon, <1>5, <2>1, <2>2 DEF View, Shown, ComposerShown, ListShown, PaneShown
<1>8. Types' /\ View'
  BY Zenon, <1>1, <1>3, <1>5, <1>6, <1>7 DEF Types, View
<1>9. Session'
  <2>1. page.ws \in 0..MaxLogins /\ (page.ws # 0 => page.ws \in 1..MaxLogins) /\ n # 0
    BY <1>1 DEF Page
  <2>2. page'.connected = (page'.ws # 0 /\ sock'[page'.ws].told)
    <3>1. CASE page.ws = n
      BY Zenon, <1>2, <1>3, <1>5, <3>1
    <3>2. CASE page.ws # n
      BY Zenon, <1>3, <1>5, <2>1, <3>2 DEF Session
    <3> QED BY Zenon, <3>1, <3>2
  <2>3. page'.ws # 0 => sock'[page'.ws].state # "closing"
    BY <1>2, <1>3, <1>5, <2>1 DEF Session
  <2>4. ASSUME NEW i \in 1..MaxLogins
        PROVE  /\ i > logins => sock'[i].state = "none"
               /\ sock'[i].state = "none" => sock'[i] = NoSocket
               /\ sock'[i].state \in {"connecting", "open"} => page.ws = i
               /\ sock'[i].state = "connecting" =>
                    /\ ~sock'[i].told /\ sock'[i].asked = {}
                    /\ i \in DOMAIN tokens => tokens[i].uid = page.uid
               /\ sock'[i].state = "open" => sock'[i].uid = page.uid
    BY Zenon, <1>2, <1>3 DEF Session
  <2> QED BY Zenon, <1>1, <1>5, <2>2, <2>3, <2>4 DEF Session
<1>10. Content'
  BY Zenon, <1>1, <1>4, <1>5, ContentSame DEF Monotone, Messages
<1> QED BY Zenon, <1>8, <1>9, <1>10 DEF Goal

-----------------------------------------------------------------------------
(* The user *)

\* A chat is cleared.
LEMMA ContentCleared ==
  ASSUME Types, Content, Monotone, LinesKept, NEW k \in Uid,
         Messages(page)' = [Messages(page) EXCEPT ![k] = <<>>]
  PROVE  Content'
<1>1. PICK own \in SUBSET ClientMsgId : ContentWith(own)
  BY Zenon DEF Content
<1>2. PICK M \in [Uid -> Seq(ChatMessage)] : M = Messages(page)
  BY Zenon, MessagesType DEF Types
<1>3. PICK N : N = [M EXCEPT ![k] = <<>>]
  BY Zenon
<1>4. N = Messages(page)'
  BY Zenon, <1>2, <1>3
<1>5. ASSUME NEW l \in Uid, NEW i \in DOMAIN N[l] PROVE i \in DOMAIN M[l] /\ N[l][i] = M[l][i]
  BY <1>2, <1>3
<1>6. NoneTwice(N)
  BY ZenonT(60), <1>2, <1>5 DEF Content, NoRepeats, NoneTwice
<1>7. \A l \in Uid : \A i \in DOMAIN M[l] : Good(M[l][i], l, own)'
  BY Zenon, <1>1, <1>2, GoodKept DEF ContentWith, MessagesGood
<1>8. \A l \in Uid : \A i \in DOMAIN N[l] : Good(N[l][i], l, own)'
  BY Zenon, <1>5, <1>7
<1>9. MessagesGood(own)' /\ NoRepeats'
  BY Zenon, <1>4, <1>6, <1>8 DEF MessagesGood, NoRepeats
<1> QED BY Zenon, <1>1, <1>9, LinesStep DEF Content, ContentWith

LEMMA ClearKeeps ==
  ASSUME Types, View, Session, Content, Clear
  PROVE  Goal
<1>1. /\ page.view = "chat" /\ Shape(page) /\ Shown(page) /\ page \in Page /\ page.active # 0
      /\ UNCHANGED <<sock, logins, sent, acks, tokens>>
  BY Zenon DEF Clear, InChat, View, Shape
<1>2. PICK k \in Uid : k = page.active /\ k \in DOMAIN page.conversations
  BY Zenon, <1>1 DEF Shape, Page
<1>3. PICK c \in Conversation : c = NoMessages /\ c.messages = <<>>
  BY Zenon, NoMessagesType DEF NoMessages
<1> DEFINE r == [page EXCEPT !.conversations[k] = c]
<1>4. Shape(r) /\ ChatBecomes(page, r, k, <<>>)
  BY <1>1, <1>2, <1>3, ReplaceChat
<1>5. page' = renderConversationList(renderMessages(r))
  BY Zenon, <1>2, <1>3 DEF Clear, NoMessages
<1> HIDE DEF r
<1>6. Shape(page') /\ Shown(page') /\ AllButShown(r, page')
  BY Zenon, <1>4, <1>5, RenderIs
<1>7. SameSession(page, page') /\ page'.rendered = page.rendered
  BY Zenon, <1>4, <1>6 DEF ChatBecomes, AllButChats, AllButShown, SameSession
<1>8. Messages(page)' = [Messages(page) EXCEPT ![k] = <<>>]
  BY Zenon, <1>4, <1>6 DEF ChatBecomes, AllButShown, Messages
<1>9. Types' /\ View'
  BY Zenon, <1>1, <1>6 DEF Types, View, Shape
<1>10. Session'
  BY Zenon, <1>1, <1>7, SameSockets, SessionSame
<1>11. Content'
  BY Zenon, <1>1, <1>7, <1>8, SameSockets, ContentCleared DEF Monotone, SameSession
<1> QED BY Zenon, <1>9, <1>10, <1>11 DEF Goal

\* Messages alone are rendered; the list is current, or the timer is set.
LEMMA RenderMessagesIs ==
  ASSUME NEW p, Shape(p), p.timer.on \/ ListShown(p)
  PROVE  LET q == renderMessages(p)
         IN  Shape(q) /\ Shown(q) /\ AllButShown(p, q)
<1> DEFINE q == renderMessages(p)
           s == renderConversationList(q)
<1>1. Shape(s) /\ Shown(s) /\ AllButShown(p, s) /\ p \in Page
  BY Zenon, RenderIs DEF Shape
<1>2. /\ AllButShown(p, q) /\ q.list = p.list /\ q = [s EXCEPT !.list = p.list]
      /\ q.pane = s.pane /\ q.composer = s.composer
  BY Zenon, <1>1 DEF renderMessages, renderConversationList, setComposerEnabled, AllButShown, Page
<1>3. ListShown(p) => ListShown(q)
  BY ZenonT(60), <1>2 DEF ListShown, AllButShown, renderConversationList, renderMessages,
              setComposerEnabled, Page
<1> HIDE DEF q, s
<1>4. q \in Page
  BY Zenon, <1>1, <1>2 DEF Shape, Page
<1>5. Shape(q)
  BY Zenon, <1>1, <1>2, <1>4 DEF Shape, AllButShown
<1>6. Shown(q)
  BY ZenonT(60), <1>1, <1>2, <1>3 DEF Shown, ComposerShown, PaneShown, AllButShown
<1> QED BY Zenon, <1>2, <1>5, <1>6 DEF q

LEMMA LoadOlderKeeps ==
  ASSUME Types, View, Session, Content, loadOlderMessages
  PROVE  Goal
<1>1. /\ page.view = "chat" /\ Shape(page) /\ Shown(page) /\ page \in Page /\ page.active # 0
      /\ UNCHANGED <<sock, logins, sent, acks, tokens>>
  BY Zenon DEF loadOlderMessages, InChat, View, Shape
<1>2. PICK k \in Uid : k = page.active /\ k \in DOMAIN page.conversations
  BY Zenon, <1>1 DEF Shape, Page
<1>3. PICK c \in Conversation : c = page.conversations[k]
  <2>1. page.conversations \in MapOf(Uid, Conversation)
    BY Zenon, <1>1 DEF Page
  <2> QED BY <1>2, <2>1, MapIs
<1> DEFINE more == getVisibleMessageCount(c) + MESSAGE_PAGE_SIZE
           v == IF more < Len(c.messages) THEN more ELSE Len(c.messages)
           d == [c EXCEPT !.visibleMessageCount = v]
           r == [page EXCEPT !.conversations[k] = d]
<1>4. v \in Nat /\ v # 0
  <2>1. /\ getVisibleMessageCount(c) \in 0..Len(c.messages)
        /\ getVisibleMessageCount(c) < Len(c.messages) /\ Len(c.messages) \in Nat
    BY <1>2, <1>3, WindowIs DEF loadOlderMessages, Conversation
  <2> QED BY <2>1, PageAssumption
<1>5. page' = renderMessages(r)
  BY Zenon, <1>1, <1>2, <1>3 DEF loadOlderMessages, Page, Conversation
<1> HIDE DEF v
<1>6. /\ d \in Conversation /\ d.messages = c.messages /\ d.unread = c.unread
      /\ d.visibleMessageCount # 0
  BY Zenon, <1>4 DEF Conversation
<1> HIDE DEF d
<1>7. Shape(r) /\ ChatBecomes(page, r, k, d.messages) /\ r.conversations[k] = d
  BY <1>1, <1>2, <1>6, ReplaceChat
<1>8. r \in Page /\ r.list = page.list /\ r.timer = page.timer
      /\ DOMAIN r.conversations = DOMAIN page.conversations
      /\ \A j \in DOMAIN page.conversations :
           r.conversations[j].unread = page.conversations[j].unread
  BY Zenon, <1>2, <1>3, <1>6, <1>7 DEF Shape, ChatBecomes, AllButChats
<1> HIDE DEF r
<1>9. r.timer.on \/ ListShown(r)
  <2>1. /\ ListShown(page) <=>
             page.list = [j \in DOMAIN page.conversations |-> page.conversations[j].unread]
        /\ ListShown(r) <=> r.list = [j \in DOMAIN r.conversations |-> r.conversations[j].unread]
    BY Zenon, <1>1, <1>8 DEF ListShown, renderConversationList, Page
  <2>2. [j \in DOMAIN page.conversations |-> page.conversations[j].unread] =
          [j \in DOMAIN r.conversations |-> r.conversations[j].unread]
    BY Zenon, <1>8
  <2> QED BY Zenon, <1>1, <1>8, <2>1, <2>2 DEF Shown
<1>10. Shape(page') /\ Shown(page') /\ AllButShown(r, page')
  BY Zenon, <1>5, <1>7, <1>9, RenderMessagesIs
<1>11. SameSession(page, page') /\ page'.rendered = page.rendered
  BY Zenon, <1>7, <1>10 DEF ChatBecomes, AllButChats, AllButShown, SameSession
<1>12. Messages(r) = Messages(page)
  <2>1. Messages(page)[k] = c.messages /\ Messages(page) \in [Uid -> Seq(ChatMessage)]
    BY Zenon, <1>1, <1>2, <1>3, MessagesType DEF Messages
  <2> QED BY Zenon, <1>6, <1>7, <2>1 DEF ChatBecomes
<1>13. Messages(page)' = Messages(page)
  BY Zenon, <1>10, <1>12 DEF AllButShown, Messages
<1> QED BY Zenon, <1>1, <1>10, <1>11, <1>13, SameSockets, QuietStep

\* A login or logout leaves no message and no open socket.
LEMMA ContentEmpty ==
  ASSUME page'.conversations = EmptyMap,
         \A n \in 1..MaxLogins : sock'[n].state # "open"
  PROVE  Content'
<1>1. \A k \in Uid : Messages(page)'[k] = <<>>
  BY Zenon DEF EmptyMap, Messages
<1>2. NoRepeats' /\ MessagesGood({})'
  BY <1>1 DEF NoRepeats, NoneTwice, MessagesGood
<1>3. ContentWith({})'
  BY Zenon, <1>2 DEF ContentWith
<1> QED BY Zenon, <1>2, <1>3 DEF Content

LEMMA LogoutKeeps ==
  ASSUME Types, View, Session, Content, logout
  PROVE  Goal
<1>1. /\ page.view = "chat" /\ page \in Page /\ sock \in [1..MaxLogins -> Socket]
      /\ UNCHANGED <<logins, sent, acks, tokens>> /\ sock' = Closed
  BY Zenon DEF logout, Types
<1>2. EmptyMap \in MapOf(Uid, Conversation) /\ EmptyMap \in MapOf(ClientMsgId, Uid)
      /\ DOMAIN EmptyMap = {}
  BY Zenon, EmptyMapType
<1>3. NoTimer \in Timer
  BY Zenon DEF NoTimer, Timer
<1>4. page' = [page EXCEPT !.ws = 0, !.connected = FALSE, !.composer = FALSE, !.timer = NoTimer,
                 !.uid = 0, !.active = 0, !.conversations = EmptyMap, !.pending = EmptyMap,
                 !.rendered = {}, !.view = "auth"]
  BY Zenon, <1>1 DEF logout, resetChatState, closeWebSocket, setComposerEnabled, Page
<1>5. /\ page' \in Page /\ page'.ws = 0 /\ page'.connected = FALSE /\ page'.view = "auth"
      /\ page'.active = 0 /\ page'.conversations = EmptyMap /\ page'.pending = EmptyMap
  <2>1. /\ page'.ws = 0 /\ page'.connected = FALSE /\ page'.view = "auth" /\ page'.active = 0
        /\ page'.conversations = EmptyMap /\ page'.pending = EmptyMap
    BY Zenon, <1>1, <1>4 DEF Page
  <2>2. {} \in SUBSET MessageIds /\ 0 \in 0..MaxLogins
    BY PageAssumption
  <2>3. page' \in Page
    BY Zenon, <1>1, <1>2, <1>3, <1>4, <2>2 DEF Page
  <2> QED BY Zenon, <2>1, <2>3
<1>6. Shape(page')
  BY Zenon, <1>2, <1>5 DEF Shape
<1>7. ASSUME NEW n \in 1..MaxLogins
      PROVE  /\ sock'[n] \in Socket /\ sock'[n].state \notin {"connecting", "open"}
             /\ sock'[n].state = "none" => sock'[n] = sock[n]
             /\ sock[n].state = "none" => sock'[n] = sock[n]
  <2>0. sock[n] \in Socket
    BY Zenon, <1>1
  <2>1. CASE page.ws = n /\ sock[n].state \in {"connecting", "open"}
    <3>1. sock'[n] = [sock[n] EXCEPT !.state = "closing", !.down = <<>>]
      BY <1>1, <2>0, <2>1 DEF Closed, Socket
    <3>2. <<>> \in Seq(Item)
      OBVIOUS
    <3> QED BY Zenon, <2>0, <2>1, <3>1, <3>2 DEF Socket
  <2>2. CASE ~(page.ws = n /\ sock[n].state \in {"connecting", "open"})
    <3>1. sock'[n] = sock[n]
      BY Zenon, <1>1, <2>2 DEF Closed
    <3>2. sock[n].state \notin {"connecting", "open"}
      BY Zenon, <2>2 DEF Session
    <3> QED BY Zenon, <2>0, <3>1, <3>2
  <2> QED BY Zenon, <2>1, <2>2
<1>8. sock' \in [1..MaxLogins -> Socket]
  <2>1. DOMAIN sock' = 1..MaxLogins /\ sock' = [n \in 1..MaxLogins |-> sock'[n]]
    BY Zenon, <1>1 DEF Closed
  <2> QED BY Zenon, <1>7, <2>1
<1>9. Types' /\ View'
  BY Zenon, <1>1, <1>5, <1>6, <1>8 DEF Types, View
<1>10. Session'
  <2>1. \A n \in 1..MaxLogins :
          /\ n > logins => sock'[n].state = "none"
          /\ sock'[n].state = "none" => sock'[n] = NoSocket
    BY Zenon, <1>7 DEF Session
  <2> QED BY Zenon, <1>1, <1>5, <1>7, <2>1 DEF Session
<1>11. Content'
  BY Zenon, <1>5, <1>7, ContentEmpty
<1> QED BY Zenon, <1>9, <1>10, <1>11 DEF Goal

\* A login leaves nothing of the one before, and its socket brings its token.
LEMMA LoginKeeps ==
  ASSUME Types, View, Session, Content, NEW u \in Uid, NEW password \in Password,
         login(u, password)
  PROVE  Goal
<1> DEFINE n == logins + 1
<1>1. /\ page.view = "auth" /\ page \in Page /\ sock \in [1..MaxLogins -> Socket]
      /\ logins' = n /\ sent' = sent /\ page.ws = 0 /\ page.conversations = EmptyMap
  BY Zenon DEF login, Types, Session
<1>2. n \in 1..MaxLogins /\ n > logins /\ logins' \in 0..MaxLogins
  BY <1>1, PageAssumption DEF login, Types
<1>3. /\ \A i \in 1..MaxLogins : sock[i].state \notin {"connecting", "open"}
      /\ sock[n] = NoSocket
  BY <1>1, <1>2 DEF Session
<1>4. /\ \A i \in DOMAIN tokens' : i # n => i \in DOMAIN tokens /\ tokens'[i] = tokens[i]
      /\ tokens'[n].uid = u
  BY Zenon DEF login, Auth!login, Auth!Put
<1> HIDE DEF n
<1>5. CASE UNCHANGED <<page, sock>>
  <2>1. Types' /\ View'
    BY Zenon, <1>1, <1>2, <1>5 DEF Types, View
  <2>2. Session'
    <3>1. \A i \in 1..MaxLogins : i > n => i > logins
      BY <1>2 DEF Types
    <3> QED BY Zenon, <1>1, <1>3, <1>5, <3>1 DEF Session
  <2>3. Content'
    BY Zenon, <1>1, <1>3, <1>5, ContentEmpty
  <2> QED BY Zenon, <2>1, <2>2, <2>3 DEF Goal
<1>6. CASE /\ page' = [closeWebSocket(showChatView([resetChatState(page) EXCEPT !.uid = u]))
                         EXCEPT !.ws = n]
           /\ sock' = [Closed EXCEPT ![n].state = "connecting"]
  <2> DEFINE r == [page EXCEPT !.timer = NoTimer, !.uid = u, !.connected = FALSE, !.active = 0,
                     !.conversations = EmptyMap, !.pending = EmptyMap, !.rendered = {},
                     !.view = "chat"]
             s == renderMessages(renderConversationList(r))
  <2>1. /\ EmptyMap \in MapOf(Uid, Conversation) /\ EmptyMap \in MapOf(ClientMsgId, Uid)
        /\ DOMAIN EmptyMap = {} /\ {} \in SUBSET MessageIds
    BY Zenon, EmptyMapType
  <2>2. NoTimer \in Timer /\ NoTimer.on = FALSE
    BY Zenon DEF NoTimer, Timer
  <2>3. /\ r.uid = u /\ r.connected = FALSE /\ r.active = 0 /\ r.conversations = EmptyMap
        /\ r.pending = EmptyMap /\ r.view = "chat"
    BY Zenon, <1>1 DEF Page
  <2>4. r \in Page
    BY Zenon, <1>1, <2>1, <2>2 DEF Page
  <2>5. page' = [closeWebSocket(s) EXCEPT !.ws = n]
    BY Zenon, <1>1, <1>6 DEF resetChatState, showChatView, Page
  <2> HIDE DEF r
  <2>6. Shape(r)
    BY Zenon, <2>1, <2>3, <2>4 DEF Shape
  <2>7. Shape(s) /\ Shown(s) /\ AllButShown(r, s) /\ s \in Page
    BY Zenon, <2>6, RenderIs DEF Shape
  <2> HIDE DEF s
  <2>8. /\ s.connected = FALSE /\ s.active = 0 /\ s.composer = FALSE /\ s.uid = u
        /\ s.view = "chat" /\ s.conversations = EmptyMap /\ s.pending = EmptyMap
    BY Zenon, <2>3, <2>7 DEF AllButShown, Shown, ComposerShown
  <2>9. page' = [s EXCEPT !.ws = n]
    BY Zenon, <2>5, <2>7, <2>8 DEF closeWebSocket, setComposerEnabled, Page
  <2>10. /\ page' \in Page /\ page'.ws = n /\ page'.connected = FALSE /\ page'.active = 0
         /\ page'.composer = FALSE /\ page'.uid = u /\ page'.view = "chat"
         /\ page'.conversations = EmptyMap /\ page'.pending = EmptyMap
         /\ page'.list = s.list /\ page'.pane = s.pane /\ page'.timer = s.timer
    BY <1>2, <2>7, <2>8, <2>9 DEF Page
  <2>11. Shape(page')
    BY Zenon, <2>1, <2>10 DEF Shape
  <2>12. Shown(page')
    <3>1. s.list = renderConversationList(s).list => page'.list = renderConversationList(page').list
      BY <2>7, <2>8, <2>10 DEF renderConversationList, Page
    <3> QED BY Zenon, <2>7, <2>10, <3>1 DEF Shown, ComposerShown, ListShown, PaneShown
  <2>13. PICK t \in Socket :
           /\ t = [NoSocket EXCEPT !.state = "connecting"]
           /\ t.state = "connecting" /\ t.told = FALSE /\ t.asked = {}
    <3>1. NoSocket \in Socket
      BY Zenon, <1>1, <1>2, <1>3
    <3>2. [NoSocket EXCEPT !.state = "connecting"] \in Socket
      BY Zenon, <3>1 DEF Socket
    <3> QED BY Zenon, <3>2 DEF NoSocket
  <2>14. /\ sock' \in [1..MaxLogins -> Socket] /\ sock'[n] = t
         /\ \A i \in 1..MaxLogins : i # n => sock'[i] = sock[i]
    <3>1. sock' = [sock EXCEPT ![n] = t]
      BY Zenon, <1>1, <1>2, <1>3, <1>6, <2>13 DEF Closed
    <3> QED BY Zenon, <1>1, <1>2, <3>1
  <2>15. Types' /\ View'
    BY Zenon, <1>1, <1>2, <2>10, <2>11, <2>12, <2>14 DEF Types, View
  <2>16. Session'
    <3>1. ASSUME NEW i \in 1..MaxLogins
          PROVE  /\ i > n => sock'[i].state = "none"
                 /\ sock'[i].state = "none" => sock'[i] = NoSocket
                 /\ sock'[i].state \in {"connecting", "open"} => n = i
                 /\ sock'[i].state = "connecting" =>
                      /\ ~sock'[i].told /\ sock'[i].asked = {}
                      /\ i \in DOMAIN tokens' => tokens'[i].uid = u
                 /\ sock'[i].state = "open" => sock'[i].uid = u
      <4>1. CASE i = n
        <5>1. ~(i > n)
          BY <1>2, <4>1
        <5>2. sock'[i] = t /\ tokens'[i].uid = u
          BY Zenon, <1>4, <2>14, <4>1
        <5> QED BY Zenon, <2>13, <4>1, <5>1, <5>2
      <4>2. CASE i # n
        <5>1. i > n => i > logins
          BY <1>2 DEF Types
        <5> QED BY Zenon, <1>3, <2>14, <4>2, <5>1 DEF Session
      <4> QED BY Zenon, <4>1, <4>2
    <3>2. page'.connected = (page'.ws # 0 /\ sock'[page'.ws].told)
      BY Zenon, <2>10, <2>13, <2>14
    <3>3. sock'[page'.ws].state # "closing"
      BY Zenon, <2>10, <2>13, <2>14
    <3> QED BY Zenon, <1>1, <2>10, <3>1, <3>2, <3>3 DEF Session
  <2>17. Content'
    BY Zenon, <1>3, <2>10, <2>13, <2>14, ContentEmpty
  <2> QED BY Zenon, <2>15, <2>16, <2>17 DEF Goal
<1> QED BY Zenon, <1>5, <1>6 DEF login, n

\* Registering, and time, which change only the accounts.
LEMMA AccountsStep ==
  ASSUME Types, View, Session, Content, UNCHANGED <<page, sock, logins, sent, acks, tokens>>
  PROVE  Goal
<1>1. sock' \in [1..MaxLogins -> Socket]
  BY Zenon DEF Types
<1> QED BY Zenon, <1>1, GatewayStep

\* A client_msg_id that is not in use may be one of a message to oneself or not.
LEMMA OwnChange ==
  ASSUME NEW own \in SUBSET ClientMsgId, NEW more \in SUBSET ClientMsgId,
         ContentWith(own), \A cid \in sent : cid \in own <=> cid \in more
  PROVE  ContentWith(more)
<1>1. \A x, k : Good(x, k, own) => Good(x, k, more)
  BY Zenon DEF Good
<1>2. \A s : LineGood(s, own) => LineGood(s, more)
  BY Zenon DEF LineGood, GoodItem, GoodRequest
<1> QED BY Zenon, <1>1, <1>2 DEF ContentWith, MessagesGood

LEMMA SendMessageKeeps ==
  ASSUME Types, View, Session, Content, NEW cid \in ClientMsgId, sendMessage(cid)
  PROVE  Goal
<1>1. /\ page.view = "chat" /\ Shape(page) /\ Shown(page) /\ page \in Page /\ page.composer
      /\ UNCHANGED <<logins, acks, tokens>> /\ cid \notin sent /\ sent' = sent \cup {cid}
      /\ sock[page.ws].state = "open" /\ sock \in [1..MaxLogins -> Socket]
  BY Zenon DEF sendMessage, InChat, View, Shape, Types
<1>2. page.connected /\ page.active # 0
  BY Zenon, <1>1 DEF Shown, ComposerShown
<1>3. PICK n \in 1..MaxLogins : n = page.ws /\ sock[n].state = "open"
  BY <1>1, <1>2 DEF Session, Page
<1>4. PICK k \in Uid : k = page.active /\ k \in DOMAIN page.conversations
  BY Zenon, <1>1, <1>2 DEF Shape, Page
<1>5. PICK u \in Uid : u = page.uid
  BY Zenon, <1>1 DEF Session
<1>6. PICK x \in ChatMessage :
        /\ x = Message("outgoing", 0, cid, u, k, "sending")
        /\ x.direction = "outgoing" /\ x.msg_id = 0 /\ x.client_msg_id = cid
        /\ x.from_uid = u /\ x.to_uid = k /\ x.status = "sending"
  <2>1. Message("outgoing", 0, cid, u, k, "sending") \in ChatMessage
    BY Zenon DEF Message, ChatMessage
  <2> QED BY Zenon, <2>1 DEF Message
<1> DEFINE old == page.conversations[k]
           c == [old EXCEPT !.messages = Append(old.messages, x)]
           d == resetVisibleMessageWindow(c)
           r == [page EXCEPT !.conversations[k] = d]
           waits == Put(page.pending, cid, k)
           s == [r EXCEPT !.pending = waits]
<1>7. old \in Conversation /\ old.messages \in Seq(ChatMessage) /\ old.messages = Messages(page)[k]
  <2>1. page.conversations \in MapOf(Uid, Conversation)
    BY Zenon, <1>1 DEF Page
  <2>2. old \in Conversation
    BY <1>4, <2>1, MapIs
  <2> QED BY Zenon, <1>4, <2>2 DEF Conversation, Messages
<1>8. Append(old.messages, x) \in Seq(ChatMessage) /\ Append(old.messages, x) # <<>>
  BY <1>7
<1>9. c \in Conversation /\ c.messages = Append(old.messages, x)
  BY Zenon, <1>7, <1>8 DEF Conversation
<1>10. page' = renderMessages(renderConversationList(s))
  BY Zenon, <1>1, <1>4, <1>5, <1>6 DEF sendMessage, Page
<1> HIDE DEF c
<1>11. d \in Conversation /\ d.messages = c.messages /\ d.visibleMessageCount # 0
  BY Zenon, <1>8, <1>9, ResetWindowIs
<1> HIDE DEF d
<1>12. Shape(r) /\ ChatBecomes(page, r, k, d.messages)
  BY Zenon, <1>1, <1>4, <1>11, ReplaceChat
<1>13. waits \in MapOf(ClientMsgId, Uid)
  <2>1. page.pending \in MapOf(ClientMsgId, Uid)
    BY Zenon, <1>1 DEF Page
  <2> QED BY Zenon, <2>1, PutType
<1>14. /\ \A a \in DOMAIN waits : a = cid \/ a \in DOMAIN page.pending
       /\ waits[cid] = k /\ \A a \in DOMAIN page.pending : a # cid => waits[a] = page.pending[a]
  BY Zenon DEF Put
<1> HIDE DEF r, waits, old
<1>15. /\ s \in Page /\ s.pending = waits /\ s.conversations = r.conversations
       /\ s.active = r.active /\ SameSession(r, s) /\ s.rendered = r.rendered
  BY Zenon, <1>12, <1>13 DEF Shape, Page, SameSession
<1>16. Shape(s)
  <2>1. r.pending = page.pending /\ k \in DOMAIN r.conversations
    BY Zenon, <1>12 DEF ChatBecomes, AllButChats
  <2> QED BY Zenon, <1>12, <1>14, <1>15, <2>1 DEF Shape
<1> HIDE DEF s
<1>17. Shape(page') /\ Shown(page') /\ AllButShown(s, page')
  BY Zenon, <1>10, <1>16, RenderIs
<1>18. SameSession(page, page') /\ page'.rendered = page.rendered /\ page'.uid = u
  BY Zenon, <1>5, <1>12, <1>15, <1>17 DEF ChatBecomes, AllButChats, AllButShown, SameSession
<1>19. Messages(page)' = [Messages(page) EXCEPT ![k] = Append(Messages(page)[k], x)]
  BY ZenonT(60), <1>7, <1>9, <1>11, <1>12, <1>15, <1>17 DEF ChatBecomes, AllButShown, Messages
<1>20. PICK a \in Request : a = [cid |-> cid, to |-> k] /\ a.cid = cid /\ a.to = k
  <2>1. [cid |-> cid, to |-> k] \in Request
    BY Zenon DEF Request
  <2> QED BY Zenon, <2>1
<1>21. PICK t \in Socket :
         /\ t = [sock[n] EXCEPT !.asked = sock[n].asked \cup {a}]
         /\ t.state = sock[n].state /\ t.uid = sock[n].uid /\ t.told = sock[n].told
         /\ t.down = sock[n].down /\ t.asked = sock[n].asked \cup {a}
  <2>1. sock[n] \in Socket
    BY Zenon, <1>1
  <2>2. sock[n].asked \cup {a} \in SUBSET Request
    BY Zenon, <2>1 DEF Socket
  <2>3. [sock[n] EXCEPT !.asked = sock[n].asked \cup {a}] \in Socket
    BY Zenon, <2>1, <2>2 DEF Socket
  <2> QED BY Zenon, <2>1, <2>3 DEF Socket
<1>22. sock' = [sock EXCEPT ![n] = t]
  BY Zenon, <1>1, <1>3, <1>4, <1>20, <1>21 DEF sendMessage
<1>23. /\ sock' \in [1..MaxLogins -> Socket] /\ sock'[n] = t
       /\ \A i \in 1..MaxLogins : i # n => sock'[i] = sock[i]
  BY Zenon, <1>1, <1>22
<1>24. Types' /\ View'
  BY Zenon, <1>1, <1>17, <1>23 DEF Types, View, Shape
<1>25. Session'
  BY ZenonT(60), <1>1, <1>3, <1>18, <1>21, <1>23, SessionSame
<1>26. Content'
  <2>1. PICK own \in SUBSET ClientMsgId : ContentWith(own)
    BY Zenon DEF Content
  <2>2. PICK more \in SUBSET ClientMsgId :
          more = IF k = u THEN own \cup {cid} ELSE own \ {cid}
    BY Zenon
  <2>3. cid \in more <=> k = u
    BY Zenon, <2>2
  <2>4. ContentWith(more)
    BY Zenon, <1>1, <2>1, <2>2, OwnChange
  <2>5. Monotone
    BY Zenon, <1>1, <1>18 DEF Monotone, SameSession
  <2>6. \A i \in 1..MaxLogins : (sock[i].state = "open" => LineGood(sock[i], more))'
    <3>1. PICK f : f = sock
      BY Zenon
    <3>2. \A i \in 1..MaxLogins : f[i].state = "open" => LineGood(f[i], more)'
      BY Zenon, <2>4, <2>5, <3>1, GoodKept DEF ContentWith
    <3>3. GoodRequest(a, more)'
      BY Zenon, <1>1, <1>18, <1>20, <2>3 DEF GoodRequest
    <3>4. LineGood(t, more)'
      BY Zenon, <1>3, <1>21, <3>1, <3>2, <3>3 DEF LineGood
    <3>5. \A i \in 1..MaxLogins : sock'[i] = IF i = n THEN t ELSE f[i]
      BY Zenon, <1>23, <3>1
    <3> QED BY Zenon, <3>2, <3>4, <3>5
  <2>7. Good(x, k, more)'
    BY Zenon, <1>1, <1>6, <1>18, <2>3, PageAssumption DEF Good
  <2>8. ASSUME NEW l \in Uid, NEW i \in DOMAIN Messages(page)[l]
        PROVE  /\ Distinct(Messages(page)[l][i], x)
               /\ Distinct(x, Messages(page)[l][i])
    <3>1. Good(Messages(page)[l][i], l, own) /\ cid # 0
      BY Zenon, <2>1, PageAssumption DEF ContentWith, MessagesGood
    <3> QED BY Zenon, <1>1, <1>6, <3>1 DEF Good, Distinct
  <2>9. NoRepeats
    BY Zenon DEF Content
  <2> QED BY Zenon, <1>19, <2>4, <2>5, <2>6, <2>7, <2>8, <2>9, ContentAppend
<1> QED BY Zenon, <1>24, <1>25, <1>26 DEF Goal

-----------------------------------------------------------------------------
(* The invariant *)

LEMMA InitHolds == Init => IInv
<1> SUFFICES ASSUME Init PROVE IInv
  BY Zenon
<1>1. /\ EmptyMap \in MapOf(Uid, Conversation) /\ EmptyMap \in MapOf(ClientMsgId, Uid)
      /\ EmptyMap \in MapOf(Uid, Nat) /\ DOMAIN EmptyMap = {}
  BY Zenon, EmptyMapType
<1>2. NoTimer \in Timer /\ <<>> \in Seq(ChatMessage) /\ <<>> \in Seq(Item)
  BY DEF NoTimer, Timer
<1>3. 0 \in 0..MaxLogins
  BY PageAssumption
<1>4. page \in Page
  BY Zenon, <1>1, <1>2, <1>3 DEF Init, Page
<1>5. /\ page.view = "auth" /\ page.ws = 0 /\ page.connected = FALSE /\ page.active = 0
      /\ page.conversations = EmptyMap /\ page.pending = EmptyMap
      /\ sock = [n \in 1..MaxLogins |-> NoSocket] /\ logins = 0 /\ sent = {}
  BY Zenon DEF Init
<1>6. NoSocket \in Socket /\ NoSocket.state = "none"
  BY Zenon, <1>2 DEF NoSocket, Socket
<1>7. Types
  BY Zenon, <1>3, <1>4, <1>5, <1>6 DEF Types
<1>8. View
  BY Zenon, <1>1, <1>4, <1>5 DEF View, Shape
<1>9. Session
  BY Zenon, <1>5, <1>6 DEF Session
<1>10. Content
  <2>1. \A k \in Uid : Messages(page)[k] = <<>>
    BY Zenon, <1>1, <1>5 DEF Messages
  <2>2. NoRepeats /\ MessagesGood({})
    BY <2>1 DEF NoRepeats, NoneTwice, MessagesGood
  <2>3. ContentWith({})
    BY Zenon, <1>5, <1>6, <2>2 DEF ContentWith
  <2> QED BY Zenon, <2>2, <2>3 DEF Content
<1> QED BY Zenon, <1>7, <1>8, <1>9, <1>10 DEF IInv

LEMMA InvariantKept == IInv /\ [Next]_vars => IInv'
<1> SUFFICES ASSUME Types, View, Session, Content, [Next]_vars PROVE Goal
  BY Zenon DEF IInv, Goal
<1>1. ASSUME NEW u \in Uid, NEW password \in Password,
             login(u, password) \/ register(u, password)
      PROVE  Goal
  BY Zenon, <1>1, LoginKeeps, AccountsStep DEF register, Auth!register
<1>2. CASE logout \/ Clear \/ loadOlderMessages \/ NewSelfChat \/ sendMessageUnready
  BY Zenon, <1>2, LogoutKeeps, ClearKeeps, LoadOlderKeeps, NewSelfChatKeeps, SendMessageUnreadyKeeps
<1>3. ASSUME NEW k \in Uid, Select(k) PROVE Goal
  BY Zenon, <1>3, SelectKeeps
<1>4. ASSUME NEW cid \in ClientMsgId, sendMessage(cid) PROVE Goal
  BY Zenon, <1>4, SendMessageKeeps
<1>5. CASE flushIncomingRender \/ GatewayRestart \/ TimePasses
  BY Zenon, <1>5, FlushKeeps, RestartKeeps, AccountsStep DEF TimePasses, Auth!Tick
<1>6. ASSUME NEW n \in 1..MaxLogins, handleServerMessage(n) \/ CloseEvent(n) \/ Gateway(n)
      PROVE  Goal
  BY Zenon, <1>6, ServerMessageKeeps, CloseKeeps, GatewayKeeps
<1>7. CASE UNCHANGED vars
  BY Zenon, <1>7, AccountsStep DEF vars
<1> QED BY Zenon, <1>1, <1>2, <1>3, <1>4, <1>5, <1>6, <1>7 DEF Next, User

\* Everything that the page holds is what the properties below speak of.
LEMMA ChatsAre ==
  ASSUME Types, NEW x \in Chats
  PROVE  /\ x[1] \in Uid /\ x[2] \in DOMAIN Messages(page)[x[1]]
         /\ x = <<x[1], x[2]>> /\ MessageAt(x) = Messages(page)[x[1]][x[2]]
<1>1. PICK k \in DOMAIN page.conversations :
        \E i \in DOMAIN page.conversations[k].messages : x = <<k, i>>
  BY Zenon DEF Chats
<1>2. page.conversations \in MapOf(Uid, Conversation)
  BY Zenon DEF Types, Page
<1>3. k \in Uid
  BY Zenon, <1>2, MapIs
<1> QED BY <1>1, <1>3 DEF Messages, MessageAt

\* The invariant implies the four properties.
LEMMA InvariantSuffices ==
  IInv => ViewIsCurrent /\ ShownOnce /\ PageFollowsSession /\ AckLabelIsTrue
<1> SUFFICES ASSUME Types, View, Session, Content
             PROVE  ViewIsCurrent /\ ShownOnce /\ PageFollowsSession /\ AckLabelIsTrue
  BY Zenon DEF IInv
<1>1. PICK own \in SUBSET ClientMsgId : ContentWith(own)
  BY Zenon DEF Content
<1>2. ASSUME NEW x \in Chats
      PROVE  Good(MessageAt(x), x[1], own)
  BY Zenon, <1>1, ChatsAre DEF ContentWith, MessagesGood
<1>3. ViewIsCurrent
  <2> SUFFICES ASSUME page.view = "chat"
               PROVE  LET c == page.conversations[page.active]
                      IN  /\ page.composer = (page.connected /\ page.active # 0)
                          /\ page.timer.on \/ page.list = renderConversationList(page).list
                          /\ page.active # 0 =>
                               /\ \/ page.pane = getVisibleMessages(c)
                                  \/ /\ page.timer.on /\ page.timer.needsMessages
                                     /\ page.timer.peer = page.active
                               /\ c.messages # <<>> => getVisibleMessages(c) # <<>>
    BY Zenon DEF ViewIsCurrent
  <2>1. Shape(page) /\ Shown(page)
    BY Zenon DEF View
  <2>2. ASSUME page.active # 0, page.conversations[page.active].messages # <<>>
        PROVE  getVisibleMessages(page.conversations[page.active]) # <<>>
    <3>1. page.active \in DOMAIN page.conversations
      BY Zenon, <2>1, <2>2 DEF Shape
    <3>2. page.conversations \in MapOf(Uid, Conversation)
      BY Zenon DEF Types, Page
    <3>3. page.conversations[page.active] \in Conversation
      BY <3>1, <3>2, MapIs
    <3>4. page.conversations[page.active].visibleMessageCount # 0
      BY Zenon, <2>1, <2>2, <3>1 DEF Shape
    <3> QED BY Zenon, <2>2, <3>3, <3>4, WindowIs
  <2> QED BY Zenon, <2>1, <2>2 DEF Shown, ComposerShown, ListShown, PaneShown
<1>4. ShownOnce
  <2> SUFFICES ASSUME NEW x \in Chats, NEW y \in Chats, x # y,
                      MessageAt(x).msg_id = MessageAt(y).msg_id, MessageAt(x).msg_id # 0
               PROVE  MessageAt(x).from_uid = MessageAt(x).to_uid
    BY Zenon DEF ShownOnce
  <2>1. /\ x[1] \in Uid /\ x[2] \in DOMAIN Messages(page)[x[1]] /\ x = <<x[1], x[2]>>
        /\ MessageAt(x) = Messages(page)[x[1]][x[2]]
    BY Zenon, ChatsAre
  <2>2. /\ y[1] \in Uid /\ y[2] \in DOMAIN Messages(page)[y[1]] /\ y = <<y[1], y[2]>>
        /\ MessageAt(y) = Messages(page)[y[1]][y[2]]
    BY Zenon, ChatsAre
  <2>3. Distinct(MessageAt(x), MessageAt(y))
    BY Zenon, <2>1, <2>2 DEF Content, NoRepeats, NoneTwice
  <2> QED BY Zenon, <2>3 DEF Distinct
<1>5. PageFollowsSession
  <2>1. page.connected = (page.ws # 0 /\ sock[page.ws].told)
    BY Zenon DEF Session
  <2>2. ASSUME page.connected PROVE sock[page.ws].uid = page.uid
    <3>1. page.ws \in 1..MaxLogins /\ sock[page.ws].told /\ sock[page.ws] \in Socket
      BY <2>1, <2>2 DEF Types, Page
    <3>2. sock[page.ws].state \in {"none", "connecting", "open", "closing"}
      BY Zenon, <3>1 DEF Socket
    <3>3. sock[page.ws].state \notin {"connecting", "closing"}
      BY <3>1 DEF Session
    <3>4. sock[page.ws].state # "none"
      BY <3>1 DEF Session, NoSocket
    <3> QED BY Zenon, <3>1, <3>2, <3>3, <3>4 DEF Session
  <2>3. \A x \in Chats : MessageAt(x).direction # "system" =>
          {MessageAt(x).from_uid, MessageAt(x).to_uid} = {page.uid, x[1]}
    BY Zenon, <1>2 DEF Good
  <2> QED BY Zenon, <2>1, <2>2, <2>3 DEF PageFollowsSession
<1>6. AckLabelIsTrue
  BY Zenon, <1>2 DEF Good, AckLabelIsTrue
<1> QED BY Zenon, <1>3, <1>4, <1>5, <1>6

LEMMA InvariantHolds == Spec => []IInv
BY InitHolds, InvariantKept, PTL DEF Spec

\* What the user sees is what the page knows, or the timer that
\* scheduleIncomingRender sets will show it: whatever arrives while chats are
\* switched, cleared and scrolled.
THEOREM PageViewIsCurrent == Spec => []ViewIsCurrent
BY InvariantHolds, InvariantSuffices, PTL

\* renderedMessageIds keeps messages between two users from being shown twice:
\* deliveries, their repetitions, the history and the page's own messages.
THEOREM PageShowsOnce == Spec => []ShownOnce
BY InvariantHolds, InvariantSuffices, PTL

\* The page is online as the user who logged in exactly while its present
\* socket says so, and it holds messages of this user only (handleOnline,
\* handleClose, closeWebSocket, resetChatState).
THEOREM PageFollows == Spec => []PageFollowsSession
BY InvariantHolds, InvariantSuffices, PTL

\* appendIncomingMessage labels a message "received" only if sendMessageAck has
\* sent its acknowledgement, on a socket of the same user.
THEOREM PageAckLabels == Spec => []AckLabelIsTrue
BY InvariantHolds, InvariantSuffices, PTL

=============================================================================
