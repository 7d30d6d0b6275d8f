----------------------- MODULE UserStateServiceProofs -----------------------
(***************************************************************************)
(* Proofs about UserStateService, for any connections and users.           *)
(***************************************************************************)
EXTENDS UserStateService, TLAPS

\* TablesAgree, read entry by entry.
Agree ==
  /\ \A c \in DOMAIN conn_states :
       conn_states[c].uid # 0 <=> conn_states[c].state = "Authenticated"
  /\ \A u \in DOMAIN uid_to_conn :
       /\ uid_to_conn[u] \in DOMAIN conn_states
       /\ conn_states[uid_to_conn[u]].uid = u
  /\ \A c \in DOMAIN conn_states :
       conn_states[c].uid # 0 =>
         /\ conn_states[c].uid \in DOMAIN uid_to_conn
         /\ uid_to_conn[conn_states[c].uid] = c

\* When authentication means having a user, a connection is online exactly
\* when its state names one.
LEMMA OnlineByConnIs ==
  ASSUME \A c \in DOMAIN conn_states :
           conn_states[c].uid # 0 <=> conn_states[c].state = "Authenticated"
  PROVE  \A c, u : <<c, u>> \in OnlineByConn <=>
           c \in DOMAIN conn_states /\ conn_states[c].uid = u /\ u # 0
BY DEF OnlineByConn, getUidByConn

\* The two readings of consistency are the same.
LEMMA AgreeIsTablesAgree == TypeOK => (TablesAgree <=> Agree)
<1> SUFFICES ASSUME TypeOK PROVE TablesAgree <=> Agree
  OBVIOUS
<1>0. \A c, u : <<c, u>> \in OnlineByUid <=> u \in DOMAIN uid_to_conn /\ uid_to_conn[u] = c
  BY DEF OnlineByUid
<1>1. ASSUME TablesAgree PROVE Agree
  <2>1. \A c, u : <<c, u>> \in OnlineByConn <=>
          c \in DOMAIN conn_states /\ conn_states[c].uid = u /\ u # 0
    BY <1>1, OnlineByConnIs DEF TablesAgree
  <2>2. OnlineByConn = OnlineByUid
    BY <1>1 DEF TablesAgree
  <2>3. \A c, u : (u \in DOMAIN uid_to_conn /\ uid_to_conn[u] = c) <=>
                    (c \in DOMAIN conn_states /\ conn_states[c].uid = u /\ u # 0)
    BY <1>0, <2>1, <2>2
  <2> QED BY <1>1, <2>3 DEF TablesAgree, Agree
<1>2. ASSUME Agree PROVE TablesAgree
  <2>1. \A c, u : <<c, u>> \in OnlineByConn <=>
          c \in DOMAIN conn_states /\ conn_states[c].uid = u /\ u # 0
    BY <1>2, OnlineByConnIs DEF Agree
  <2>2. \A c, u : <<c, u>> \in OnlineByConn <=> <<c, u>> \in OnlineByUid
    <3>1. 0 \notin DOMAIN uid_to_conn
      BY UserAssumption DEF TypeOK
    <3>2. \A c, u : (u \in DOMAIN uid_to_conn /\ uid_to_conn[u] = c) <=>
                      (c \in DOMAIN conn_states /\ conn_states[c].uid = u /\ u # 0)
      BY <1>2, <3>1 DEF Agree
    <3> SUFFICES ASSUME NEW c, NEW u
                 PROVE  <<c, u>> \in OnlineByConn <=> <<c, u>> \in OnlineByUid
      OBVIOUS
    <3> HIDE DEF OnlineByConn, OnlineByUid
    <3>3. <<c, u>> \in OnlineByUid <=> u \in DOMAIN uid_to_conn /\ uid_to_conn[u] = c
      BY <1>0
    <3>4. <<c, u>> \in OnlineByConn <=>
            c \in DOMAIN conn_states /\ conn_states[c].uid = u /\ u # 0
      BY <2>1
    <3> QED BY <3>2, <3>3, <3>4
  <2>3. \A e \in OnlineByConn : e = <<e[1], e[2]>>
    BY DEF OnlineByConn
  <2>4. \A e \in OnlineByUid : e = <<e[1], e[2]>>
    BY DEF OnlineByUid
  <2>5. OnlineByConn = OnlineByUid
    BY <2>2, <2>3, <2>4
  <2> QED BY <1>2, <2>5 DEF TablesAgree, Agree
<1> QED BY <1>1, <1>2

\* removeConnection and bindUser first drop the entry of the connection.
LEMMA WithoutEntryOfIs ==
  ASSUME TypeOK, Agree, NEW c \in Conn
  PROVE  /\ DOMAIN WithoutEntryOf(c) = {u \in DOMAIN uid_to_conn : uid_to_conn[u] # c}
         /\ \A u \in DOMAIN WithoutEntryOf(c) : WithoutEntryOf(c)[u] = uid_to_conn[u]
<1>1. CASE c \in DOMAIN conn_states
  BY <1>1 DEF Agree, WithoutEntryOf, Erase, Restrict
<1>2. CASE c \notin DOMAIN conn_states
  BY <1>2 DEF Agree, WithoutEntryOf
<1> QED BY <1>1, <1>2

\* What bindUser leaves in the two tables.
LEMMA BindUserIs ==
  ASSUME TypeOK, Agree, NEW c \in Conn, NEW u \in Uid, bindUser(c, u)
  PROVE  /\ DOMAIN conn_states' = DOMAIN conn_states \cup {c}
         /\ conn_states'[c] = [uid |-> u, state |-> "Authenticated"]
         /\ \A x \in DOMAIN conn_states \ {c} :
              conn_states'[x] = IF conn_states[x].uid = u THEN NotLoggedIn
                                                          ELSE conn_states[x]
         /\ DOMAIN uid_to_conn' = {v \in DOMAIN uid_to_conn : uid_to_conn[v] # c} \cup {u}
         /\ uid_to_conn'[u] = c
         /\ \A v \in DOMAIN uid_to_conn : uid_to_conn[v] # c /\ v # u
              => uid_to_conn'[v] = uid_to_conn[v]
<1> DEFINE index == WithoutEntryOf(c)
           demoted == FormerConn(index, c, u)
<1>1. /\ DOMAIN index = {v \in DOMAIN uid_to_conn : uid_to_conn[v] # c}
      /\ \A v \in DOMAIN index : index[v] = uid_to_conn[v]
  BY WithoutEntryOfIs
<1> HIDE DEF index
<1>2. \A x \in DOMAIN conn_states \ {c} : x \in demoted <=> conn_states[x].uid = u
  BY <1>1, UserAssumption DEF Agree, FormerConn
<1>3. /\ conn_states' = Put([x \in DOMAIN conn_states |->
                               IF x \in demoted THEN NotLoggedIn ELSE conn_states[x]],
                            c, [uid |-> u, state |-> "Authenticated"])
      /\ uid_to_conn' = Put(index, u, c)
  BY DEF bindUser, index
<1> HIDE DEF demoted
<1> QED BY <1>1, <1>2, <1>3 DEF Put

\* What removeConnection leaves in the two tables.
LEMMA RemoveConnectionIs ==
  ASSUME TypeOK, Agree, NEW c \in Conn, removeConnection(c)
  PROVE  /\ DOMAIN conn_states' = DOMAIN conn_states \ {c}
         /\ \A x \in DOMAIN conn_states \ {c} : conn_states'[x] = conn_states[x]
         /\ DOMAIN uid_to_conn' = {u \in DOMAIN uid_to_conn : uid_to_conn[u] # c}
         /\ \A u \in DOMAIN uid_to_conn' : uid_to_conn'[u] = uid_to_conn[u]
BY WithoutEntryOfIs DEF removeConnection, Erase, Restrict

\* What addConnection leaves in the two tables.
LEMMA AddConnectionIs ==
  ASSUME NEW c \in Conn, addConnection(c)
  PROVE  /\ DOMAIN conn_states' = DOMAIN conn_states \cup {c}
         /\ c \notin DOMAIN conn_states => conn_states'[c] = NotLoggedIn
         /\ \A x \in DOMAIN conn_states : conn_states'[x] = conn_states[x]
         /\ uid_to_conn' = uid_to_conn
BY DEF addConnection, Put

IInv == TypeOK /\ Agree

\* The tables have their types and agree, entry by entry, after every step.
LEMMA UserInductive == IInv /\ [Next]_userVars => IInv'
<1> SUFFICES ASSUME TypeOK, Agree, [Next]_userVars PROVE TypeOK' /\ Agree'
  BY DEF IInv
<1>0. CASE UNCHANGED userVars
  BY <1>0 DEF userVars, TypeOK, Agree
<1>1. ASSUME NEW c \in Conn, addConnection(c) PROVE TypeOK' /\ Agree'
  <2>0. /\ DOMAIN conn_states' = DOMAIN conn_states \cup {c}
        /\ c \notin DOMAIN conn_states => conn_states'[c] = NotLoggedIn
        /\ \A x \in DOMAIN conn_states : conn_states'[x] = conn_states[x]
        /\ uid_to_conn' = uid_to_conn
    BY <1>1, AddConnectionIs
  <2>1. TypeOK'
    BY <2>0 DEF TypeOK, NotLoggedIn, UserConnectionState
  <2>2. Agree'
    BY <2>0 DEF Agree, NotLoggedIn
  <2> QED BY <2>1, <2>2
<1>2. ASSUME NEW c \in Conn, removeConnection(c) PROVE TypeOK' /\ Agree'
  <2>0. /\ DOMAIN conn_states' = DOMAIN conn_states \ {c}
        /\ \A x \in DOMAIN conn_states \ {c} : conn_states'[x] = conn_states[x]
        /\ DOMAIN uid_to_conn' = {u \in DOMAIN uid_to_conn : uid_to_conn[u] # c}
        /\ \A u \in DOMAIN uid_to_conn' : uid_to_conn'[u] = uid_to_conn[u]
    BY <1>2, RemoveConnectionIs
  <2>1. TypeOK'
    BY <2>0 DEF TypeOK
  <2>2. Agree'
    BY <2>0 DEF Agree
  <2> QED BY <2>1, <2>2
<1>3. ASSUME NEW c \in Conn, NEW u \in Uid, bindUser(c, u) PROVE TypeOK' /\ Agree'
  <2>0. /\ DOMAIN conn_states' = DOMAIN conn_states \cup {c}
        /\ conn_states'[c] = [uid |-> u, state |-> "Authenticated"]
        /\ \A x \in DOMAIN conn_states \ {c} :
             conn_states'[x] = IF conn_states[x].uid = u THEN NotLoggedIn
                                                         ELSE conn_states[x]
        /\ DOMAIN uid_to_conn' = {v \in DOMAIN uid_to_conn : uid_to_conn[v] # c} \cup {u}
        /\ uid_to_conn'[u] = c
        /\ \A v \in DOMAIN uid_to_conn : uid_to_conn[v] # c /\ v # u
             => uid_to_conn'[v] = uid_to_conn[v]
    BY <1>3, BindUserIs
  <2>1. TypeOK'
    BY <2>0 DEF TypeOK, NotLoggedIn, UserConnectionState
  <2>2. Agree'
    <3>0. u # 0
      BY UserAssumption
    <3> QED BY <2>0, <3>0 DEF Agree, NotLoggedIn
  <2> QED BY <2>1, <2>2
<1> QED BY <1>0, <1>1, <1>2, <1>3 DEF Next

\* The empty tables agree.
LEMMA UserInit == Init => IInv
BY DEF Init, IInv, TypeOK, Agree, EmptyMap

\* The tables always have their types.
THEOREM UserTypeCorrect == Spec => []TypeOK
<1> QED BY UserInit, UserInductive, PTL DEF Spec, IInv

\* The state table and the user index describe the same logins in every
\* reachable state, for any number of users and connections.
THEOREM UserTablesAgree == Spec => []TablesAgree
<1>1. IInv => TablesAgree
  BY AgreeIsTablesAgree DEF IInv
<1> QED BY <1>1, UserInit, UserInductive, PTL DEF Spec

\* Two sets of pairs with the same pairs are equal: what a step leaves online.
LEMMA OnlineStep ==
  ASSUME Agree, Agree', NEW S,
         \A e \in S : e = <<e[1], e[2]>>,
         \A c, u : (c \in DOMAIN conn_states' /\ conn_states'[c].uid = u /\ u # 0)
                     <=> <<c, u>> \in S
  PROVE  OnlineByConn' = S
<1>1. \A c \in DOMAIN conn_states' :
        conn_states'[c].uid # 0 <=> conn_states'[c].state = "Authenticated"
  BY DEF Agree
<1>2. \A c, u : <<c, u>> \in OnlineByConn' <=>
        c \in DOMAIN conn_states' /\ conn_states'[c].uid = u /\ u # 0
  BY <1>1 DEF OnlineByConn, getUidByConn
<1>3. \A e \in OnlineByConn' : e = <<e[1], e[2]>>
  BY DEF OnlineByConn
<1>4. ASSUME NEW c, NEW u PROVE <<c, u>> \in OnlineByConn' <=> <<c, u>> \in S
  BY <1>2
<1> QED BY <1>3, <1>4

\* A step of the tables is a login, a departure or nothing to the directory.
LEMMA DirectoryStep == IInv /\ IInv' /\ [Next]_userVars => [Directory!Next]_OnlineByConn
<1> SUFFICES ASSUME TypeOK, Agree, TypeOK', Agree', [Next]_userVars
             PROVE  Directory!Next \/ OnlineByConn' = OnlineByConn
  BY DEF IInv
<1>a. \A c, u : <<c, u>> \in OnlineByConn <=>
        c \in DOMAIN conn_states /\ conn_states[c].uid = u /\ u # 0
  BY OnlineByConnIs DEF Agree
<1>b. \A e \in OnlineByConn : e = <<e[1], e[2]>>
  BY DEF OnlineByConn
<1>0. CASE UNCHANGED userVars
  BY <1>0 DEF userVars, OnlineByConn, getUidByConn
<1>1. ASSUME NEW c \in Conn, addConnection(c) PROVE OnlineByConn' = OnlineByConn
  <2>0. /\ DOMAIN conn_states' = DOMAIN conn_states \cup {c}
        /\ c \notin DOMAIN conn_states => conn_states'[c] = NotLoggedIn
        /\ \A x \in DOMAIN conn_states : conn_states'[x] = conn_states[x]
    BY <1>1, AddConnectionIs
  <2>1. ASSUME NEW d, NEW v
        PROVE  (d \in DOMAIN conn_states' /\ conn_states'[d].uid = v /\ v # 0)
                 <=> <<d, v>> \in OnlineByConn
    BY <1>a, <2>0 DEF NotLoggedIn
  <2> QED BY <1>b, <2>1, OnlineStep
<1>2. ASSUME NEW c \in Conn, removeConnection(c) PROVE Directory!Leave(c)
  <2> DEFINE S == {p \in OnlineByConn : p[1] # c}
  <2>0. /\ DOMAIN conn_states' = DOMAIN conn_states \ {c}
        /\ \A x \in DOMAIN conn_states \ {c} : conn_states'[x] = conn_states[x]
    BY <1>2, RemoveConnectionIs
  <2>1. ASSUME NEW d, NEW v
        PROVE  (d \in DOMAIN conn_states' /\ conn_states'[d].uid = v /\ v # 0)
                 <=> <<d, v>> \in S
    BY <1>a, <2>0
  <2>2. \A e \in S : e = <<e[1], e[2]>>
    BY <1>b
  <2> HIDE DEF S
  <2>3. OnlineByConn' = S
    BY <2>1, <2>2, OnlineStep
  <2> QED BY <2>3 DEF Directory!Leave, S
<1>3. ASSUME NEW c \in Conn, NEW u \in Uid, bindUser(c, u) PROVE Directory!Login(c, u)
  <2>0. /\ DOMAIN conn_states' = DOMAIN conn_states \cup {c}
        /\ conn_states'[c] = [uid |-> u, state |-> "Authenticated"]
        /\ \A x \in DOMAIN conn_states \ {c} :
             conn_states'[x] = IF conn_states[x].uid = u THEN NotLoggedIn
                                                         ELSE conn_states[x]
        /\ DOMAIN uid_to_conn' = {v \in DOMAIN uid_to_conn : uid_to_conn[v] # c} \cup {u}
        /\ uid_to_conn'[u] = c
        /\ \A v \in DOMAIN uid_to_conn : uid_to_conn[v] # c /\ v # u
             => uid_to_conn'[v] = uid_to_conn[v]
    BY <1>3, BindUserIs
  <2>1. u # 0
    BY UserAssumption
  <2> DEFINE S == {p \in OnlineByConn : p[1] # c /\ p[2] # u} \cup {<<c, u>>}
  <2>2. ASSUME NEW d, NEW v
        PROVE  (d \in DOMAIN conn_states' /\ conn_states'[d].uid = v /\ v # 0)
                 <=> <<d, v>> \in S
    <3>1. <<d, v>> \in S <=> (<<d, v>> \in OnlineByConn /\ d # c /\ v # u) \/ (d = c /\ v = u)
      OBVIOUS
    <3> HIDE DEF S
    <3>2. <<d, v>> \in OnlineByConn <=>
            d \in DOMAIN conn_states /\ conn_states[d].uid = v /\ v # 0
      BY <1>a
    <3> QED BY <2>0, <2>1, <3>1, <3>2 DEF NotLoggedIn
  <2>3. \A e \in S : e = <<e[1], e[2]>>
    BY <1>b
  <2> HIDE DEF S
  <2>4. OnlineByConn' = S
    BY <2>2, <2>3, OnlineStep
  <2> QED BY <2>4 DEF Directory!Login, S
<1> QED BY <1>0, <1>1, <1>2, <1>3 DEF Next, Directory!Next

\* The tables implement the abstract directory, for any number of users and
\* connections: takeovers and late disconnects included.
THEOREM UserImplementsDirectory == Spec => ImplementsDirectory
<1>1. Init => Directory!Init
  BY DEF Init, Directory!Init, OnlineByConn, EmptyMap
<1> QED BY <1>1, UserInit, UserInductive, DirectoryStep, PTL
        DEF Spec, ImplementsDirectory, Directory!Spec

=============================================================================
