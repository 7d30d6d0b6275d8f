-------------------------- MODULE UserStateService --------------------------
(***************************************************************************)
(* server/src/UserStateService.cpp: the state of every connection and the  *)
(* index from users to connections.  One mutex covers each operation, so   *)
(* each is one action.  last_active_ms is written by several operations    *)
(* and read by none; it is left out, and updateHeartbeat with it.          *)
(***************************************************************************)
EXTENDS Maps

CONSTANTS
  Conn,   \* connections (TcpConnection*)
  Uid     \* valid user ids; uid 0 means that nobody is logged in

ASSUME UserAssumption == 0 \notin Uid

VARIABLES
  conn_states,   \* connection -> its user and state
  uid_to_conn    \* user       -> its connection

userVars == <<conn_states, uid_to_conn>>

UserConnectionState == {"Connected", "Authenticated"}

NotLoggedIn == [uid |-> 0, state |-> "Connected"]

Init ==
  /\ conn_states = EmptyMap
  /\ uid_to_conn = EmptyMap

\* A slip of WithoutEntryOf: the entry is left.
WithoutEntryOf_Left(c) == uid_to_conn

\* uid_to_conn_ without the entry that leads to this connection, if there is
\* one; an entry for the same user that leads elsewhere stays.
WithoutEntryOf(c) ==
  LET u == conn_states[c].uid
  IN  IF c \in DOMAIN conn_states /\ u \in DOMAIN uid_to_conn /\ uid_to_conn[u] = c
      THEN Erase(uid_to_conn, u)
      ELSE uid_to_conn

\* No caller in the server uses it; bindUser creates the state it needs.
addConnection(c) ==
  /\ conn_states' = IF c \in DOMAIN conn_states THEN conn_states
                                                ELSE Put(conn_states, c, NotLoggedIn)
  /\ UNCHANGED uid_to_conn

removeConnection(c) ==
  /\ uid_to_conn' = WithoutEntryOf(c)
  /\ conn_states' = Erase(conn_states, c)

\* A slip of FormerConn: the former connection keeps its login.
FormerConn_Kept(index, c, u) == {}

\* The other connection on which the user is logged in, if there is one.
FormerConn(index, c, u) == IF u \in DOMAIN index THEN {index[u]} \ {c} ELSE {}

bindUser(c, u) ==
  LET index   == WithoutEntryOf(c)
      demoted == FormerConn(index, c, u)
      states  == [x \in DOMAIN conn_states |->
                    IF x \in demoted THEN NotLoggedIn ELSE conn_states[x]]
  IN  /\ u # 0
      /\ conn_states' = Put(states, c, [uid |-> u, state |-> "Authenticated"])
      /\ uid_to_conn' = Put(index, u, c)

getUidByConn(c) ==
  IF c \in DOMAIN conn_states /\ conn_states[c].state = "Authenticated"
  THEN conn_states[c].uid ELSE 0

\* The connections getConnByUid may return: none or one.
getConnByUid(u) == IF u \in DOMAIN uid_to_conn THEN {uid_to_conn[u]} ELSE {}

Next ==
  \E c \in Conn :
    \/ addConnection(c)
    \/ removeConnection(c)
    \/ \E u \in Uid : bindUser(c, u)

Spec == Init /\ [][Next]_userVars

-----------------------------------------------------------------------------
TypeOK ==
  /\ DOMAIN conn_states \subseteq Conn
  /\ \A c \in DOMAIN conn_states :
       conn_states[c] \in [uid : Uid \cup {0}, state : UserConnectionState]
  /\ DOMAIN uid_to_conn \subseteq Uid
  /\ \A u \in DOMAIN uid_to_conn : uid_to_conn[u] \in Conn

\* The pairs (connection, user) that each of the two maps calls online.
OnlineByConn ==
  {<<c, conn_states[c].uid>> : c \in {d \in DOMAIN conn_states : getUidByConn(d) # 0}}

OnlineByUid == {<<uid_to_conn[u], u>> : u \in DOMAIN uid_to_conn}

\* "The two must stay consistent" (bindUser): the state table and the user
\* index describe the same logins, through any sequence of logins, repeated
\* logins, takeovers and disconnects.  Otherwise a user would be sent messages
\* on a connection whose ACKs are refused, or the other way round.
TablesAgree ==
  /\ OnlineByConn = OnlineByUid
  /\ \A c \in DOMAIN conn_states :
       conn_states[c].uid # 0 <=> conn_states[c].state = "Authenticated"

Directory == INSTANCE OnlineDirectory WITH online <- OnlineByConn

\* Every operation does to the logins what the abstract directory does: a
\* takeover demotes exactly the former connection of the user, a disconnect
\* of a taken-over connection leaves the new one alone.
ImplementsDirectory == Directory!Spec

=============================================================================
