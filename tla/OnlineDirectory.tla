--------------------------- MODULE OnlineDirectory --------------------------
(***************************************************************************)
(* What the dispatcher wants of UserStateService: who is online on which   *)
(* connection, at most one connection per user and one user per            *)
(* connection, the latest login winning.                                   *)
(***************************************************************************)
CONSTANTS Conn, Uid

VARIABLE online   \* set of pairs <<connection, user>>

Init == online = {}

\* A login takes the connection from its former user and the user from its
\* former connection.
Login(c, u) == online' = {p \in online : p[1] # c /\ p[2] # u} \cup {<<c, u>>}

Leave(c) == online' = {p \in online : p[1] # c}

Next == \E c \in Conn : Leave(c) \/ \E u \in Uid : Login(c, u)

Spec == Init /\ [][Next]_online

=============================================================================
