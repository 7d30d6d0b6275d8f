---------------------------- MODULE AuthService -----------------------------
(***************************************************************************)
(* web_gateway/src/AuthService.ts: accounts and tokens, kept in memory.    *)
(* createToken draws 24 random bytes: the caller names a fresh token.      *)
(***************************************************************************)
EXTENDS Naturals, Maps

CONSTANTS
  Uid,          \* user ids
  Password,     \* what may be typed as a password; "" is the empty one
  StringOf,     \* user id -> its decimal string
  tokenTtlMs

VARIABLES
  users,        \* user  -> password
  tokens,       \* token -> [uid, expiresAtMs]
  now           \* Date.now()

authVars == <<users, tokens, now>>

Init == users = EmptyMap /\ tokens = EmptyMap /\ now = 0

\* A user id that reaches the service is positive (the page checks it).
validateCredentials(password) == password # ""

register(userId, password) ==
  /\ users' = IF /\ validateCredentials(password)
                 /\ userId \notin DOMAIN users /\ StringOf[userId] = password
              THEN Put(users, userId, password) ELSE users
  /\ UNCHANGED <<tokens, now>>

\* The saved password, or the demo rule for a user without one.
MayLogIn(userId, password) ==
  /\ validateCredentials(password)
  /\ password = IF userId \in DOMAIN users THEN users[userId] ELSE StringOf[userId]

login(userId, password, token) ==
  /\ MayLogIn(userId, password)
  /\ users' = IF userId \in DOMAIN users THEN users ELSE Put(users, userId, password)
  /\ tokens' = Put(tokens, token, [uid |-> userId, expiresAtMs |-> now + tokenTtlMs])
  /\ UNCHANGED now

Verified(token) == token \in DOMAIN tokens /\ now <= tokens[token].expiresAtMs

\* A token that has expired is deleted when it is looked at.
verifyToken(token) ==
  /\ tokens' = IF Verified(token) THEN tokens ELSE Erase(tokens, token)
  /\ UNCHANGED <<users, now>>

\* The process starts again: nothing is kept.
Restart == users' = EmptyMap /\ tokens' = EmptyMap /\ UNCHANGED now

Tick == now' = now + 1 /\ UNCHANGED <<users, tokens>>

=============================================================================
