----------------------------- MODULE SortedSets -----------------------------
(***************************************************************************)
(* Redis sorted sets, as far as the server uses them.  A sorted set is a   *)
(* set of entries [score, member] that holds at most one entry per member. *)
(* Redis itself is external to the repository.                             *)
(***************************************************************************)
EXTENDS Naturals

\* ZREM: removing an absent member changes nothing.
ZRem(z, m) == {e \in z : e.member # m}

\* ZADD: an existing member only gets the new score.
ZAdd(z, s, m) == ZRem(z, m) \cup {[score |-> s, member |-> m]}

\* Entries by ascending score.  Redis breaks ties by the text of the member,
\* which for one-digit message ids is their numeric order.
ZPrecedes(a, b) ==
  \/ a.score < b.score
  \/ a.score = b.score /\ a.member < b.member

=============================================================================
