------------------------ MODULE MCShardedThreadPool -------------------------
(***************************************************************************)
(* Two workers and two I/O threads.  The keys of both I/O threads meet on  *)
(* worker 1, where two tasks share a key; worker 2 has one task.           *)
(***************************************************************************)
EXTENDS ShardedThreadPool

CONSTANTS i1, i2, k1, k2, k3

MCTask == 1..4
MCKeyOf == <<k1, k1, k2, k3>>
MCShard == [k \in Key |-> IF k = k3 THEN 2 ELSE 1]
MCScript == [i \in Io |-> IF i = i1 THEN <<1, 2>> ELSE <<3, 4>>]

=============================================================================
