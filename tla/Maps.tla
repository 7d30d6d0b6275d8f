-------------------------------- MODULE Maps --------------------------------
(***************************************************************************)
(* Dictionaries as functions: a key that is absent is outside the DOMAIN.  *)
(***************************************************************************)
EXTENDS Functions

EmptyMap == [k \in {} |-> k]

Put(f, k, v) == [x \in DOMAIN f \cup {k} |-> IF x = k THEN v ELSE f[x]]

Erase(f, k) == Restrict(f, DOMAIN f \ {k})

=============================================================================
