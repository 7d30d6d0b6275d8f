------------------------------ MODULE MCClient ------------------------------
(***************************************************************************)
(* Two requests, one restart, and times of a few units.                    *)
(***************************************************************************)
EXTENDS Client

=============================================================================
