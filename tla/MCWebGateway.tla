---------------------------- MODULE MCWebGateway ----------------------------
(***************************************************************************)
(* Two sessions of one user: a page that is opened again, a second tab.    *)
(***************************************************************************)
EXTENDS WebGateway

CONSTANTS s1, s2

MCUidOf == [s \in Session |-> 1]

=============================================================================
