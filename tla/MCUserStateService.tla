------------------------- MODULE MCUserStateService -------------------------
(***************************************************************************)
(* UserStateService with four connections and three users.                 *)
(***************************************************************************)
EXTENDS UserStateService

MCUid == 1..3

=============================================================================
