--------------------------- MODULE MCMessageStore ---------------------------
(***************************************************************************)
(* MessageStore on a small instance: two users (0 included, as a receiver  *)
(* nobody can log in as), two client ids, two timestamps, two messages.    *)
(***************************************************************************)
EXTENDS MessageStore

MCUid == {0, 1}
MCTime == 1..2

=============================================================================
