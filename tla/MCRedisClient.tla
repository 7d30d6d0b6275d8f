--------------------------- MODULE MCRedisClient ----------------------------
(***************************************************************************)
(* Four threads share two slots, so that two threads may have to wait.     *)
(***************************************************************************)
EXTENDS RedisClient

=============================================================================
