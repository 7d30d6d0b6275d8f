---------------------- MODULE MCServerEventDispatcher -----------------------
(***************************************************************************)
(* One sender (user 1, connection snd) and one receiver (user 2) who logs  *)
(* in on r1 and on r2.  The events of snd and r2 share worker w1.          *)
(***************************************************************************)
EXTENDS ServerEventDispatcher

CONSTANTS snd, r1, r2, w1, w2

MCShard == [c \in Conn |-> IF c = r1 THEN w2 ELSE w1]
MCUserOf == [c \in Conn |-> IF c = snd THEN 1 ELSE 2]

=============================================================================
