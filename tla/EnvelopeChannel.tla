-------------------------- MODULE EnvelopeChannel ---------------------------
(***************************************************************************)
(* What one direction of a connection promises: envelopes are handled in   *)
(* the order in which they were sent, each once, none in between missing,  *)
(* and none after the channel broke.                                       *)
(***************************************************************************)
EXTENDS SequencesExt, Naturals

CONSTANT Item      \* what is sent

VARIABLES
  sent, handled,   \* everything sent so far, everything handled so far
  broken

chanVars == <<sent, handled, broken>>

Init == sent = <<>> /\ handled = <<>> /\ broken = FALSE

Send(x) == sent' = Append(sent, x) /\ UNCHANGED <<handled, broken>>

\* A piece of the stream arrives: it completes any number of items.
Handle ==
  /\ ~broken
  /\ \E n \in Len(handled)..Len(sent) : handled' = SubSeq(sent, 1, n)
  /\ broken' \in BOOLEAN
  /\ UNCHANGED sent

Break == broken' = TRUE /\ UNCHANGED <<sent, handled>>

Next == (\E x \in Item : Send(x)) \/ Handle \/ Break

Spec == Init /\ [][Next]_chanVars

=============================================================================
