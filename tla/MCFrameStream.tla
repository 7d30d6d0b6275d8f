--------------------------- MODULE MCFrameStream ----------------------------
(***************************************************************************)
(* Bytes are bits and a header has two of them: a length is 0 to 3, and    *)
(* max_frame_length is 2.  The body of `big' has three bytes, so Encode    *)
(* makes a frame that every reader refuses.  The stray frames have length  *)
(* 0 and a body that does not parse.                                       *)
(***************************************************************************)
EXTENDS FrameStream

CONSTANTS short, long, big

MCSerializeToString ==
  [e \in Envelope |-> CASE e = short -> <<1>> [] e = long -> <<0, 1>> [] e = big -> <<1, 0, 1>>]

MCStray == {<<0, 0>>, <<0, 1, 0>>}

=============================================================================
