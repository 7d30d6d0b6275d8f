----------------------------- MODULE MCChatPage -----------------------------
(***************************************************************************)
(* Users 1 and 2 log in one after the other in the same page.  Message 11  *)
(* goes from 2 to 1, and the page sends message 21.                        *)
(***************************************************************************)
EXTENDS ChatPage

MCUid == {1, 2}
MCPassword == {"", "1", "2"}
MCStringOf == <<"1", "2">>
MCMsgId == {11}
MCFrom == [m \in MCMsgId |-> 2]
MCTo == [m \in MCMsgId |-> 1]
MCOpens == <<{1, 2}, {1}>>
MCClientMsgId == {21}

=============================================================================
