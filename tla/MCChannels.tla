----------------------------- MODULE MCChannels ------------------------------
(* A small instance of ChannelDispatch for TLC: three messages of one sender *)
(* in one chat.                                                              *)
EXTENDS ChannelDispatch

ThreeMessages == 1 .. 3
Chats == {"home"}
Senders == {"alice"}
ChatOfThree == [m \in ThreeMessages |-> "home"]
SenderOfChat == [c \in Chats |-> "alice"]
==============================================================================
