------------------------------ MODULE MCPubSub ------------------------------
(* Two messages of two topics, one of them subscribed from the beginning. *)
EXTENDS PubSub

CONSTANTS T1, T2

FirstTopic == {T1}
OneOfEach == <<T1, T2>>
=============================================================================
