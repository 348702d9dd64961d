-------------------------- MODULE MCChatSessions --------------------------
(* ChatSessions between a, who offers, and b.                              *)
EXTENDS ChatSessions

CONSTANTS a, b
=============================================================================
