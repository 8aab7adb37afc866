--------------------------- MODULE MCChatSessions ---------------------------
(* Instances of ChatSessions for TLC: who the contacts are.                 *)
EXTENDS ChatSessions

CONSTANTS alice, bob
=============================================================================
