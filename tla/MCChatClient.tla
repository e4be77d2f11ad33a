---------------------------- MODULE MCChatClient ----------------------------
(* Instances of ChatClient: two or three messages, a session that exists   *)
(* and one that may be created.                                            *)
EXTENDS ChatClient
=============================================================================
