---------------------------- MODULE MCChatClient ----------------------------
(* A small instance of ChatClient for TLC. *)
EXTENDS ChatClient
=============================================================================
