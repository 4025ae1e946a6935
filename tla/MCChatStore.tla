---------------------------- MODULE MCChatStore ----------------------------
(***************************************************************************)
(* ChatStore for TLC.                                                      *)
(***************************************************************************)
EXTENDS ChatStore, TLC

\* The clients' threads are alike, and so are the users.
Symmetry == Permutations(Handler) \cup Permutations(User)
=============================================================================
