--------------------------- MODULE MCChatPresence ---------------------------
(* A small instance of ChatPresence for TLC: two users, friends and members. *)
EXTENDS ChatPresence, TLC

Friends == [u \in User |-> User \ {u}]
Permuted == Permutations(Conn) \cup Permutations(User)
=============================================================================
