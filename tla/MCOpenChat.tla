----------------------------- MODULE MCOpenChat -----------------------------
(* Model-checking instance of OpenChat: chats, messages and page loads are  *)
(* interchangeable.                                                         *)
EXTENDS OpenChat

OpenChatSymmetry == Permutations(Chats) \cup Permutations(Mine) \cup Permutations(LoadIds)
=============================================================================
