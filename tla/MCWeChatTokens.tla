--------------------------- MODULE MCWeChatTokens ---------------------------
(* Small instances of WeChatTokens. *)
EXTENDS WeChatTokens, TLC

Symmetry == Permutations(Users) \cup Permutations(Senders)
=============================================================================
