------------------------- MODULE MCConversationStore -------------------------
(* Small instances of ConversationStore. *)
EXTENDS ConversationStore

CONSTANTS m1, m2, m3

\* three messages, two of them of the same millisecond
SharedKey == (m1 :> 1) @@ (m2 :> 2) @@ (m3 :> 2)

Symmetry == Permutations(Callers) \cup Permutations(Workers)
=============================================================================
