---------------------------- MODULE MCAuditChain ----------------------------
(* Small instances of AuditChain. *)
EXTENDS AuditChain, TLC

Says(route_key, action) ==
    [route_key |-> route_key, action |-> action, result |-> <<"ok">>, created_at |-> 0]

\* A `|` that may belong to either of two fields, and a route_key that is NULL
\* or empty: two pairs of rows with the same hash.
MCContents ==
    {Says(<< <<"k", "|", "s">> >>, <<"t">>), Says(<< <<"k">> >>, <<"s", "|", "t">>),
     Says(<< >>, <<"t">>), Says(<< << >> >>, <<"t">>)}

Symmetry == Permutations(Recorders)
=============================================================================
