------------------------------ MODULE MCServer ------------------------------
(* Small instances of Server. *)
EXTENDS Server, TLC

Symmetry == Permutations(Slots) \cup Permutations(Conns)
AllCalls == Chains
\* One chain per way through the handlers and the pool, for the liveness run:
\* a read, a write then a read, a sign-in, and the deletion of the user's row.
FewCalls == Chains \cap {<<"info">>, <<"order", "orders">>, <<"signin", "orders">>,
                         <<"initialize">>}
=============================================================================
