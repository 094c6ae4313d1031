------------------------------- MODULE MCBank -------------------------------
(* Small instances of Bank. *)
EXTENDS Bank, TLC

R(u, amount) == [acct |-> u, amount |-> amount]
Two == [u \in Users |-> 2]
\* Only user 1 can be given more with MaxDeposit = 3.
TwoAndThree == [u \in Users |-> IF u = 1 THEN 2 ELSE 3]

\* One trade reserved; a third reservation is made while the clients settle it,
\* retry, settle part of it or all three.
TradeStarts == {<<R(1, -2), R(2, 2)>>}
TradeAmounts == {-2, 1}
TradeBatches == {{1, 2}, {3}, {1, 3}}

\* Two commits that take the rows of users 2 and 3 in opposite orders: the lock
\* of the first owner is no lock on both.
CrossStarts == {<<R(1, -1), R(3, -1), R(2, 1), R(3, 1), R(2, -1)>>}
CrossAmounts == {-2}
CrossBatches == {{1, 2, 3}, {4, 5}, {1, 4}, {2, 6}}

ClientSymmetry == Permutations(Clients)
=============================================================================
