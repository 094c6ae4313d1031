----------------------------- MODULE MCExchange -----------------------------
(* Small instances of Exchange. *)
EXTENDS Exchange, TLC

CONSTANTS alice, bob, c1, c2

Sell(u, n, p) == [type |-> "sell", user |-> u, amount |-> n, price |-> p]
Buy(u, n, p) == [type |-> "buy", user |-> u, amount |-> n, price |-> p]

Rich == [u \in Users |-> 100]
Poor == [u \in Users |-> IF u = alice THEN 100 ELSE 3]

\* A sell of two that takes two buys, or two trades in nested runs; a buy the
\* poor bob cannot pay; a sell of three that finds bob's buy among its targets
\* or is skipped for its size; two sells of which a run that lost its transaction
\* trades one, its UPDATE meeting two DELETEs in a deadlock.  With LimitFactor = 1
\* the scan returns fewer orders than cross.
SmallBooks == {<<Sell(alice, 1, 1), Buy(bob, 1, 2), Buy(alice, 1, 1)>>,
               <<Buy(bob, 2, 2), Sell(alice, 1, 1), Sell(bob, 1, 9)>>,
               <<Buy(bob, 2, 2), Sell(alice, 3, 1), Sell(bob, 1, 2)>>,
               <<Sell(alice, 2, 1), Sell(bob, 2, 1), Buy(bob, 2, 1)>>}
SmallOffers == {Sell(alice, 1, 2), Buy(alice, 2, 2), Buy(bob, 2, 3)}

\* One book for faults and liveness, where no symmetry may be used: a buy that is
\* served at its own price, and one too large for any trade.
LiveBooks == {<<Sell(alice, 1, 1)>>}
LiveOffers == {Buy(bob, 1, 2), Buy(alice, 2, 1)}

\* A buy that either of two sells can serve.
RaceBooks == {<<Sell(alice, 1, 1), Sell(bob, 1, 1)>>}
RaceOffers == {Buy(bob, 1, 1)}

\* Offers of one chair, which the same books can or cannot serve.
UnitOffers == {Buy(bob, 1, 1)}

ClientSymmetry == Permutations(Clients)
=============================================================================
