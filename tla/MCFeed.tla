------------------------------- MODULE MCFeed -------------------------------
(* Small instances of Feed: candles of one and of two seconds. *)
EXTENDS Feed

T(id, at, price) == [id |-> id, at |-> at, price |-> price]
OneSeed == {{T(1, 1, 2)}}
UpAndDown == <<2, 3, 1>>
LongWindow == [g \in Grains |-> 2]
NoLookback == [g \in Grains |-> 2]
=============================================================================
