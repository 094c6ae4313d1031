------------------------------ MODULE Candles ------------------------------
(***************************************************************************)
(* The candlestick cache of webapp/nodejs/model/trades.ts as operators: a  *)
(* candle per second, minute and hour, kept up to date trade by trade, and *)
(* the GROUP BY it replaces.  Time is a number of seconds; a grain is the  *)
(* length of a candle; a trade is a row [id, at, price].                   *)
(***************************************************************************)
EXTENDS Integers, Sequences, FiniteSets, FiniteSetsExt, SequencesExt

Trunc(t, grain) == t - (t % grain)    \* setMinutes(0), setSeconds(0), ...

resetCacheTrade(grains) == [g \in grains |-> [keys |-> <<>>, sum |-> <<>>]]

NewCandle(key, trade) ==
    [t |-> key, open |-> trade.price, close |-> trade.price, h |-> trade.price,
     l |-> trade.price, minId |-> trade.id, maxId |-> trade.id]

LatestPrice(c, trade) ==            \* mutant: the high is whatever came last
    [c EXCEPT !.close = trade.price, !.h = trade.price, !.maxId = trade.id]
Extend(c, trade) ==
    [c EXCEPT !.open = IF trade.id < c.minId THEN trade.price ELSE @,
              !.close = IF trade.id > c.maxId THEN trade.price ELSE @,
              !.minId = Min({@, trade.id}), !.maxId = Max({@, trade.id}),
              !.l = Min({@, trade.price}), !.h = Max({@, trade.price})]

\* The keys are kept in the order in which their first trade came.
updateSum(key, cache, trade) ==
    IF key \in DOMAIN cache.sum
    THEN [cache EXCEPT !.sum[key] = Extend(@, trade)]
    ELSE [keys |-> Append(cache.keys, key),
          sum |-> [k \in DOMAIN cache.sum \cup {key} |->
                     IF k = key THEN NewCandle(key, trade) ELSE cache.sum[k]]]

addCacheTrade(caches, trade) ==
    [g \in DOMAIN caches |-> updateSum(Trunc(trade.at, g), caches[g], trade)]

\* Binary search between positions 0 and Len(keys): the last key is never
\* compared, and 0 (the code: -1) comes out for no key at all.
findMinKeyPos(keys, lowerBound) ==
    LET search[range \in (0..Len(keys)) \X (0..Len(keys))] ==
          LET lower == range[1]
              upper == range[2]
              mid == (upper + lower) \div 2
          IN IF upper - lower <= 1 THEN upper
             ELSE IF keys[mid] < lowerBound THEN search[<<mid, upper>>]
                                            ELSE search[<<lower, mid>>]
    IN search[<<0, Len(keys)>>]

\* What /info sends of a candle; for no key the code reads sum[undefined].
Sent(c) == [t |-> c.t, open |-> c.open, close |-> c.close, h |-> c.h, l |-> c.l]
AllButFirst(cache, lowerBound) ==   \* mutant: the search is off by one
    LET pos == Min({findMinKeyPos(cache.keys, lowerBound) + 1, Len(cache.keys)})
    IN [i \in 1..(Len(cache.keys) - pos + 1) |->
          Sent(cache.sum[cache.keys[pos + i - 1]])]
getCacheCandlestick(cache, lowerBound) ==
    LET pos == findMinKeyPos(cache.keys, lowerBound)
    IN [i \in 1..(Len(cache.keys) - pos + 1) |->
          Sent(cache.sum[cache.keys[pos + i - 1]])]

\* The query the cache replaces: GROUP BY the truncated time, with the prices
\* of the first and of the last id.
Summary(rows, grain, key) ==
    LET group == {r \in rows : Trunc(r.at, grain) = key}
        first == CHOOSE r \in group : \A s \in group : r.id <= s.id
        last == CHOOSE r \in group : \A s \in group : r.id >= s.id
        prices == {r.price : r \in group}
    IN [t |-> key, open |-> first.price, close |-> last.price,
        h |-> Max(prices), l |-> Min(prices)]
getCandlesticData(rows, grain, lowerBound) ==
    {Summary(rows, grain, Trunc(r.at, grain)) : r \in {q \in rows : q.at >= lowerBound}}
=============================================================================
