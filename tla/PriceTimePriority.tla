-------------------------- MODULE PriceTimePriority --------------------------
(***************************************************************************)
(* What an order book promises to those who trade on it, without queues,   *)
(* levels or an index: a set of resting orders, at most one order that is  *)
(* being matched, and trades that go to the best order at its price.  This *)
(* is the rule of docs/matching_rules.md that core::OrderBook implements.  *)
(***************************************************************************)
EXTENDS Domain

VARIABLES
    resting,      \* order id -> side, price, remaining lots, time of arrival
    taker,        \* the order being matched, or NoTaker
    last_trade,   \* the trade that the last step made, or NoTrade
    clock         \* orders time of arrival; no two steps share a time

marketvars == <<resting, taker, last_trade, clock>>

NoTaker == [order_id |-> ZeroId, side |-> "None", price_ticks |-> 0, remaining |-> 0]

NoTrade == [maker |-> ZeroId, price_ticks |-> 0, quantity_lots |-> 0]

\* The orders that may enter: a side, a price and a quantity are positive.
IsTaker(t) ==
    /\ t.order_id \in OrderId
    /\ t.side \in Side
    /\ t.price_ticks \in Int /\ t.price_ticks > 0
    /\ t.remaining \in Int /\ t.remaining > 0

\* Order x of the market would trade before order y of the same side.
HasPriority(x, y) ==
    \/ Before(x.side, x.price_ticks, y.price_ticks)
    \/ x.price_ticks = y.price_ticks /\ x.arrival < y.arrival

\* The taker accepts the price of the resting order x.
Marketable(x) ==
    /\ x.side = Opposite(taker.side)
    /\ ~Before(x.side, taker.price_ticks, x.price_ticks)

Tick == clock' \in Nat /\ clock' > clock

MarketInit ==
    /\ resting = NoEntries
    /\ taker = NoTaker
    /\ last_trade = NoTrade
    /\ clock \in Nat

\* An order whose id is not in the market begins to match.
Enter ==
    /\ taker = NoTaker
    /\ IsTaker(taker')
    /\ taker'.order_id \notin DOMAIN resting'
    /\ last_trade' = NoTrade
    /\ Tick

Submit == Enter /\ resting' = resting

Cancel ==
    /\ taker = NoTaker
    /\ \E id \in DOMAIN resting : resting' = Erase(resting, id)
    /\ taker' = taker
    /\ last_trade' = NoTrade
    /\ Tick

\* One step takes an order out and brings another one in: a replacement gives
\* up its place, and no market without either order is ever seen.
Replace == Enter /\ \E id \in DOMAIN resting : resting' = Erase(resting, id)

Refuse ==
    /\ taker = NoTaker
    /\ last_trade' = NoTrade
    /\ Tick
    /\ UNCHANGED <<resting, taker>>

\* The trade of q lots with the resting order id.
TradeWith(id, q) ==
    /\ resting' = IF resting[id].remaining = q THEN Erase(resting, id)
                  ELSE Put(resting, id, [resting[id] EXCEPT !.remaining = @ - q])
    /\ taker' = [taker EXCEPT !.remaining = @ - q]
    /\ last_trade' = [maker |-> id, price_ticks |-> resting[id].price_ticks,
                      quantity_lots |-> q]
    /\ Tick

\* The taker trades with the order that has priority over all others of that
\* side, as much as both still have, at the price of the resting order.
Trade ==
    /\ taker # NoTaker /\ taker.remaining > 0
    /\ \E id \in DOMAIN resting :
          /\ Marketable(resting[id])
          /\ \A other \in DOMAIN resting \ {id} :
                resting[other].side = resting[id].side
                    => HasPriority(resting[id], resting[other])
          /\ TradeWith(id, IF taker.remaining < resting[id].remaining
                           THEN taker.remaining ELSE resting[id].remaining)

\* A taker with nothing left leaves.
Fill ==
    /\ taker # NoTaker /\ taker.remaining = 0
    /\ taker' = NoTaker
    /\ last_trade' = NoTrade
    /\ Tick
    /\ resting' = resting

\* A taker that no resting order can serve comes to rest behind all the others.
Rest ==
    /\ taker # NoTaker /\ taker.remaining > 0
    /\ \A id \in DOMAIN resting : ~Marketable(resting[id])
    /\ resting' = Put(resting, taker.order_id,
                      [side |-> taker.side, price_ticks |-> taker.price_ticks,
                       remaining |-> taker.remaining, arrival |-> clock])
    /\ taker' = NoTaker
    /\ last_trade' = NoTrade
    /\ Tick

MarketNext == Submit \/ Cancel \/ Replace \/ Refuse \/ Trade \/ Fill \/ Rest

MarketSpec == MarketInit /\ [][MarketNext]_marketvars
=============================================================================
