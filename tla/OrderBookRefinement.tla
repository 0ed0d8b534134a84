------------------------- MODULE OrderBookRefinement -------------------------
(***************************************************************************)
(* The order book as a market: the index and the arrival of its orders are *)
(* the resting orders, the command in the matching loop is the taker, the  *)
(* event sequence is the clock.                                            *)
(***************************************************************************)
EXTENDS OrderBook

RestingView ==
    [id \in DOMAIN active_orders |->
        [side |-> active_orders[id].side,
         price_ticks |-> active_orders[id].price_ticks,
         remaining |-> active_orders[id].remaining,
         arrival |-> rested_at[id]]]

TakerView ==
    IF pc = "idle"
    THEN [order_id |-> ZeroId, side |-> "None", price_ticks |-> 0, remaining |-> 0]
    ELSE [order_id |-> command.order_id, side |-> command.side,
          price_ticks |-> command.price_ticks, remaining |-> incoming]

TradeView ==
    IF events # <<>> /\ events[Len(events)].event_type = "TradeExecuted"
    THEN [maker |-> events[Len(events)].contra_order_id,
          price_ticks |-> events[Len(events)].price_ticks,
          quantity_lots |-> events[Len(events)].quantity_lots]
    ELSE [maker |-> ZeroId, price_ticks |-> 0, quantity_lots |-> 0]

Market == INSTANCE PriceTimePriority
    WITH resting <- RestingView, taker <- TakerView,
         last_trade <- TradeView, clock <- next_event_sequence

\* Every step of InstrumentEngine::apply is a step of a market with strict
\* price-time priority: nothing rests that could trade, every trade goes to the
\* best order at its price, a replace is one step that loses the old place, and
\* a refused command changes nothing.
ImplementsPriceTimePriority == Market!MarketSpec
=============================================================================
