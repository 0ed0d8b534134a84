------------------------ MODULE MarketDataProjection ------------------------
(***************************************************************************)
(* projections::MarketDataProjection: the public book and trade tape that  *)
(* a consumer rebuilds from execution events alone.  A rejected            *)
(* application of an event changes nothing, so it is a stuttering step;    *)
(* Accepts tells whether an event would be rejected.                       *)
(***************************************************************************)
EXTENDS Domain, FiniteSetsExt

CONSTANT QuantityLimit  \* quantities are signed words below it; 2^63 in the code

ASSUME LimitAssumption == QuantityLimit \in Nat \ {0}

VARIABLES
    last_applied_event_sequence,
    projected_orders,     \* active_orders_ of the projection: id -> OrderState
    book,                 \* the PublicBookView
    trades                \* the public tape

projvars == <<last_applied_event_sequence, projected_orders, book, trades>>

\* The sum of two quantities as the compiled code has it: the addition of two
\* signed words is undefined when it overflows, and wraps in what is built.
Wrapped(n) == ((n + QuantityLimit) % (2 * QuantityLimit)) - QuantityLimit

\* Definitions named X_<fault> are faulty forms of X that no other definition uses.

\* The fault: an order's quantity replaces that of its level.
PublicLevels_LastOrder(orders, side) ==
    LET ids == {id \in DOMAIN orders : orders[id].side = side}
        prices == {orders[id].price_ticks : id \in ids}
    IN [p \in prices |->
           orders[CHOOSE id \in ids : orders[id].price_ticks = p].remaining]

\* What the orders of a side sum up to at a price, in the word the code sums in.
LevelQuantity(orders, side, p) ==
    LET at == {id \in DOMAIN orders : orders[id].side = side /\ orders[id].price_ticks = p}
    IN Wrapped(MapThenSumSet(LAMBDA id : orders[id].remaining, at))

\* The visible quantity per price of one side of the public book.
PublicLevels(orders, side) ==
    LET ids == {id \in DOMAIN orders : orders[id].side = side}
        prices == {orders[id].price_ticks : id \in ids}
    IN [p \in {q \in prices : LevelQuantity(orders, side, q) > 0} |->
           LevelQuantity(orders, side, p)]

\* The new index and the view aggregated from it.  The instrument of the view
\* is that of the order the unordered map yields last.
rebuild_book(orders) ==
    /\ projected_orders' = orders
    /\ \E i \in IF DOMAIN orders = {} THEN {NoInstrument}
                ELSE {orders[id].instrument_id : id \in DOMAIN orders} :
          book' = [instrument_id |-> i,
                   bids |-> PublicLevels(orders, "Buy"),
                   asks |-> PublicLevels(orders, "Sell")]

ProjectionInit ==
    /\ last_applied_event_sequence = 0
    /\ projected_orders = NoEntries
    /\ book = [instrument_id |-> NoInstrument, bids |-> NoEntries, asks |-> NoEntries]
    /\ trades = <<>>

-----------------------------------------------------------------------------
\* The conditions under which apply does not reject an event.

\* The fault: an event that was applied before is taken again.
InSequence_AllowsRepeat(e) == e.event_sequence <= last_applied_event_sequence + 1

InSequence(e) == e.event_sequence = last_applied_event_sequence + 1

HasVisibleLiquidity(e) ==
    /\ e.remaining > 0
    /\ e.side \in Side
    /\ e.order_id # ZeroId
    /\ e.price_ticks > 0

\* The fault: a trade that consumes the whole order is refused.
ConsumesProjectedOrder_Strict(e) ==
    /\ e.quantity_lots > 0
    /\ e.contra_order_id # ZeroId
    /\ e.contra_order_id \in DOMAIN projected_orders
    /\ projected_orders[e.contra_order_id].remaining > e.quantity_lots

ConsumesProjectedOrder(e) ==
    /\ e.quantity_lots > 0
    /\ e.contra_order_id # ZeroId
    /\ e.contra_order_id \in DOMAIN projected_orders
    /\ projected_orders[e.contra_order_id].remaining >= e.quantity_lots

Accepts(e) ==
    /\ InSequence(e)
    /\ \/ e.event_type \in {"OrderAccepted", "OrderRejected", "OrderFullyFilled"}
       \/ /\ e.event_type \in {"OrderRested", "OrderPartiallyFilled"}
          /\ HasVisibleLiquidity(e)
       \/ e.event_type = "TradeExecuted" /\ ConsumesProjectedOrder(e)
       \/ /\ e.event_type = "OrderCancelled"
          /\ e.order_id \in DOMAIN projected_orders

-----------------------------------------------------------------------------
\* The handlers.

apply_ignored(e) ==
    /\ e.event_type \in {"OrderAccepted", "OrderRejected"}
    /\ UNCHANGED <<projected_orders, book, trades>>

apply_rested(e) ==
    /\ e.event_type \in {"OrderRested", "OrderPartiallyFilled"}
    /\ HasVisibleLiquidity(e)
    /\ rebuild_book(Put(projected_orders, e.order_id,
                        [instrument_id |-> e.instrument_id,
                         side |-> e.side,
                         price_ticks |-> e.price_ticks,
                         remaining |-> e.remaining]))
    /\ UNCHANGED trades

\* The fault: an order with nothing left stays.
AfterTrade_KeepsFilled(orders, id, quantity) ==
    [orders EXCEPT ![id].remaining = @ - quantity]

\* The order a trade leaves behind, erased when nothing remains of it.
AfterTrade(orders, id, quantity) ==
    IF orders[id].remaining = quantity THEN Erase(orders, id)
    ELSE [orders EXCEPT ![id].remaining = @ - quantity]

apply_trade(e) ==
    /\ e.event_type = "TradeExecuted"
    /\ ConsumesProjectedOrder(e)
    /\ trades' = Append(trades, [trade_id |-> e.trade_id,
                                 instrument_id |-> e.instrument_id,
                                 incoming_order_id |-> e.order_id,
                                 resting_order_id |-> e.contra_order_id,
                                 aggressor_side |-> e.side,
                                 price_ticks |-> e.price_ticks,
                                 quantity_lots |-> e.quantity_lots])
    /\ rebuild_book(AfterTrade(projected_orders, e.contra_order_id, e.quantity_lots))

\* The fault: the view is rebuilt but the order is not erased.
remove_order_ViewOnly(id) ==
    /\ rebuild_book(projected_orders)
    /\ UNCHANGED trades

remove_order(id) ==
    /\ rebuild_book(Erase(projected_orders, id))
    /\ UNCHANGED trades

apply_cancelled(e) ==
    /\ e.event_type = "OrderCancelled"
    /\ e.order_id \in DOMAIN projected_orders
    /\ remove_order(e.order_id)

\* A filled order is removed if it was visible; the aggressor never was.
apply_filled(e) ==
    /\ e.event_type = "OrderFullyFilled"
    /\ IF e.order_id \in DOMAIN projected_orders
       THEN remove_order(e.order_id)
       ELSE UNCHANGED <<projected_orders, book, trades>>

apply(e) ==
    /\ InSequence(e)
    /\ \/ apply_ignored(e)
       \/ apply_rested(e)
       \/ apply_trade(e)
       \/ apply_filled(e)
       \/ apply_cancelled(e)
    /\ last_applied_event_sequence' = e.event_sequence
=============================================================================
