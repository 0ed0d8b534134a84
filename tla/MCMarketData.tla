---------------------------- MODULE MCMarketData ----------------------------
(***************************************************************************)
(* Small instances of MarketData.                                          *)
(***************************************************************************)
EXTENDS MarketData, MCOrderBook

\* New orders, cancels, and replaces by a buy of two lots that can cross.
FeedCommands ==
    NewOrders \cup Cancels
        \cup {c \in Replaces : /\ c.quantity_lots = 2 /\ c.side = "Buy"
                              /\ c.replacement_order_id \notin {ZeroId, c.order_id}}

\* Sells of one lot at either price and a buy of two lots that can sweep two of
\* them; one of the orders is cancelled, or replaced by the buy.
Buyer == CHOOSE id \in OrderId \ {ZeroId} : TRUE

Withdrawn == CHOOSE id \in OrderId \ {ZeroId, Buyer} : TRUE

SweepCommands ==
    {c \in FeedCommands :
        CASE c.command_type = "CancelOrder" -> c.order_id = Withdrawn
          [] c.command_type = "ReplaceOrder" ->
               /\ c.order_id = Withdrawn /\ c.replacement_order_id = Buyer
               /\ c.price_ticks = 2
          [] c.side = "Sell" -> c.order_id # Buyer /\ c.quantity_lots = 1
          [] OTHER -> c.order_id = Buyer /\ c.quantity_lots = 2}
=============================================================================
