---------------------------- MODULE MCOrderBook ----------------------------
(***************************************************************************)
(* Small instances of OrderBook: the sets of commands that callers submit. *)
(***************************************************************************)
EXTENDS MatchingFunction, TLC

CONSTANTS Prices, Quantities

\* A field that the handler of a command does not decide on has a fixed value.
NewOrders ==
    {[command_type |-> "NewOrder", order_id |-> id, replacement_order_id |-> ZeroId,
      instrument_id |-> i, side |-> s, price_ticks |-> p, quantity_lots |-> q,
      time_in_force |-> "Gtc"] :
        id \in OrderId \ {ZeroId}, i \in Instrument, s \in Side, p \in Prices,
        q \in Quantities}

Cancels ==
    {[command_type |-> "CancelOrder", order_id |-> id, replacement_order_id |-> ZeroId,
      instrument_id |-> i, side |-> "Unknown", price_ticks |-> 0, quantity_lots |-> 0,
      time_in_force |-> "Gtc"] :
        id \in OrderId \ {ZeroId}, i \in Instrument}

Replaces ==
    {[c EXCEPT !.command_type = "ReplaceOrder", !.replacement_order_id = id] :
        c \in NewOrders, id \in OrderId}

\* Each command with one field spoilt.
Spoilt(cs) ==
    {[c EXCEPT !.side = "Unknown"] : c \in cs}
        \cup {[c EXCEPT !.price_ticks = 0] : c \in cs}
        \cup {[c EXCEPT !.quantity_lots = 0] : c \in cs}
        \cup {[c EXCEPT !.time_in_force = "Unknown"] : c \in cs}
        \cup {[c EXCEPT !.command_type = "Unknown"] : c \in cs}

MatchingCommands == NewOrders \cup Cancels

AllCommands ==
    LET valid == NewOrders \cup Replaces
        \* one representative per type is enough for the fields just compared
        sample == {c \in valid : c.side = "Buy" /\ c.price_ticks = 1}
    IN valid \cup Cancels \cup Spoilt(sample)

\* New orders, some of which carry no order id.
ZeroIdCommands == NewOrders \cup {[c EXCEPT !.order_id = ZeroId] : c \in NewOrders}

\* Sound for the safety runs: no definition singles out an id but ZeroId.
IdSymmetry == Permutations(OrderId \ {ZeroId})
============================================================================
