-------------------------- MODULE MatchingFunction --------------------------
(***************************************************************************)
(* The engine as a function.  What it does next is determined by the       *)
(* command and by a view of its state that has neither levels nor queues:  *)
(* an order that comes in trades with the one that has priority among      *)
(* those of the index.  Replay depends on this: two engines that are given *)
(* the same commands produce the same events.                              *)
(***************************************************************************)
EXTENDS OrderBook

View == [instrument |-> instrument_id, sequence |-> next_event_sequence,
         trade |-> next_trade_id, orders |-> active_orders, rested |-> rested_at,
         pc |-> pc, command |-> command, incoming |-> incoming, events |-> events]

NewEngine ==
    [instrument |-> NoInstrument, sequence |-> FirstEventSequence, trade |-> 1,
     orders |-> NoEntries, rested |-> NoEntries, pc |-> "idle",
     command |-> NoCommand, incoming |-> 0, events |-> <<>>]

WithEvent(v, e) == [v EXCEPT !.sequence = @ + 1, !.events = Append(@, e)]

Without(v, id) == [v EXCEPT !.orders = Erase(@, id), !.rested = Erase(@, id)]

WithOrder(v, id, resting) == [v EXCEPT !.orders = Put(@, id, resting)]

AtRest(v, id, resting) == [v EXCEPT !.orders = Put(@, id, resting),
                                    !.rested = Put(@, id, v.sequence)]

\* In the loop with order c, with a part of it traded, and out of the loop.
InLoop(v, c) ==
    [v EXCEPT !.instrument = IF @ = NoInstrument THEN c.instrument_id ELSE @,
              !.pc = "matching", !.command = c, !.incoming = c.quantity_lots]

Less(v, quantity) == [v EXCEPT !.incoming = @ - quantity, !.trade = @ + 1]

OutOfLoop(v) == [v EXCEPT !.pc = "idle", !.command = NoCommand, !.incoming = 0]

-----------------------------------------------------------------------------
\* The start of a call.

Rejected(v, c, reason) == WithEvent(v, emit_rejection_event(c, v.sequence, reason))

Submitted(v, c) ==
    LET reason == validate_new_order(c, v.orders, v.instrument)
        accepted == emit_order_event(c, v.sequence, "OrderAccepted", c.quantity_lots,
                                     c.quantity_lots)
    IN IF reason # "None" THEN Rejected(v, c, reason)
       ELSE InLoop(WithEvent(v, accepted), c)

Cancelled(v, c) ==
    WithEvent(Without(v, c.order_id),
              emit_cancel_event(c, v.sequence, v.orders[c.order_id]))

Replaced(v, c) ==
    Submitted(Cancelled(v, c), [c EXCEPT !.command_type = "NewOrder",
                                         !.order_id = c.replacement_order_id])

\* The view after the first step of a call with command c.
Called(view, c) ==
    LET v == [view EXCEPT !.events = <<>>]
        cancel == validate_cancel_order(c, v.orders)
        replace == validate_replace_order(c, v.orders)
    IN CASE c.command_type = "NewOrder" -> Submitted(v, c)
         [] c.command_type = "CancelOrder" ->
              IF cancel = "None" THEN Cancelled(v, c) ELSE Rejected(v, c, cancel)
         [] c.command_type = "ReplaceOrder" ->
              IF replace = "None" THEN Replaced(v, c) ELSE Rejected(v, c, replace)
         [] OTHER -> Rejected(v, c, "UnsupportedCommand")

-----------------------------------------------------------------------------
\* The steps that follow.

\* The orders that the one in the loop can trade with.
Makers(v) ==
    {id \in DOMAIN v.orders : /\ v.orders[id].side = Opposite(v.command.side)
                              /\ Crosses(v.command, v.orders[id].price_ticks)}

HasPriority(v, id, other) ==
    LET p == v.orders[id].price_ticks
        q == v.orders[other].price_ticks
    IN \/ Before(v.orders[id].side, p, q)
       \/ p = q /\ v.rested[id] < v.rested[other]

BestMaker(v) ==
    CHOOSE id \in Makers(v) : \A other \in Makers(v) \ {id} : HasPriority(v, id, other)

Traded(v) ==
    LET maker == BestMaker(v)
        resting == v.orders[maker]
        quantity == IF v.incoming < resting.remaining THEN v.incoming
                    ELSE resting.remaining
        left == resting.remaining - quantity
        trade == emit_trade_event(v.command, v.sequence, resting, v.trade,
                                  resting.price_ticks, quantity,
                                  v.incoming - quantity)
        w == Less(WithEvent(v, trade), quantity)
    IN IF left = 0 THEN Without(w, maker)
       ELSE WithOrder(w, maker, [resting EXCEPT !.remaining = left])

Returned(v, type, quantity, remaining) ==
    OutOfLoop(WithEvent(v, emit_order_event(v.command, v.sequence, type, quantity,
                                            remaining)))

Rested(v) ==
    LET c == v.command
        resting == [order_id |-> c.order_id, instrument_id |-> c.instrument_id,
                    side |-> c.side, price_ticks |-> c.price_ticks,
                    remaining |-> v.incoming]
    IN Returned(AtRest(v, c.order_id, resting),
                IF v.incoming # c.quantity_lots THEN "OrderPartiallyFilled"
                                                ELSE "OrderRested",
                c.quantity_lots - v.incoming, v.incoming)

\* The view after the next step of a call in the loop.
Continued(v) ==
    IF v.incoming = 0 THEN Returned(v, "OrderFullyFilled", v.command.quantity_lots, 0)
    ELSE IF Makers(v) # {} THEN Traded(v)
    ELSE Rested(v)

-----------------------------------------------------------------------------
\* What every step of a call emits and leaves in the index is the function's
\* result: no order of levels or queues, and nothing left over from an earlier
\* call, has a part in it.
EngineIsFunction ==
    [][/\ \A c \in Commands : Apply(c) => View' = Called(View, c)
       /\ pc = "matching" => View' = Continued(View)]_vars
=============================================================================
