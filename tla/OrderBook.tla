------------------------------ MODULE OrderBook ------------------------------
(***************************************************************************)
(* The matching core of one instrument: core::OrderBook behind the         *)
(* dispatch of core::InstrumentEngine.  One call of InstrumentEngine::apply *)
(* is a run of steps: the dispatching step (validation, cancellation and   *)
(* the acceptance of an order), one MatchFront step per iteration of the   *)
(* inner matching loop, and one step that fills or rests the order and     *)
(* returns.  No other call can start before the current one has returned.  *)
(***************************************************************************)
EXTENDS Domain

CONSTANTS
    Commands,            \* the commands that callers may submit
    FirstEventSequence,  \* the constructor's first_event_sequence
    MaxEventSequence     \* bound: no call starts beyond this sequence

ASSUME CommandsAssumption == Commands \subseteq Command

ASSUME SequenceAssumption == FirstEventSequence \in Nat /\ MaxEventSequence \in Nat

VARIABLES
    instrument_id,        \* the instrument the book is bound to
    next_event_sequence,
    next_trade_id,
    levels,               \* levels["Buy"] is bids_, levels["Sell"] is asks_
    active_orders,        \* the index: order id -> RestingOrder
    pc,                   \* "idle" between calls, "matching" in the loop
    command,              \* the new order being matched
    incoming,             \* its incoming_remaining_quantity_lots
    events,               \* the events of the current, else the last call
    rested_at             \* ghost: the event sequence at which an order rested

bookvars == <<instrument_id, levels, active_orders, rested_at>>
callvars == <<pc, command, incoming>>
vars == <<instrument_id, next_event_sequence, next_trade_id, levels,
          active_orders, pc, command, incoming, events, rested_at>>

NoCommand == [command_type |-> "None"]

RestingOrder == [order_id : OrderId,
                 instrument_id : Instrument,
                 side : Side,
                 price_ticks : Int,
                 remaining : Int]

-----------------------------------------------------------------------------
\* Definitions named X_<fault> are faulty forms of X: the bugs that the properties
\* below are meant to notice.  Nothing in the specification uses them.

\* The fault: any level, not the first one of the map.
IsBest_AnyLevel(side, p) == p \in DOMAIN levels[side]

\* p is begin()->first of the side's level map.
IsBest(side, p) ==
    /\ p \in DOMAIN levels[side]
    /\ \A q \in DOMAIN levels[side] : q = p \/ Before(side, p, q)

\* A new order is marketable against price p of the opposite side.
Crosses(c, p) == ~Before(Opposite(c.side), c.price_ticks, p)

-----------------------------------------------------------------------------
\* Event construction.

emit_order_event(c, seq, type, quantity, remaining) ==
    [event_type |-> type,
     event_sequence |-> seq,
     order_id |-> c.order_id,
     contra_order_id |-> ZeroId,
     trade_id |-> 0,
     price_ticks |-> c.price_ticks,
     quantity_lots |-> quantity,
     remaining |-> remaining,
     instrument_id |-> c.instrument_id,
     side |-> c.side,
     rejection_reason |-> "None"]

\* The fault: the remainder before the trade.
emit_trade_event_StaleRemainder(c, seq, resting, trade, price, quantity, remaining) ==
    [emit_order_event(c, seq, "TradeExecuted", quantity, remaining + quantity) EXCEPT
        !.contra_order_id = resting.order_id,
        !.trade_id = trade,
        !.price_ticks = price]

emit_trade_event(c, seq, resting, trade, price, quantity, remaining) ==
    [emit_order_event(c, seq, "TradeExecuted", quantity, remaining) EXCEPT
        !.contra_order_id = resting.order_id,
        !.trade_id = trade,
        !.price_ticks = price]

emit_rejection_event(c, seq, reason) ==
    [emit_order_event(c, seq, "OrderRejected", 0, 0) EXCEPT
        !.rejection_reason = reason]

emit_cancel_event(c, seq, resting) ==
    [emit_order_event(c, seq, "OrderCancelled", 0, resting.remaining) EXCEPT
        !.price_ticks = resting.price_ticks,
        !.side = resting.side,
        !.instrument_id = resting.instrument_id]

-----------------------------------------------------------------------------
\* Validation: the first failing check, in the code's order, names the reason.
\* active is the index and bound the instrument of the book.

\* The fault: no comparison with the bound instrument.
validate_order_book_instrument_Skipped(c, bound) == "None"

validate_order_book_instrument(c, bound) ==
    IF bound # NoInstrument /\ c.instrument_id # bound
    THEN "InstrumentMismatch"
    ELSE "None"

\* The fault: no check for an active order with the same id.
validate_new_order_NoDuplicateCheck(c, active, bound) ==
    IF c.side \notin Side THEN "InvalidSide"
    ELSE IF c.price_ticks <= 0 THEN "InvalidPrice"
    ELSE IF c.quantity_lots <= 0 THEN "InvalidQuantity"
    ELSE IF validate_order_book_instrument(c, bound) # "None"
         THEN validate_order_book_instrument(c, bound)
    ELSE IF c.time_in_force # "Gtc" THEN "UnsupportedTimeInForce"
    ELSE "None"

validate_new_order(c, active, bound) ==
    IF c.command_type # "NewOrder" THEN "UnsupportedCommand"
    ELSE IF c.side \notin Side THEN "InvalidSide"
    ELSE IF c.price_ticks <= 0 THEN "InvalidPrice"
    ELSE IF c.quantity_lots <= 0 THEN "InvalidQuantity"
    ELSE IF c.order_id \in DOMAIN active THEN "DuplicateOrderId"
    ELSE IF validate_order_book_instrument(c, bound) # "None"
         THEN validate_order_book_instrument(c, bound)
    ELSE IF c.time_in_force # "Gtc" THEN "UnsupportedTimeInForce"
    ELSE "None"

\* The fault: price, quantity, side and time in force are left to the nested
\* apply_new_order.
validate_replace_order_IdsOnly(c, active) ==
    IF c.order_id \notin DOMAIN active THEN "UnknownOrderId"
    ELSE IF c.replacement_order_id \in {ZeroId, c.order_id}
         THEN "InvalidReplacementOrderId"
    ELSE IF c.replacement_order_id \in DOMAIN active
         THEN "ReplaceWouldDuplicateOrderId"
    ELSE "None"

validate_replace_order(c, active) ==
    IF c.command_type # "ReplaceOrder" THEN "UnsupportedCommand"
    ELSE IF c.order_id \notin DOMAIN active THEN "UnknownOrderId"
    ELSE IF active[c.order_id].instrument_id # c.instrument_id
         THEN "InstrumentMismatch"
    ELSE IF c.replacement_order_id \in {ZeroId, c.order_id}
         THEN "InvalidReplacementOrderId"
    ELSE IF c.replacement_order_id \in DOMAIN active
         THEN "ReplaceWouldDuplicateOrderId"
    ELSE IF c.side \notin Side THEN "InvalidSide"
    ELSE IF c.price_ticks <= 0 THEN "InvalidPrice"
    ELSE IF c.quantity_lots <= 0 THEN "InvalidQuantity"
    ELSE IF c.time_in_force # "Gtc" THEN "UnsupportedTimeInForce"
    ELSE "None"

validate_cancel_order(c, active) ==
    IF c.command_type # "CancelOrder" THEN "UnsupportedCommand"
    ELSE IF c.order_id \notin DOMAIN active THEN "UnknownOrderId"
    ELSE IF active[c.order_id].instrument_id # c.instrument_id
         THEN "InstrumentMismatch"
    ELSE "None"

-----------------------------------------------------------------------------
\* Changes of the price levels.

\* The fault: the last order moves into the place of the erased one.
EraseFromQueue_SwapLast(queue, id) ==
    [i \in 1..(Len(queue) - 1) |->
        IF queue[i].order_id = id THEN queue[Len(queue)] ELSE queue[i]]

\* Removes the first order with the id from a queue, as find_if and erase do.
EraseFromQueue(queue, id) ==
    LET hits == {i \in DOMAIN queue : queue[i].order_id = id}
        first == CHOOSE i \in hits : \A j \in hits : i <= j
    IN IF hits = {} THEN queue
       ELSE SubSeq(queue, 1, first - 1) \o SubSeq(queue, first + 1, Len(queue))

\* The fault: a level whose queue has run empty stays.
StoreQueue_KeepsEmptyLevel(side_levels, price, queue) == Put(side_levels, price, queue)

\* A level map with a new queue at a price; a level whose queue is empty goes.
StoreQueue(side_levels, price, queue) ==
    IF queue = <<>> THEN Erase(side_levels, price) ELSE Put(side_levels, price, queue)

erase_order_from_price_levels(side_levels, resting) ==
    IF resting.price_ticks \notin DOMAIN side_levels THEN side_levels
    ELSE StoreQueue(side_levels, resting.price_ticks,
                    EraseFromQueue(side_levels[resting.price_ticks],
                                   resting.order_id))

\* The change that remove_cancelled_order makes to the book.
remove_cancelled_order(resting) ==
    /\ levels' = [levels EXCEPT ![resting.side] =
                    erase_order_from_price_levels(@, resting)]
    /\ active_orders' = Erase(active_orders, resting.order_id)
    /\ rested_at' = Erase(rested_at, resting.order_id)

\* The queue of a price level, default-constructed by operator[].
QueueAt(side_levels, price) ==
    IF price \in DOMAIN side_levels THEN side_levels[price] ELSE <<>>

\* The fault: a resting order enters at the front.
Enqueue_AtFront(queue, resting) == <<resting>> \o queue

Enqueue(queue, resting) == Append(queue, resting)

rest_order(c, remaining) ==
    LET resting == [order_id |-> c.order_id,
                    instrument_id |-> c.instrument_id,
                    side |-> c.side,
                    price_ticks |-> c.price_ticks,
                    remaining |-> remaining]
    IN /\ levels' = [levels EXCEPT ![c.side] =
                        StoreQueue(@, c.price_ticks,
                                   Enqueue(QueueAt(@, c.price_ticks), resting))]
       /\ active_orders' = Put(active_orders, c.order_id, resting)
       /\ rested_at' = Put(rested_at, c.order_id, next_event_sequence)

-----------------------------------------------------------------------------
\* Calls.

Init ==
    /\ instrument_id = NoInstrument
    /\ next_event_sequence = FirstEventSequence
    /\ next_trade_id = 1
    /\ levels = [side \in Side |-> NoEntries]
    /\ active_orders = NoEntries
    /\ pc = "idle"
    /\ command = NoCommand
    /\ incoming = 0
    /\ events = <<>>
    /\ rested_at = NoEntries

\* A call that answers with a single rejection event and nothing else.
Reject(c, reason) ==
    /\ events' = <<emit_rejection_event(c, next_event_sequence, reason)>>
    /\ next_event_sequence' = next_event_sequence + 1
    /\ UNCHANGED <<bookvars, callvars, next_trade_id>>

\* apply_new_order up to the matching loop, on an index that may already have
\* lost a replaced order and after the events emitted so far in the call.
SubmitNewOrder(c, active, emitted) ==
    LET reason == validate_new_order(c, active, instrument_id)
        seq == next_event_sequence + Len(emitted)
    IN /\ next_event_sequence' = seq + 1
       /\ next_trade_id' = next_trade_id
       /\ \/ /\ reason # "None"
             /\ events' = Append(emitted, emit_rejection_event(c, seq, reason))
             /\ UNCHANGED <<instrument_id, callvars>>
          \/ /\ reason = "None"
             /\ instrument_id' = IF instrument_id = NoInstrument
                                 THEN c.instrument_id ELSE instrument_id
             /\ events' = Append(emitted,
                                 emit_order_event(c, seq, "OrderAccepted",
                                                  c.quantity_lots, c.quantity_lots))
             /\ pc' = "matching"
             /\ command' = c
             /\ incoming' = c.quantity_lots

apply_new_order(c) ==
    /\ SubmitNewOrder(c, active_orders, <<>>)
    /\ UNCHANGED <<levels, active_orders, rested_at>>

apply_cancel_order(c) ==
    LET reason == validate_cancel_order(c, active_orders)
        resting == active_orders[c.order_id]
    IN \/ reason # "None" /\ Reject(c, reason)
       \/ /\ reason = "None"
          /\ remove_cancelled_order(resting)
          /\ events' = <<emit_cancel_event(c, next_event_sequence, resting)>>
          /\ next_event_sequence' = next_event_sequence + 1
          /\ UNCHANGED <<instrument_id, next_trade_id, callvars>>

apply_replace_order(c) ==
    LET reason == validate_replace_order(c, active_orders)
        resting == active_orders[c.order_id]
        replacement == [c EXCEPT !.command_type = "NewOrder",
                                 !.order_id = c.replacement_order_id]
    IN \/ reason # "None" /\ Reject(c, reason)
       \/ /\ reason = "None"
          /\ remove_cancelled_order(resting)
          /\ SubmitNewOrder(replacement, Erase(active_orders, c.order_id),
                            <<emit_cancel_event(c, next_event_sequence, resting)>>)

reject_unsupported_command(c) == Reject(c, "UnsupportedCommand")

\* InstrumentEngine::apply: the dispatch on the decoded command type.
Apply(c) ==
    /\ pc = "idle"
    /\ next_event_sequence <= MaxEventSequence
    /\ \/ c.command_type = "NewOrder" /\ apply_new_order(c)
       \/ c.command_type = "CancelOrder" /\ apply_cancel_order(c)
       \/ c.command_type = "ReplaceOrder" /\ apply_replace_order(c)
       \/ c.command_type \notin CommandType /\ reject_unsupported_command(c)

-----------------------------------------------------------------------------
\* The matching loops, match_buy_order_against_asks and its mirror image.

\* The fault: the front order always trades in full.
TradeQuantity_NoMin(remaining) == remaining

\* std::min of the incoming remainder and that of the order at the front.
TradeQuantity(remaining) == IF incoming < remaining THEN incoming ELSE remaining

\* One iteration of the inner loop, against the front order of level p: the
\* trade, the write-back to the index, the removal of a filled order and of
\* the level it leaves empty.
MatchFront(p) ==
    LET side == Opposite(command.side)
        queue == levels[side][p]
        front == Head(queue)
        quantity == TradeQuantity(front.remaining)
        left == [front EXCEPT !.remaining = @ - quantity]
        filled == left.remaining = 0
    IN /\ pc = "matching"
       /\ incoming > 0
       /\ IsBest(side, p)
       /\ Crosses(command, p)
       /\ incoming' = incoming - quantity
       /\ levels' = [levels EXCEPT ![side] =
                        StoreQueue(@, p, IF filled THEN Tail(queue)
                                         ELSE [queue EXCEPT ![1] = left])]
       /\ active_orders' = IF filled THEN Erase(active_orders, front.order_id)
                           ELSE Put(active_orders, front.order_id, left)
       /\ rested_at' = IF filled THEN Erase(rested_at, front.order_id) ELSE rested_at
       /\ events' = Append(events,
                           emit_trade_event(command, next_event_sequence, front,
                                            next_trade_id, p, quantity,
                                            incoming - quantity))
       /\ next_event_sequence' = next_event_sequence + 1
       /\ next_trade_id' = next_trade_id + 1
       /\ UNCHANGED <<instrument_id, pc, command>>

\* The fault: the loop does not break at a price the order does not accept.
LoopEnds_NoBreak == incoming = 0 \/ DOMAIN levels[Opposite(command.side)] = {}

\* The outer loop stops: nothing is left to trade, or no level to trade with.
LoopEnds ==
    LET side == Opposite(command.side)
    IN \/ incoming = 0
       \/ DOMAIN levels[side] = {}
       \/ \E p \in DOMAIN levels[side] : IsBest(side, p) /\ ~Crosses(command, p)

\* apply_new_order after the loop: the terminal event, and the return.
Return(type, quantity, remaining) ==
    /\ events' = Append(events, emit_order_event(command, next_event_sequence, type,
                                                 quantity, remaining))
    /\ next_event_sequence' = next_event_sequence + 1
    /\ pc' = "idle"
    /\ command' = NoCommand
    /\ incoming' = 0
    /\ UNCHANGED <<instrument_id, next_trade_id>>

FillIncoming ==
    /\ pc = "matching"
    /\ incoming = 0
    /\ Return("OrderFullyFilled", command.quantity_lots, 0)
    /\ UNCHANGED <<levels, active_orders, rested_at>>

RestIncoming ==
    /\ pc = "matching"
    /\ incoming # 0
    /\ LoopEnds
    /\ rest_order(command, incoming)
    /\ Return(IF incoming # command.quantity_lots THEN "OrderPartiallyFilled"
                                                  ELSE "OrderRested",
              command.quantity_lots - incoming, incoming)

\* The step of a call that has started: it needs no further input.
Continue ==
    \/ \E p \in DOMAIN levels[Opposite(command.side)] : MatchFront(p)
    \/ FillIncoming
    \/ RestIncoming

Next ==
    \/ \E c \in Commands : Apply(c)
    \/ pc = "matching" /\ Continue

Spec == Init /\ [][Next]_vars
-----------------------------------------------------------------------------
\* Type invariant.

\* A level map takes prices to queues of orders.
IsLevelMap(map) ==
    /\ DOMAIN map \subseteq Int
    /\ \A p \in DOMAIN map : map[p] \in Seq(RestingOrder)

\* Every variable has its type; in particular the incoming remainder of
\* match_buy_order_against_asks and its mirror never becomes negative, and the
\* order in the loop has passed validate_new_order.
TypeOK ==
    /\ instrument_id \in Instrument \cup {NoInstrument}
    /\ next_event_sequence \in Nat
    /\ next_trade_id \in Nat
    /\ events \in Seq(Event)
    /\ incoming \in Nat
    /\ \/ pc = "idle" /\ command = NoCommand
       \/ /\ pc = "matching"
          /\ command \in Command
          /\ command.side \in Side
          /\ command.price_ticks > 0
          /\ command.quantity_lots > 0
    /\ DOMAIN levels = Side
    /\ \A side \in Side : IsLevelMap(levels[side])
    /\ DOMAIN active_orders \subseteq OrderId
    /\ DOMAIN rested_at = DOMAIN active_orders
    /\ \A id \in DOMAIN active_orders :
          active_orders[id] \in RestingOrder /\ rested_at[id] \in Nat

-----------------------------------------------------------------------------
\* OrderBook::validate_invariants, conjunct by conjunct.

validate_resting_order_against_active_index(resting, price, side) ==
    /\ resting.side = side
    /\ resting.price_ticks = price
    /\ resting.remaining > 0
    /\ resting.order_id \in DOMAIN active_orders
    /\ active_orders[resting.order_id] = resting

validate_price_levels_against_active_orders(side) ==
    \A price \in DOMAIN levels[side] :
        /\ levels[side][price] # <<>>
        /\ price > 0
        /\ \A i \in DOMAIN levels[side][price] :
              validate_resting_order_against_active_index(levels[side][price][i],
                                                          price, side)

\* The insertion into queued_order_ids never finds the id already there.
QueuedOnce ==
    \A s1, s2 \in Side :
        \A p1 \in DOMAIN levels[s1], p2 \in DOMAIN levels[s2] :
            \A i \in DOMAIN levels[s1][p1], j \in DOMAIN levels[s2][p2] :
                levels[s1][p1][i].order_id = levels[s2][p2][j].order_id
                    => s1 = s2 /\ p1 = p2 /\ i = j

validate_active_orders_are_queued ==
    \A id \in DOMAIN active_orders :
        /\ active_orders[id].remaining > 0
        /\ \E s \in Side : \E p \in DOMAIN levels[s] :
              \E i \in DOMAIN levels[s][p] : levels[s][p][i].order_id = id

NotCrossed ==
    \A bid \in DOMAIN levels["Buy"], ask \in DOMAIN levels["Sell"] : bid < ask

validate_invariants ==
    /\ validate_price_levels_against_active_orders("Buy")
    /\ validate_price_levels_against_active_orders("Sell")
    /\ QueuedOnce
    /\ validate_active_orders_are_queued
    /\ NotCrossed

-----------------------------------------------------------------------------
\* Safety.

\* Whenever a call has returned, the check that ReplayRunner makes after every
\* command succeeds: price levels and index hold the same orders with the same
\* contents, no level is empty, no order is exhausted, the book is not crossed.
BookValid == pc = "idle" => validate_invariants

\* Within a price level orders queue in the order in which they came to rest,
\* whatever cancels, replaces and partial fills happened in between.
FifoQueues ==
    \A s \in Side : \A p \in DOMAIN levels[s] :
        \A i, j \in DOMAIN levels[s][p] :
            i < j => rested_at[levels[s][p][i].order_id]
                        < rested_at[levels[s][p][j].order_id]

\* A book never mixes instruments: every order at rest belongs to the
\* instrument that the first accepted order bound the book to.
OneInstrument ==
    \A id \in DOMAIN active_orders : active_orders[id].instrument_id = instrument_id

\* The resting order that a trade consumes had priority over every other order
\* on its side: a better price, or the same price and an earlier rest; and its
\* price is one that the incoming order accepts.
TradesFollowPriority ==
    [][next_trade_id' # next_trade_id =>
        LET trade == events'[Len(events')]
            maker == trade.contra_order_id
            side == Opposite(command.side)
        IN /\ maker \in DOMAIN active_orders
           /\ active_orders[maker].side = side
           /\ trade.price_ticks = active_orders[maker].price_ticks
           /\ ~Before(side, command.price_ticks, trade.price_ticks)
           /\ \A id \in DOMAIN active_orders \ {maker} :
                 active_orders[id].side = side =>
                    \/ Before(side, trade.price_ticks, active_orders[id].price_ticks)
                    \/ /\ trade.price_ticks = active_orders[id].price_ticks
                       /\ rested_at[maker] < rested_at[id]]_vars

\* What docs/matching_rules.md asks of every command: one whose order id is
\* missing is rejected, so no order without an id is accepted.
MissingOrderIdRejected ==
    \A i \in DOMAIN events :
        events[i].event_type = "OrderAccepted" => events[i].order_id # ZeroId

\* A call that emits a rejection changes nothing but the event sequence.  For
\* apply_replace_order this says that the replaced order is never lost: once it
\* has been cancelled, the nested apply_new_order accepts the replacement.
RejectionMutatesNothing ==
    [][(\E i \in DOMAIN events' : events'[i].event_type = "OrderRejected")
        => UNCHANGED <<bookvars, next_trade_id>>]_vars

\* The events of a call, in sequence order, account for every lot of the order
\* it accepted: each trade takes its quantity from the remainder of the event
\* before it, the terminal event names the remainder that is left and has the
\* type that fits it, and that remainder is what the index holds.
EventsAccountForOrder ==
    (pc = "idle" /\ events # <<>>) =>
        LET n == Len(events)
            last == events[n]
            first == IF n > 1 /\ events[1].event_type = "OrderCancelled" THEN 2 ELSE 1
        IN /\ \A i \in 1..n :
                 events[i].event_sequence = next_event_sequence - n + i - 1
           /\ \/ n = 1 /\ last.event_type \in {"OrderRejected", "OrderCancelled"}
              \/ /\ n > first
                 /\ events[first].event_type = "OrderAccepted"
                 /\ \A i \in (first + 1)..n : events[i].order_id = events[first].order_id
                 /\ \A i \in (first + 1)..(n - 1) :
                       /\ events[i].event_type = "TradeExecuted"
                       /\ events[i].quantity_lots > 0
                       /\ events[i].remaining
                            = events[i - 1].remaining - events[i].quantity_lots
                 /\ last.remaining = events[n - 1].remaining
                 /\ last.quantity_lots = events[first].quantity_lots - last.remaining
                 /\ last.event_type = IF last.remaining = 0 THEN "OrderFullyFilled"
                                      ELSE IF n = first + 1 THEN "OrderRested"
                                      ELSE "OrderPartiallyFilled"
                 /\ IF last.remaining = 0
                    THEN last.order_id \notin DOMAIN active_orders
                    ELSE /\ last.order_id \in DOMAIN active_orders
                         /\ active_orders[last.order_id].remaining = last.remaining

-----------------------------------------------------------------------------
\* Liveness.

\* Every call returns: the matching loop always terminates.
CallReturns == pc = "matching" ~> pc = "idle"
=============================================================================
