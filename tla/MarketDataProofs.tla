-------------------------- MODULE MarketDataProofs --------------------------
(***************************************************************************)
(* Proofs about MarketData for every set of ids, instruments and commands: *)
(* the consumer that reads the event log is never stuck with it, shows no  *)
(* crossed book on the way, keeps an exact tape, and at the end of the log *)
(* holds the engine's index.                                               *)
(*                                                                         *)
(* The events emitted so far determine a history: the index and the number *)
(* of trades after each of them.  The engine's index is the last entry of  *)
(* the history and the projection is the entry at last_applied, whatever   *)
(* was delivered in between.                                               *)
(***************************************************************************)
EXTENDS MarketData, OrderBookProofs, FiniteSetTheorems

\* What an event that the engine emits says of the index before and after it.
EventFits(before, e, after) ==
    \/ /\ e.event_type \in {"OrderAccepted", "OrderRejected"}
       /\ after = before
    \/ /\ e.event_type = "OrderFullyFilled"
       /\ e.order_id \notin DOMAIN before
       /\ after = before
    \/ /\ e.event_type \in {"OrderRested", "OrderPartiallyFilled"}
       /\ HasVisibleLiquidity(e)
       /\ after = Put(before, e.order_id, [instrument_id |-> e.instrument_id,
                                           side |-> e.side,
                                           price_ticks |-> e.price_ticks,
                                           remaining |-> e.remaining])
    \/ /\ e.event_type = "TradeExecuted"
       /\ e.quantity_lots > 0
       /\ e.contra_order_id # ZeroId
       /\ e.contra_order_id \in DOMAIN before
       /\ before[e.contra_order_id].remaining >= e.quantity_lots
       /\ after = AfterTrade(before, e.contra_order_id, e.quantity_lots)
    \/ /\ e.event_type = "OrderCancelled"
       /\ e.order_id \in DOMAIN before
       /\ after = Erase(before, e.order_id)

\* An index of orders that do not cross, all of instruments that exist.
Uncrossed(orders) ==
    /\ \A id \in DOMAIN orders : orders[id].price_ticks \in Int
    /\ \A a, b \in DOMAIN orders :
          orders[a].side = "Buy" /\ orders[b].side = "Sell"
              => orders[a].price_ticks < orders[b].price_ticks

\* h[k] is the index and c[k] the number of trades after the first k events.
History(h, c, log) ==
    /\ h[0] = NoEntries /\ c[0] = 0
    /\ \A k \in 0..Len(log) : Uncrossed(h[k]) /\ c[k] \in Nat
    /\ \A j, k \in 0..Len(log) : j <= k => c[j] <= c[k]
    /\ \A k \in 1..Len(log) :
          /\ log[k].event_sequence = k
          /\ EventFits(h[k - 1], log[k], h[k])
          /\ IF log[k].event_type = "TradeExecuted"
             THEN c[k] = c[k - 1] + 1 /\ log[k].trade_id = c[k]
             ELSE c[k] = c[k - 1]

\* The events emitted so far, those of a call that has not returned included.
Emitted == event_log \o (IF pc = "matching" THEN events ELSE <<>>)

\* The engine stands at the end of the history.
EngineOK(h, c) ==
    /\ h[Len(Emitted)] = Visible(active_orders)
    /\ c[Len(Emitted)] = next_trade_id - 1
    /\ next_event_sequence = Len(Emitted) + 1

Trade == [trade_id : Nat,
          instrument_id : Instrument,
          incoming_order_id : OrderId,
          resting_order_id : OrderId,
          aggressor_side : Side \cup {"Unknown"},
          price_ticks : Int,
          quantity_lots : Int]

\* The entry of the tape for a trade of the log.
IsEntry(trade, e) ==
    /\ trade.trade_id = e.trade_id
    /\ trade.resting_order_id = e.contra_order_id
    /\ trade.price_ticks = e.price_ticks
    /\ trade.quantity_lots = e.quantity_lots

\* The tape has the trades of the first n events of the log, each at its id.
TapeOK(log, tape, n) ==
    /\ \A i \in 1..n :
          log[i].event_type = "TradeExecuted" =>
              /\ log[i].trade_id \in 1..Len(tape)
              /\ IsEntry(tape[log[i].trade_id], log[i])
    /\ \A k \in 1..Len(tape) : \E i \in 1..n :
          log[i].event_type = "TradeExecuted" /\ log[i].trade_id = k

\* The consumer stands at the last event that it applied.
ConsumerOK(h, c) ==
    /\ last_applied_event_sequence \in 0..Len(event_log)
    /\ projected_orders = h[last_applied_event_sequence]
    /\ book.bids = PublicLevels(projected_orders, "Buy")
    /\ book.asks = PublicLevels(projected_orders, "Sell")
    /\ book.instrument_id \in
          IF DOMAIN projected_orders = {} THEN {NoInstrument}
          ELSE {projected_orders[id].instrument_id : id \in DOMAIN projected_orders}
    /\ trades \in Seq(Trade)
    /\ Len(trades) = c[last_applied_event_sequence]
    /\ TapeOK(event_log, trades, last_applied_event_sequence)

\* No order without an id is at rest or in the loop.
IdsOK ==
    /\ ZeroId \notin DOMAIN active_orders
    /\ pc = "matching" => command.order_id # ZeroId

FeedInv ==
    /\ IInv
    /\ IdsOK
    /\ event_log \in Seq(Event)
    /\ \E h, c : History(h, c, Emitted) /\ EngineOK(h, c) /\ ConsumerOK(h, c)

-----------------------------------------------------------------------------
\* Histories.

\* A history is extended by an event that fits its last index.
LEMMA HistoryAppend ==
    ASSUME NEW h, NEW c, NEW log \in Seq(Event), NEW e \in Event, NEW after, NEW n \in Nat,
           History(h, c, log),
           e.event_sequence = Len(log) + 1,
           EventFits(h[Len(log)], e, after),
           Uncrossed(after),
           IF e.event_type = "TradeExecuted"
           THEN n = c[Len(log)] + 1 /\ e.trade_id = n
           ELSE n = c[Len(log)]
    PROVE  \E h2, c2 : /\ History(h2, c2, Append(log, e))
                       /\ h2[Len(log) + 1] = after
                       /\ c2[Len(log) + 1] = n
                       /\ \A k \in 0..Len(log) : h2[k] = h[k] /\ c2[k] = c[k]
<1> DEFINE N == Len(log)
           h2 == [k \in 0..(N + 1) |-> IF k <= N THEN h[k] ELSE after]
           c2 == [k \in 0..(N + 1) |-> IF k <= N THEN c[k] ELSE n]
           log2 == Append(log, e)
<1>1. /\ N \in Nat
      /\ Len(log2) = N + 1
      /\ \A k \in 1..N : log2[k] = log[k]
      /\ log2[N + 1] = e
    BY AppendProperties, LenProperties
<1>2. /\ \A k \in 0..N : h2[k] = h[k] /\ c2[k] = c[k]
      /\ h2[N + 1] = after /\ c2[N + 1] = n
    BY <1>1
<1> HIDE DEF h2, c2, log2
<1>3. /\ h[0] = NoEntries /\ c[0] = 0
      /\ \A k \in 0..N : Uncrossed(h[k]) /\ c[k] \in Nat
      /\ \A j, k \in 0..N : j <= k => c[j] <= c[k]
    BY DEF History
<1>4. h2[0] = NoEntries /\ c2[0] = 0
    BY <1>1, <1>2, <1>3
<1>5. ASSUME NEW k \in 0..(N + 1) PROVE Uncrossed(h2[k]) /\ c2[k] \in Nat
  <2>1. CASE k = N + 1
      BY <1>2, <2>1
  <2>2. CASE k # N + 1
    <3>1. k \in 0..N
        BY <1>1, <2>2
    <3> QED BY <1>2, <1>3, <3>1
  <2> QED BY <2>1, <2>2
<1>6. c[N] <= n
    BY <1>1, <1>3
<1>7. ASSUME NEW j \in 0..(N + 1), NEW k \in 0..(N + 1), j <= k PROVE c2[j] <= c2[k]
  <2>1. CASE k \in 0..N
    <3>1. j \in 0..N
        BY <1>1, <1>7, <2>1
    <3> QED BY <1>2, <1>3, <1>7, <2>1, <3>1
  <2>2. CASE k = N + 1 /\ j = N + 1
      BY <1>2, <2>2
  <2>3. CASE k = N + 1 /\ j \in 0..N
    <3>1. c[j] <= c[N] /\ c[j] \in Nat /\ c[N] \in Nat
        BY <1>1, <1>3, <2>3
    <3> QED BY <1>2, <1>6, <2>3, <3>1
  <2> QED BY <1>1, <2>1, <2>2, <2>3
<1>8. ASSUME NEW k \in 1..(N + 1)
      PROVE  /\ log2[k].event_sequence = k
             /\ EventFits(h2[k - 1], log2[k], h2[k])
             /\ IF log2[k].event_type = "TradeExecuted"
                THEN c2[k] = c2[k - 1] + 1 /\ log2[k].trade_id = c2[k]
                ELSE c2[k] = c2[k - 1]
  <2>1. CASE k = N + 1
    <3>1. k - 1 = N /\ N \in 0..N
        BY <1>1, <2>1
    <3> QED BY <1>1, <1>2, <2>1, <3>1
  <2>2. CASE k # N + 1
    <3>1. k \in 1..N /\ k \in 0..N /\ k - 1 \in 0..N
        BY <1>1, <2>2
    <3> QED BY <1>1, <1>2, <3>1 DEF History
  <2> QED BY <2>1, <2>2
<1>9. History(h2, c2, log2)
    BY <1>1, <1>4, <1>5, <1>7, <1>8 DEF History
<1> QED BY <1>2, <1>9 DEF log2

-----------------------------------------------------------------------------
\* The index that the events make public.

LEMMA VisibleErase ==
    ASSUME NEW orders, NEW id
    PROVE  Visible(Erase(orders, id)) = Erase(Visible(orders), id)
BY DEF Visible, Erase

LEMMA VisiblePut ==
    ASSUME NEW orders, NEW id, NEW order
    PROVE  Visible(Put(orders, id, order))
             = Put(Visible(orders), id, [instrument_id |-> order.instrument_id,
                                         side |-> order.side,
                                         price_ticks |-> order.price_ticks,
                                         remaining |-> order.remaining])
BY DEF Visible, Put

\* What the write-back of a matching step does to the index is what apply_trade
\* does to the projection.
LEMMA VisibleTrade ==
    ASSUME NEW orders, NEW id \in DOMAIN orders, NEW quantity \in Int,
           orders[id] \in RestingOrder, NEW left,
           left = [orders[id] EXCEPT !.remaining = @ - quantity]
    PROVE  Visible(IF left.remaining = 0 THEN Erase(orders, id) ELSE Put(orders, id, left))
             = AfterTrade(Visible(orders), id, quantity)
<1>1. /\ left.instrument_id = orders[id].instrument_id
      /\ left.side = orders[id].side
      /\ left.price_ticks = orders[id].price_ticks
      /\ left.remaining = orders[id].remaining - quantity
      /\ orders[id].remaining \in Int
    BY DEF RestingOrder
<1>2. /\ DOMAIN Visible(orders) = DOMAIN orders
      /\ \A k \in DOMAIN orders : Visible(orders)[k].remaining = orders[k].remaining
    BY DEF Visible
<1>3. CASE left.remaining = 0
  <2>1. Visible(orders)[id].remaining = quantity
      BY <1>1, <1>2, <1>3
  <2> QED BY <1>3, <2>1, VisibleErase DEF AfterTrade
<1>4. CASE left.remaining # 0
  <2>1. Visible(orders)[id].remaining # quantity
      BY <1>1, <1>2, <1>4
  <2>2. Visible(Put(orders, id, left))
          = [Visible(orders) EXCEPT ![id].remaining = @ - quantity]
      BY <1>1 DEF Visible, Put
  <2> QED BY <1>4, <2>1, <2>2 DEF AfterTrade
<1> QED BY <1>3, <1>4

\* A consistent book that is not crossed has an index that is not.
LEMMA IndexUncrossed ==
    ASSUME IInv
    PROVE  Uncrossed(Visible(active_orders))
<1>1. /\ DOMAIN Visible(active_orders) = DOMAIN active_orders
      /\ \A id \in DOMAIN active_orders :
            /\ Visible(active_orders)[id].side = active_orders[id].side
            /\ Visible(active_orders)[id].price_ticks = active_orders[id].price_ticks
    BY DEF Visible
<1>2. \A id \in DOMAIN active_orders :
         /\ active_orders[id].price_ticks \in Int
         /\ active_orders[id].price_ticks \in DOMAIN levels[active_orders[id].side]
    BY IndexedOrder DEF IInv, TypeOK
<1>3. ASSUME NEW a \in DOMAIN active_orders, NEW b \in DOMAIN active_orders,
             active_orders[a].side = "Buy", active_orders[b].side = "Sell"
      PROVE  active_orders[a].price_ticks < active_orders[b].price_ticks
    BY <1>2, <1>3 DEF IInv, NotCrossed
<1> QED BY <1>1, <1>2, <1>3 DEF Uncrossed

-----------------------------------------------------------------------------
\* The events that a step of the engine emits.

\* The step emits e, and e says what the step does to the index.
Emits(e) ==
    /\ e \in Event
    /\ Emitted' = Append(Emitted, e)
    /\ e.event_sequence = next_event_sequence
    /\ next_event_sequence' = next_event_sequence + 1
    /\ EventFits(Visible(active_orders), e, Visible(active_orders'))
    /\ IF e.event_type = "TradeExecuted"
       THEN e.trade_id = next_trade_id /\ next_trade_id' = next_trade_id + 1
       ELSE next_trade_id' = next_trade_id

\* The step emits the cancellation x and the acceptance e, as a replace does.
EmitsBoth(x, e) ==
    /\ x \in Event /\ e \in Event
    /\ Emitted' = Append(Append(Emitted, x), e)
    /\ x.event_sequence = next_event_sequence
    /\ e.event_sequence = next_event_sequence + 1
    /\ next_event_sequence' = next_event_sequence + 2
    /\ x.event_type = "OrderCancelled" /\ e.event_type = "OrderAccepted"
    /\ EventFits(Visible(active_orders), x, Visible(active_orders'))
    /\ next_trade_id' = next_trade_id

\* Whether the call returns or not, a step adds what it emits to what was emitted.
LEMMA EmittedStep ==
    ASSUME IInv, IInv', event_log \in Seq(Event), Engine
    PROVE  /\ Emitted \in Seq(Event) /\ Emitted' \in Seq(Event)
           /\ event_log' \in Seq(Event)
           /\ pc = "idle" => Emitted = event_log
           /\ Emitted' = event_log \o events'
           /\ \A e \in Event : pc = "matching" /\ events' = Append(events, e)
                                  => Emitted' = Append(Emitted, e)
           /\ event_log' = event_log \/ event_log' = Emitted'
<1>1. events \in Seq(Event) /\ events' \in Seq(Event) /\ <<>> \in Seq(Event)
    BY EmptySeq DEF IInv, TypeOK
<1>2. /\ pc \in {"idle", "matching"} /\ pc' \in {"idle", "matching"}
      /\ event_log' = IF pc' = "idle" THEN event_log \o events' ELSE event_log
    BY DEF IInv, TypeOK, Engine
<1>3. event_log' \in Seq(Event) /\ event_log \o events' \in Seq(Event)
    BY <1>1, <1>2, ConcatProperties
<1>4. Emitted' = event_log \o events'
  <2>1. CASE pc' = "idle"
    <3>1. Emitted' = (event_log \o events') \o <<>>
        BY <1>2, <2>1 DEF Emitted
    <3> QED BY <1>3, <3>1, ConcatEmptySeq
  <2>2. CASE pc' = "matching"
      BY <1>2, <2>2 DEF Emitted
  <2> QED BY <1>2, <2>1, <2>2
<1>5. Emitted \in Seq(Event)
    BY <1>1, <1>2, ConcatProperties DEF Emitted
<1>6. pc = "idle" => Emitted = event_log
  <2>1. pc = "idle" => Emitted = event_log \o <<>>
      BY DEF Emitted
  <2> QED BY <2>1, ConcatEmptySeq
<1>7. ASSUME NEW e \in Event, pc = "matching", events' = Append(events, e)
      PROVE  Emitted' = Append(Emitted, e)
  <2>1. Append(events, e) = events \o <<e>> /\ <<e>> \in Seq(Event)
      BY <1>1, AppendIsConcat
  <2>2. event_log \o (events \o <<e>>) = (event_log \o events) \o <<e>>
      BY <1>1, <2>1, ConcatAssociative
  <2>3. Append(Emitted, e) = Emitted \o <<e>>
      BY <1>5, AppendIsConcat
  <2> QED BY <1>4, <1>7, <2>1, <2>2, <2>3 DEF Emitted
<1> QED BY <1>2, <1>3, <1>4, <1>5, <1>6, <1>7

\* A call that answers with one event, from an index that is the same or has
\* lost the order that the event names.
LEMMA CallEmits ==
    ASSUME IInv, IInv', event_log \in Seq(Event), Engine, pc = "idle",
           NEW e \in Event, events' = <<e>>,
           e.event_sequence = next_event_sequence,
           next_event_sequence' = next_event_sequence + 1,
           next_trade_id' = next_trade_id,
           \/ /\ e.event_type \in {"OrderAccepted", "OrderRejected"}
              /\ active_orders' = active_orders
           \/ /\ e.event_type = "OrderCancelled"
              /\ e.order_id \in DOMAIN active_orders
              /\ active_orders' = Erase(active_orders, e.order_id)
    PROVE  Emits(e)
<1>1. Emitted' = Append(Emitted, e)
    BY EmittedStep, AppendIsConcat
<1>2. EventFits(Visible(active_orders), e, Visible(active_orders'))
  <2>1. CASE /\ e.event_type \in {"OrderAccepted", "OrderRejected"}
             /\ active_orders' = active_orders
      BY <2>1 DEF EventFits
  <2>2. CASE /\ e.event_type = "OrderCancelled"
             /\ e.order_id \in DOMAIN active_orders
             /\ active_orders' = Erase(active_orders, e.order_id)
    <3>1. e.order_id \in DOMAIN Visible(active_orders)
        BY <2>2 DEF Visible
    <3>2. Visible(active_orders') = Erase(Visible(active_orders), e.order_id)
        BY <2>2, VisibleErase
    <3> QED BY <2>2, <3>1, <3>2 DEF EventFits
  <2> QED BY <2>1, <2>2
<1>3. e.event_type # "TradeExecuted"
    OBVIOUS
<1> QED BY <1>1, <1>2, <1>3 DEF Emits

\* What the calls that return at once and the starts of the others emit.
LEMMA ApplyEmits ==
    ASSUME IInv, IInv', event_log \in Seq(Event), Engine, NEW c \in Commands, Apply(c)
    PROVE  \/ \E e : Emits(e)
           \/ \E x, e : EmitsBoth(x, e)
<1>1. c \in Command /\ pc = "idle" /\ next_event_sequence \in Nat /\ c.quantity_lots \in Int
    BY CommandsAssumption DEF Apply, IInv, TypeOK, Command
<1>2. ASSUME NEW reason \in RejectionReason, Reject(c, reason)
      PROVE  \E e : Emits(e)
  <2> DEFINE e == emit_rejection_event(c, next_event_sequence, reason)
  <2>1. e \in Event
      BY <1>1, RejectionEventType
  <2>2. e.event_type = "OrderRejected" /\ e.event_sequence = next_event_sequence
      BY DEF emit_rejection_event, emit_order_event
  <2>3. /\ events' = <<e>> /\ next_event_sequence' = next_event_sequence + 1
        /\ next_trade_id' = next_trade_id /\ active_orders' = active_orders
      BY <1>2 DEF Reject, bookvars
  <2> HIDE DEF e
  <2> QED BY <1>1, <2>1, <2>2, <2>3, CallEmits
<1>3. CASE apply_new_order(c)
  <2> DEFINE reason == validate_new_order(c, active_orders, instrument_id)
             x == emit_rejection_event(c, next_event_sequence, reason)
             e == emit_order_event(c, next_event_sequence, "OrderAccepted",
                                   c.quantity_lots, c.quantity_lots)
  <2>1. next_event_sequence + Len(<<>>) = next_event_sequence
      BY <1>1, EmptySeq
  <2>2. /\ next_event_sequence' = next_event_sequence + 1
        /\ next_trade_id' = next_trade_id /\ active_orders' = active_orders
        /\ events' = Append(<<>>, IF reason # "None" THEN x ELSE e)
      BY <1>3, <2>1 DEF apply_new_order, SubmitNewOrder
  <2>3. /\ reason # "None" => x \in Event
        /\ x.event_type = "OrderRejected" /\ x.event_sequence = next_event_sequence
      BY <1>1, ReasonTypes, RejectionEventType DEF emit_rejection_event, emit_order_event
  <2>4. /\ e \in Event
        /\ e.event_type = "OrderAccepted" /\ e.event_sequence = next_event_sequence
      BY <1>1, OrderEventType DEF EventType, emit_order_event
  <2> HIDE DEF reason, x, e
  <2>5. CASE reason # "None"
    <3>1. events' = <<x>>
        BY <2>2, <2>5
    <3> QED BY <1>1, <2>2, <2>3, <2>5, <3>1, CallEmits
  <2>6. CASE reason = "None"
    <3>1. events' = <<e>>
        BY <2>2, <2>6
    <3> QED BY <1>1, <2>2, <2>4, <3>1, CallEmits
  <2> QED BY <2>5, <2>6
<1>4. CASE apply_cancel_order(c)
  <2> DEFINE reason == validate_cancel_order(c, active_orders)
             e == emit_cancel_event(c, next_event_sequence, active_orders[c.order_id])
  <2>1. CASE reason # "None"
      BY <1>2, <1>4, <2>1, ReasonTypes DEF apply_cancel_order
  <2>2. CASE reason = "None"
    <3>1. c.order_id \in DOMAIN active_orders
        BY <2>2 DEF validate_cancel_order
    <3>2. active_orders[c.order_id] \in RestingOrder /\ active_orders[c.order_id].order_id = c.order_id
        BY <3>1, IndexedOrder DEF IInv, TypeOK
    <3>3. /\ events' = <<e>> /\ next_event_sequence' = next_event_sequence + 1
          /\ next_trade_id' = next_trade_id
          /\ active_orders' = Erase(active_orders, c.order_id)
        BY <1>4, <2>2, <3>2 DEF apply_cancel_order, remove_cancelled_order
    <3>4. e \in Event
        BY <1>1, <3>2, CancelEventType
    <3>5. /\ e.event_type = "OrderCancelled" /\ e.event_sequence = next_event_sequence
          /\ e.order_id = c.order_id
        BY DEF emit_cancel_event, emit_order_event
    <3> HIDE DEF e
    <3> QED BY <1>1, <3>1, <3>3, <3>4, <3>5, CallEmits
  <2> QED BY <2>1, <2>2
<1>5. CASE apply_replace_order(c)
  <2> DEFINE reason == validate_replace_order(c, active_orders)
             r == [c EXCEPT !.command_type = "NewOrder",
                            !.order_id = c.replacement_order_id]
             x == emit_cancel_event(c, next_event_sequence, active_orders[c.order_id])
             e == emit_order_event(r, next_event_sequence + 1, "OrderAccepted",
                                   r.quantity_lots, r.quantity_lots)
  <2>1. CASE reason # "None"
      BY <1>2, <1>5, <2>1, ReasonTypes DEF apply_replace_order
  <2>2. CASE reason = "None"
    <3>1. validate_new_order(r, Erase(active_orders, c.order_id), instrument_id) = "None"
        BY <1>1, <2>2, ReplacementAccepted
    <3>2. c.order_id \in DOMAIN active_orders
        BY <2>2 DEF validate_replace_order
    <3>3. active_orders[c.order_id] \in RestingOrder /\ active_orders[c.order_id].order_id = c.order_id
        BY <3>2, IndexedOrder DEF IInv, TypeOK
    <3>4. /\ r \in Command /\ r.quantity_lots = c.quantity_lots
          /\ next_event_sequence + 1 \in Nat
      <4>1. r \in Command
          BY <1>1 DEF Command, CommandType
      <4>2. r.quantity_lots = c.quantity_lots
          BY <1>1 DEF Command
      <4> QED BY <1>1, <4>1, <4>2
    <3>5. x \in Event /\ e \in Event
      <4>1. r.quantity_lots \in Int
          BY <1>1, <3>4
      <4> QED BY <1>1, <3>3, <3>4, <4>1, CancelEventType, OrderEventType DEF EventType
    <3>6. /\ x.event_type = "OrderCancelled" /\ x.event_sequence = next_event_sequence
          /\ x.order_id = c.order_id
          /\ e.event_type = "OrderAccepted" /\ e.event_sequence = next_event_sequence + 1
        BY DEF emit_cancel_event, emit_order_event
    <3>7. active_orders' = Erase(active_orders, c.order_id)
        BY <1>5, <2>2, <3>3 DEF apply_replace_order, remove_cancelled_order
    <3>8. SubmitNewOrder(r, Erase(active_orders, c.order_id), <<x>>)
        BY <1>5, <2>2 DEF apply_replace_order
    <3> HIDE DEF r, x
    <3>9. next_event_sequence + Len(<<x>>) = next_event_sequence + 1
        OBVIOUS
    <3>10. /\ events' = Append(<<x>>, e)
           /\ next_event_sequence' = next_event_sequence + 2
           /\ next_trade_id' = next_trade_id
        BY <1>1, <3>1, <3>8, <3>9 DEF SubmitNewOrder
    <3> HIDE DEF e
    <3>11. Emitted' = Append(Append(Emitted, x), e)
      <4>1. /\ Emitted \in Seq(Event) /\ Emitted = event_log
            /\ Emitted' = event_log \o events'
          BY <1>1, EmittedStep
      <4>2. <<x>> \in Seq(Event) /\ <<e>> \in Seq(Event)
          BY <3>5
      <4>3. Append(<<x>>, e) = <<x>> \o <<e>>
          BY <3>5, <4>2, AppendIsConcat
      <4>4. event_log \o (<<x>> \o <<e>>) = (event_log \o <<x>>) \o <<e>>
          BY <4>1, <4>2, ConcatAssociative
      <4>5. Append(Emitted, x) = Emitted \o <<x>> /\ Append(Emitted, x) \in Seq(Event)
          BY <3>5, <4>1, AppendIsConcat, AppendProperties
      <4>6. Append(Append(Emitted, x), e) = Append(Emitted, x) \o <<e>>
          BY <3>5, <4>5, AppendIsConcat
      <4> QED BY <3>10, <4>1, <4>3, <4>4, <4>5, <4>6
    <3>12. EventFits(Visible(active_orders), x, Visible(active_orders'))
      <4>1. x.order_id \in DOMAIN Visible(active_orders)
          BY <3>2, <3>6 DEF Visible
      <4>2. Visible(active_orders') = Erase(Visible(active_orders), x.order_id)
          BY <3>6, <3>7, VisibleErase
      <4> QED BY <3>6, <4>1, <4>2 DEF EventFits
    <3> QED BY <3>5, <3>6, <3>10, <3>11, <3>12 DEF EmitsBoth
  <2> QED BY <2>1, <2>2
<1>6. CASE reject_unsupported_command(c)
    BY <1>2, <1>6 DEF reject_unsupported_command, RejectionReason
<1> QED BY <1>3, <1>4, <1>5, <1>6 DEF Apply

\* What a step of the loop, and the return after it, emit.
LEMMA LoopEmits ==
    ASSUME IInv, IInv', IdsOK, event_log \in Seq(Event), Engine, pc = "matching", Continue
    PROVE  \E e : Emits(e)
<1>1. /\ command \in Command /\ command.side \in Side /\ command.price_ticks > 0
      /\ next_event_sequence \in Nat /\ incoming \in Nat /\ next_trade_id \in Nat
      /\ command.order_id # ZeroId /\ command.order_id \notin DOMAIN active_orders
      /\ ZeroId \notin DOMAIN active_orders
    BY DEF IInv, TypeOK, CallOK, IdsOK
<1>2. command.quantity_lots \in Int /\ command.price_ticks \in Int
    BY <1>1 DEF Command
<1>3. ASSUME NEW type \in EventType, NEW quantity \in Int, NEW remaining \in Int,
             Return(type, quantity, remaining)
      PROVE  LET e == emit_order_event(command, next_event_sequence, type, quantity,
                                       remaining)
             IN /\ e \in Event
                /\ Emitted' = Append(Emitted, e)
                /\ next_event_sequence' = next_event_sequence + 1
                /\ next_trade_id' = next_trade_id
  <2> DEFINE e == emit_order_event(command, next_event_sequence, type, quantity, remaining)
  <2>1. e \in Event
      BY <1>1, OrderEventType
  <2>2. /\ events' = Append(events, e)
        /\ next_event_sequence' = next_event_sequence + 1
        /\ next_trade_id' = next_trade_id
      BY <1>3 DEF Return
  <2> HIDE DEF e
  <2>3. Emitted' = Append(Emitted, e)
      BY <1>1, <2>1, <2>2, EmittedStep
  <2> QED BY <2>1, <2>2, <2>3 DEF e
<1>4. CASE FillIncoming
  <2> DEFINE e == emit_order_event(command, next_event_sequence, "OrderFullyFilled",
                                   command.quantity_lots, 0)
  <2>1. /\ e \in Event
        /\ Emitted' = Append(Emitted, e)
        /\ next_event_sequence' = next_event_sequence + 1
        /\ next_trade_id' = next_trade_id
      BY <1>2, <1>3, <1>4 DEF FillIncoming, EventType
  <2>2. /\ e.event_type = "OrderFullyFilled" /\ e.event_sequence = next_event_sequence
        /\ e.order_id = command.order_id
      BY DEF emit_order_event
  <2>3. active_orders' = active_orders
      BY <1>4 DEF FillIncoming
  <2>4. e.order_id \notin DOMAIN Visible(active_orders)
      BY <1>1, <2>2 DEF Visible
  <2> HIDE DEF e
  <2>5. EventFits(Visible(active_orders), e, Visible(active_orders'))
      BY <2>2, <2>3, <2>4 DEF EventFits
  <2> QED BY <2>1, <2>2, <2>5 DEF Emits
<1>5. CASE RestIncoming
  <2> DEFINE type == IF incoming # command.quantity_lots THEN "OrderPartiallyFilled"
                                                         ELSE "OrderRested"
             e == emit_order_event(command, next_event_sequence, type,
                                   command.quantity_lots - incoming, incoming)
             resting == [order_id |-> command.order_id,
                         instrument_id |-> command.instrument_id,
                         side |-> command.side,
                         price_ticks |-> command.price_ticks,
                         remaining |-> incoming]
  <2>1. type \in {"OrderRested", "OrderPartiallyFilled"} /\ type \in EventType
      BY DEF EventType
  <2>2. /\ Return(type, command.quantity_lots - incoming, incoming)
        /\ active_orders' = Put(active_orders, command.order_id, resting)
        /\ incoming # 0
      BY <1>5 DEF RestIncoming, rest_order
  <2> HIDE DEF type
  <2>3. incoming \in Int /\ command.quantity_lots - incoming \in Int
      BY <1>1, <1>2
  <2>4. /\ e \in Event
        /\ Emitted' = Append(Emitted, e)
        /\ next_event_sequence' = next_event_sequence + 1
        /\ next_trade_id' = next_trade_id
      BY <1>3, <2>1, <2>2, <2>3
  <2>5. /\ e.event_type = type /\ e.event_sequence = next_event_sequence
        /\ e.order_id = command.order_id /\ e.instrument_id = command.instrument_id
        /\ e.side = command.side /\ e.price_ticks = command.price_ticks
        /\ e.remaining = incoming
      BY DEF emit_order_event
  <2>6. Visible(active_orders')
          = Put(Visible(active_orders), command.order_id,
                [instrument_id |-> command.instrument_id,
                 side |-> command.side,
                 price_ticks |-> command.price_ticks,
                 remaining |-> incoming])
      BY <2>2, VisiblePut
  <2> HIDE DEF e
  <2>7. HasVisibleLiquidity(e)
      BY <1>1, <2>2, <2>5 DEF HasVisibleLiquidity
  <2>8. EventFits(Visible(active_orders), e, Visible(active_orders'))
      BY <2>1, <2>5, <2>6, <2>7 DEF EventFits
  <2> QED BY <2>1, <2>4, <2>5, <2>8 DEF Emits
<1>6. ASSUME NEW p \in DOMAIN levels[Opposite(command.side)], MatchFront(p)
      PROVE  \E e : Emits(e)
  <2> DEFINE front == Head(levels[Opposite(command.side)][p])
             quantity == TradeQuantity(front.remaining)
             left == [front EXCEPT !.remaining = @ - quantity]
             id == front.order_id
             e == emit_trade_event(command, next_event_sequence, front, next_trade_id, p,
                                   quantity, incoming - quantity)
  <2>1. /\ incoming > 0 /\ events' = Append(events, e)
        /\ next_event_sequence' = next_event_sequence + 1
        /\ next_trade_id' = next_trade_id + 1
        /\ active_orders' = IF left.remaining = 0 THEN Erase(active_orders, id)
                            ELSE Put(active_orders, id, left)
      BY <1>6, SMTT(30) DEF MatchFront
  <2>2. /\ front \in RestingOrder /\ quantity \in Nat /\ p \in Int
        /\ quantity > 0 /\ quantity <= front.remaining
        /\ id \in DOMAIN active_orders /\ active_orders[id] = front
      BY <1>1, <2>1, MatchFacts
  <2>3. e.event_type = "TradeExecuted" /\ e.event_sequence = next_event_sequence
        /\ e.contra_order_id = id /\ e.quantity_lots = quantity
        /\ e.trade_id = next_trade_id
      BY DEF emit_trade_event, emit_order_event
  <2> HIDE DEF front, quantity
  <2>4. e \in Event
    <3>1. incoming - quantity \in Int /\ quantity \in Int
        BY <1>1, <2>2
    <3> QED BY <1>1, <2>2, <3>1, TradeEventType
  <2> HIDE DEF e
  <2>5. Emitted' = Append(Emitted, e)
      BY <1>1, <2>1, <2>4, EmittedStep
  <2>6. Visible(active_orders') = AfterTrade(Visible(active_orders), id, quantity)
    <3> HIDE DEF id
    <3>1. quantity \in Int
        BY <2>2
    <3> QED BY <2>1, <2>2, <3>1, VisibleTrade
  <2>7. /\ id \in DOMAIN Visible(active_orders)
        /\ Visible(active_orders)[id].remaining >= quantity
        /\ id # ZeroId
    <3>1. front.remaining \in Int
        BY <2>2 DEF RestingOrder
    <3>2. id \in DOMAIN Visible(active_orders)
            /\ Visible(active_orders)[id].remaining = front.remaining
        BY <2>2 DEF Visible
    <3> QED BY <1>1, <2>2, <3>1, <3>2
  <2> HIDE DEF id
  <2>8. EventFits(Visible(active_orders), e, Visible(active_orders'))
      BY <2>2, <2>3, <2>6, <2>7 DEF EventFits
  <2> QED BY <2>1, <2>3, <2>4, <2>5, <2>8 DEF Emits
<1> QED BY <1>4, <1>5, <1>6 DEF Continue

LEMMA EngineEmits ==
    ASSUME IInv, IInv', IdsOK, event_log \in Seq(Event), Engine
    PROVE  \/ \E e : Emits(e)
           \/ \E x, e : EmitsBoth(x, e)
BY ApplyEmits, LoopEmits DEF Engine, Next

\* Ids are given to new orders by the callers, and to replacements by the check
\* of validate_replace_order.
LEMMA IdsStep ==
    ASSUME IInv, IInv', IdsOK, Next
    PROVE  IdsOK'
<1>1. ASSUME NEW c \in Commands, Apply(c) PROVE IdsOK'
  <2>1. c \in Command /\ pc = "idle"
      BY <1>1, CommandsAssumption DEF Apply
  <2>2. ASSUME NEW reason, Reject(c, reason) PROVE IdsOK'
      BY <2>1, <2>2 DEF IdsOK, Reject, bookvars, callvars
  <2>3. CASE c.command_type = "NewOrder" /\ apply_new_order(c)
    <3>1. c.order_id # ZeroId
        BY <2>3, FeedAssumption
    <3> QED BY <2>1, <2>3, <3>1 DEF apply_new_order, SubmitNewOrder, IdsOK, callvars
  <2>4. CASE apply_cancel_order(c)
      BY <2>1, <2>2, <2>4
      DEF apply_cancel_order, remove_cancelled_order, Erase, IdsOK, callvars
  <2>5. CASE apply_replace_order(c)
    <3>1. CASE validate_replace_order(c, active_orders) # "None"
        BY <2>2, <2>5, <3>1 DEF apply_replace_order
    <3>2. CASE validate_replace_order(c, active_orders) = "None"
      <4> DEFINE r == [c EXCEPT !.command_type = "NewOrder",
                                !.order_id = c.replacement_order_id]
                 x == emit_cancel_event(c, next_event_sequence, active_orders[c.order_id])
      <4>1. c.replacement_order_id # ZeroId
          BY <3>2 DEF validate_replace_order
      <4>2. r.order_id = c.replacement_order_id
          BY <2>1 DEF Command
      <4>3. /\ SubmitNewOrder(r, Erase(active_orders, c.order_id), <<x>>)
            /\ \A k \in DOMAIN active_orders' : k \in DOMAIN active_orders
          BY <2>5, <3>2 DEF apply_replace_order, remove_cancelled_order, Erase
      <4> HIDE DEF r, x
      <4>4. pc' = "matching" => command' = r
          BY <2>1, <4>3 DEF SubmitNewOrder, callvars
      <4> QED BY <4>1, <4>2, <4>3, <4>4 DEF IdsOK
    <3> QED BY <3>1, <3>2
  <2>6. CASE reject_unsupported_command(c)
      BY <2>2, <2>6 DEF reject_unsupported_command
  <2> QED BY <1>1, <2>3, <2>4, <2>5, <2>6 DEF Apply
<1>2. ASSUME pc = "matching", Continue PROVE IdsOK'
  <2>1. CASE FillIncoming \/ RestIncoming
      BY <1>2, <2>1 DEF FillIncoming, RestIncoming, Return, rest_order, Put, IdsOK
  <2>2. ASSUME NEW p \in DOMAIN levels[Opposite(command.side)], MatchFront(p)
        PROVE  IdsOK'
    <3> DEFINE front == Head(levels[Opposite(command.side)][p])
               quantity == TradeQuantity(front.remaining)
               left == [front EXCEPT !.remaining = @ - quantity]
               id == front.order_id
    <3>1. /\ incoming > 0 /\ pc' = pc /\ command' = command
          /\ active_orders' = IF left.remaining = 0 THEN Erase(active_orders, id)
                              ELSE Put(active_orders, id, left)
        BY <2>2, SMTT(30) DEF MatchFront
    <3>2. id \in DOMAIN active_orders
        BY <1>2, <3>1, MatchFacts
    <3> HIDE DEF id, left
    <3>3. DOMAIN active_orders' \subseteq DOMAIN active_orders
        BY <3>1, <3>2 DEF Put, Erase
    <3> QED BY <1>2, <3>1, <3>3 DEF IdsOK
  <2> QED BY <1>2, <2>1, <2>2 DEF Continue
<1> QED BY <1>1, <1>2 DEF Next
-----------------------------------------------------------------------------
\* The inductive invariant.

\* The public view is that of the projected orders.
ViewOK ==
    /\ book.bids = PublicLevels(projected_orders, "Buy")
    /\ book.asks = PublicLevels(projected_orders, "Sell")
    /\ book.instrument_id \in
          IF DOMAIN projected_orders = {} THEN {NoInstrument}
          ELSE {projected_orders[id].instrument_id : id \in DOMAIN projected_orders}

LEMMA FeedInitStep == FeedInit => FeedInv
<1> SUFFICES ASSUME FeedInit PROVE FeedInv
    OBVIOUS
<1>1. /\ pc = "idle" /\ event_log = <<>> /\ active_orders = NoEntries
      /\ next_trade_id = 1 /\ next_event_sequence = 1
      /\ last_applied_event_sequence = 0 /\ projected_orders = NoEntries /\ trades = <<>>
      /\ book = [instrument_id |-> NoInstrument, bids |-> NoEntries, asks |-> NoEntries]
    BY FeedAssumption DEF FeedInit, Init, ProjectionInit
<1>2. IInv
    BY InitStep DEF FeedInit
<1>3. DOMAIN NoEntries = {} /\ Visible(NoEntries) = NoEntries
    BY DEF NoEntries, Visible
<1>4. IdsOK
    BY <1>1, <1>3 DEF IdsOK
<1>5. event_log \in Seq(Event)
    BY <1>1, EmptySeq
<1>6. Emitted = <<>> /\ Len(<<>>) = 0
    BY <1>1, <1>5, ConcatEmptySeq DEF Emitted
<1>7. \A side : PublicLevels(NoEntries, side) = NoEntries
    BY <1>3 DEF PublicLevels, NoEntries
<1> DEFINE h == [k \in {0} |-> NoEntries]
           c == [k \in {0} |-> 0]
<1>8. h[0] = NoEntries /\ c[0] = 0 /\ 0..0 = {0} /\ 1..0 = {}
    OBVIOUS
<1> HIDE DEF h, c
<1>9. History(h, c, Emitted)
    BY <1>3, <1>6, <1>8 DEF History, Uncrossed
<1>10. EngineOK(h, c)
    BY <1>1, <1>3, <1>6, <1>8 DEF EngineOK
<1>11. ConsumerOK(h, c)
  <2>1. TapeOK(event_log, trades, 0)
      BY <1>1, <1>6, <1>8 DEF TapeOK
  <2>2. trades \in Seq(Trade)
      BY <1>1, EmptySeq
  <2> QED BY <1>1, <1>3, <1>6, <1>7, <1>8, <2>1, <2>2 DEF ConsumerOK
<1> QED BY <1>2, <1>4, <1>5, <1>9, <1>10, <1>11 DEF FeedInv

\* What was emitted begins with the log, and goes on beginning with it.
LEMMA LogIsPrefix ==
    ASSUME IInv, event_log \in Seq(Event)
    PROVE  /\ Emitted \in Seq(Event)
           /\ Len(event_log) \in Nat /\ Len(Emitted) \in Nat
           /\ Len(event_log) <= Len(Emitted)
           /\ \A i \in 1..Len(event_log) : Emitted[i] = event_log[i]
<1> DEFINE rest == IF pc = "matching" THEN events ELSE <<>>
<1>1. rest \in Seq(Event)
    BY EmptySeq DEF IInv, TypeOK
<1>2. /\ event_log \o rest \in Seq(Event)
      /\ Len(event_log \o rest) = Len(event_log) + Len(rest)
      /\ \A i \in 1..Len(event_log) + Len(rest) : (event_log \o rest)[i] =
            IF i <= Len(event_log) THEN event_log[i] ELSE rest[i - Len(event_log)]
    BY <1>1, ConcatProperties
<1>3. Len(event_log) \in Nat /\ Len(rest) \in Nat
    BY <1>1, LenProperties
<1> HIDE DEF rest
<1>4. Emitted = event_log \o rest
    BY DEF Emitted, rest
<1> QED BY <1>2, <1>3, <1>4

LEMMA LogGrows ==
    ASSUME IInv, IInv', event_log \in Seq(Event), Engine
    PROVE  /\ event_log' \in Seq(Event)
           /\ Len(event_log) <= Len(event_log')
           /\ \A i \in 1..Len(event_log) : event_log'[i] = event_log[i]
<1>1. event_log' \in Seq(Event) /\ (event_log' = event_log \/ event_log' = event_log \o events')
    BY EmittedStep
<1>2. events' \in Seq(Event) /\ Len(events') \in Nat /\ Len(event_log) \in Nat
    BY LenProperties DEF IInv, TypeOK
<1>3. CASE event_log' = event_log \o events'
    BY <1>1, <1>2, <1>3, ConcatProperties
<1> QED BY <1>1, <1>2, <1>3

\* The consumer does not notice that the history goes on.
LEMMA ConsumerStays ==
    ASSUME IInv, event_log \in Seq(Event), event_log' \in Seq(Event),
           Len(event_log) <= Len(event_log'),
           \A i \in 1..Len(event_log) : event_log'[i] = event_log[i],
           UNCHANGED projvars,
           NEW h, NEW c, NEW h2, NEW c2, ConsumerOK(h, c),
           \A k \in 0..Len(event_log) : h2[k] = h[k] /\ c2[k] = c[k]
    PROVE  ConsumerOK(h2, c2)'
<1> DEFINE last == last_applied_event_sequence
<1>1. Len(event_log) \in Nat /\ Len(event_log') \in Nat
    BY LenProperties
<1>2. /\ last' = last /\ projected_orders' = projected_orders
      /\ book' = book /\ trades' = trades
    BY DEF projvars
<1>3. last \in 0..Len(event_log)
    BY DEF ConsumerOK
<1>4. last' \in 0..Len(event_log') /\ \A i \in 1..last : event_log'[i] = event_log[i]
    BY <1>1, <1>2, <1>3
<1>5. TapeOK(event_log, trades, last)
    BY DEF ConsumerOK
<1> HIDE DEF last
<1>6. TapeOK(event_log', trades, last)
    BY <1>2, <1>4, <1>5 DEF TapeOK
<1>7. projected_orders = h2[last] /\ Len(trades) = c2[last] /\ trades \in Seq(Trade)
    BY <1>3 DEF ConsumerOK, last
<1>8. ViewOK
    BY DEF ConsumerOK, ViewOK
<1>9. ViewOK'
    BY <1>2, <1>8 DEF ViewOK
<1>10. (last \in 0..Len(event_log) /\ projected_orders = h2[last] /\ Len(trades) = c2[last]
         /\ trades \in Seq(Trade))'
    BY <1>2, <1>4, <1>7
<1> QED BY <1>2, <1>6, <1>9, <1>10 DEF ConsumerOK, ViewOK, last

LEMMA EngineStep ==
    ASSUME FeedInv, Engine
    PROVE  FeedInv'
<1>1. IInv /\ IInv' /\ IdsOK /\ IdsOK' /\ event_log \in Seq(Event) /\ event_log' \in Seq(Event)
    BY NextStep, IdsStep, EmittedStep DEF FeedInv, Engine
<1>2. PICK h, c : History(h, c, Emitted) /\ EngineOK(h, c) /\ ConsumerOK(h, c)
    BY DEF FeedInv
<1> DEFINE N == Len(Emitted)
<1>3. /\ Emitted \in Seq(Event) /\ N \in Nat
      /\ Len(event_log) \in Nat /\ Len(event_log) <= N
    BY <1>1, LogIsPrefix
<1>4. /\ h[N] = Visible(active_orders)
      /\ c[N] = next_trade_id - 1 /\ c[N] \in Nat
      /\ next_event_sequence = N + 1
      /\ next_trade_id \in Nat
    BY <1>1, <1>2, <1>3 DEF EngineOK, History, IInv, TypeOK
<1>5. Uncrossed(Visible(active_orders'))
  <2>1. IInv' => Uncrossed(Visible(active_orders))'
      BY IndexUncrossed, PTL
  <2> QED BY <1>1, <2>1
<1>6. \A h2, c2 : (\A k \in 0..N : h2[k] = h[k] /\ c2[k] = c[k]) => ConsumerOK(h2, c2)'
  <2> SUFFICES ASSUME NEW h2, NEW c2, \A k \in 0..N : h2[k] = h[k] /\ c2[k] = c[k]
               PROVE  ConsumerOK(h2, c2)'
      OBVIOUS
  <2>1. \A k \in 0..Len(event_log) : h2[k] = h[k] /\ c2[k] = c[k]
      BY <1>3
  <2>2. /\ Len(event_log) <= Len(event_log')
        /\ \A i \in 1..Len(event_log) : event_log'[i] = event_log[i]
      BY <1>1, LogGrows
  <2>3. UNCHANGED projvars
      BY DEF Engine
  <2> QED BY <1>1, <1>2, <2>1, <2>2, <2>3, ConsumerStays
<1>7. ASSUME NEW e, Emits(e)
      PROVE  \E h2, c2 : /\ History(h2, c2, Emitted')
                         /\ EngineOK(h2, c2)'
                         /\ \A k \in 0..N : h2[k] = h[k] /\ c2[k] = c[k]
  <2> DEFINE n == next_trade_id' - 1
  <2>1. /\ e \in Event /\ Emitted' = Append(Emitted, e)
        /\ e.event_sequence = N + 1
        /\ next_event_sequence' = N + 2
        /\ EventFits(h[N], e, Visible(active_orders'))
        /\ n \in Nat
        /\ IF e.event_type = "TradeExecuted"
           THEN n = c[N] + 1 /\ e.trade_id = n
           ELSE n = c[N]
      BY <1>3, <1>4, <1>7 DEF Emits
  <2> HIDE DEF n
  <2>2. PICK h2, c2 : /\ History(h2, c2, Append(Emitted, e))
                      /\ h2[N + 1] = Visible(active_orders')
                      /\ c2[N + 1] = n
                      /\ \A k \in 0..N : h2[k] = h[k] /\ c2[k] = c[k]
      BY <1>2, <1>3, <1>5, <2>1, HistoryAppend
  <2>3. Len(Emitted') = N + 1
      BY <1>3, <2>1, AppendProperties
  <2>4. EngineOK(h2, c2)'
    <3>1. next_event_sequence' = Len(Emitted') + 1
        BY <1>3, <2>1, <2>3
    <3>2. Visible(active_orders)' = Visible(active_orders')
        BY DEF Visible
    <3> QED BY <2>2, <2>3, <3>1, <3>2 DEF EngineOK, n
  <2> QED BY <2>1, <2>2, <2>4
<1>8. ASSUME NEW x, NEW e, EmitsBoth(x, e)
      PROVE  \E h2, c2 : /\ History(h2, c2, Emitted')
                         /\ EngineOK(h2, c2)'
                         /\ \A k \in 0..N : h2[k] = h[k] /\ c2[k] = c[k]
  <2> DEFINE log == Append(Emitted, x)
             after == Visible(active_orders')
  <2>1. /\ x \in Event /\ e \in Event /\ Emitted' = Append(log, e)
        /\ x.event_sequence = N + 1 /\ e.event_sequence = N + 2
        /\ next_event_sequence' = N + 3
        /\ x.event_type = "OrderCancelled" /\ e.event_type = "OrderAccepted"
        /\ EventFits(h[N], x, after)
        /\ next_trade_id' = next_trade_id
      BY <1>3, <1>4, <1>8 DEF EmitsBoth
  <2>2. log \in Seq(Event) /\ Len(log) = N + 1
      BY <1>3, <2>1, AppendProperties
  <2>3. EventFits(after, e, after)
      BY <2>1 DEF EventFits
  <2> HIDE DEF after
  <2>4. Uncrossed(after)
      BY <1>5 DEF after
  <2>5. PICK h1, c1 : /\ History(h1, c1, log)
                      /\ h1[N + 1] = after
                      /\ c1[N + 1] = c[N]
                      /\ \A k \in 0..N : h1[k] = h[k] /\ c1[k] = c[k]
      BY <1>2, <1>3, <1>4, <2>1, <2>4, HistoryAppend
  <2> HIDE DEF log
  <2>6. /\ e.event_sequence = Len(log) + 1
        /\ EventFits(h1[Len(log)], e, after)
        /\ c1[Len(log)] = c[N] /\ e.event_type # "TradeExecuted"
      BY <1>3, <2>1, <2>2, <2>3, <2>5
  <2>7. PICK h2, c2 : /\ History(h2, c2, Append(log, e))
                      /\ h2[Len(log) + 1] = after
                      /\ c2[Len(log) + 1] = c[N]
                      /\ \A k \in 0..Len(log) : h2[k] = h1[k] /\ c2[k] = c1[k]
    <3> DEFINE m == c[N]
    <3>1. m \in Nat
        BY <1>4
    <3>2. e \in Event
        BY <2>1
    <3> HIDE DEF m
    <3>3. IF e.event_type = "TradeExecuted"
          THEN m = c1[Len(log)] + 1 /\ e.trade_id = m
          ELSE m = c1[Len(log)]
        BY <2>6 DEF m
    <3>4. \E h2, c2 : /\ History(h2, c2, Append(log, e))
                      /\ h2[Len(log) + 1] = after
                      /\ c2[Len(log) + 1] = m
                      /\ \A k \in 0..Len(log) : h2[k] = h1[k] /\ c2[k] = c1[k]
        BY <2>2, <2>4, <2>5, <2>6, <3>1, <3>2, <3>3, HistoryAppend
    <3> QED BY <3>4 DEF m
  <2>8. Len(Emitted') = Len(log) + 1
      BY <2>1, <2>2, AppendProperties
  <2>9. EngineOK(h2, c2)'
    <3>1. next_event_sequence' = Len(Emitted') + 1
        BY <1>3, <2>1, <2>2, <2>8
    <3>2. Visible(active_orders)' = after
        BY DEF Visible, after
    <3> QED BY <1>4, <2>1, <2>7, <2>8, <3>1, <3>2 DEF EngineOK
  <2>10. \A k \in 0..N : k \in 0..Len(log)
      BY <1>3, <2>2
  <2> QED BY <2>1, <2>5, <2>7, <2>9, <2>10
<1>9. \E h2, c2 : /\ History(h2, c2, Emitted')
                  /\ EngineOK(h2, c2)'
                  /\ \A k \in 0..N : h2[k] = h[k] /\ c2[k] = c[k]
    BY <1>1, <1>7, <1>8, EngineEmits
<1>10. PICK h2, c2 : History(h2, c2, Emitted') /\ EngineOK(h2, c2)' /\ ConsumerOK(h2, c2)'
    BY <1>6, <1>9
<1>11. (History(h2, c2, Emitted) /\ EngineOK(h2, c2) /\ ConsumerOK(h2, c2))'
    BY <1>10 DEF History
<1> QED BY <1>1, <1>11 DEF FeedInv

-----------------------------------------------------------------------------
\* The steps of the consumer.

\* The next event in sequence is the next one of the log, and fits the index
\* that the consumer holds.
LEMMA NextEventFits ==
    ASSUME NEW h, NEW c, IInv, event_log \in Seq(Event), History(h, c, Emitted),
           ConsumerOK(h, c),
           NEW i \in 1..Len(event_log), InSequence(event_log[i])
    PROVE  LET e == event_log[i]
           IN /\ i = last_applied_event_sequence + 1
              /\ e \in Event /\ e.event_sequence = i
              /\ EventFits(projected_orders, e, h[i])
              /\ IF e.event_type = "TradeExecuted"
                 THEN c[i] = Len(trades) + 1 /\ e.trade_id = c[i]
                 ELSE c[i] = Len(trades)
<1> DEFINE last == last_applied_event_sequence
<1>1. /\ Len(event_log) \in Nat /\ Len(Emitted) \in Nat
      /\ Len(event_log) <= Len(Emitted) /\ Emitted[i] = event_log[i]
    BY LogIsPrefix
<1>2. /\ last \in 0..Len(event_log) /\ projected_orders = h[last]
      /\ Len(trades) = c[last]
    BY DEF ConsumerOK
<1>3. i \in 1..Len(Emitted)
    BY <1>1
<1>4. /\ event_log[i].event_sequence = i
      /\ EventFits(h[i - 1], event_log[i], h[i])
      /\ IF event_log[i].event_type = "TradeExecuted"
         THEN c[i] = c[i - 1] + 1 /\ event_log[i].trade_id = c[i]
         ELSE c[i] = c[i - 1]
    BY <1>1, <1>3 DEF History
<1>5. i = last + 1
    BY <1>4 DEF InSequence
<1>6. i - 1 = last
    BY <1>2, <1>5
<1>7. event_log[i] \in Event
    BY ElementOfSeq
<1> QED BY <1>2, <1>4, <1>5, <1>6, <1>7

\* An event that fits is one that the handlers accept.
LEMMA FittingAccepted ==
    ASSUME NEW e, NEW after, InSequence(e), EventFits(projected_orders, e, after)
    PROVE  Accepts(e)
BY DEF EventFits, Accepts, ConsumesProjectedOrder

\* What the handlers make of an event that fits.
LEMMA ApplyFits ==
    ASSUME NEW e, NEW after, EventFits(projected_orders, e, after), apply(e)
    PROVE  /\ projected_orders' = after
           /\ \/ rebuild_book(after)
              \/ book' = book /\ after = projected_orders
           /\ last_applied_event_sequence' = e.event_sequence
           /\ IF e.event_type = "TradeExecuted"
              THEN trades' = Append(trades, [trade_id |-> e.trade_id,
                                             instrument_id |-> e.instrument_id,
                                             incoming_order_id |-> e.order_id,
                                             resting_order_id |-> e.contra_order_id,
                                             aggressor_side |-> e.side,
                                             price_ticks |-> e.price_ticks,
                                             quantity_lots |-> e.quantity_lots])
              ELSE trades' = trades
<1>1. last_applied_event_sequence' = e.event_sequence
    BY DEF apply
<1>2. CASE apply_ignored(e)
    BY <1>1, <1>2 DEF apply_ignored, EventFits
<1>3. CASE apply_rested(e)
    BY <1>1, <1>3 DEF apply_rested, EventFits, rebuild_book
<1>4. CASE apply_trade(e)
    BY <1>1, <1>4 DEF apply_trade, EventFits, rebuild_book
<1>5. CASE apply_filled(e)
    BY <1>1, <1>5 DEF apply_filled, EventFits
<1>6. CASE apply_cancelled(e)
    BY <1>1, <1>6 DEF apply_cancelled, remove_order, EventFits, rebuild_book
<1> QED BY <1>2, <1>3, <1>4, <1>5, <1>6 DEF apply

LEMMA TapeGrows ==
    ASSUME NEW log, NEW tape \in Seq(Trade), NEW n \in Nat, TapeOK(log, tape, n),
           NEW t \in Trade, IsEntry(t, log[n + 1]), log[n + 1].event_type = "TradeExecuted",
           log[n + 1].trade_id = Len(tape) + 1
    PROVE  TapeOK(log, Append(tape, t), n + 1)
<1> DEFINE tape2 == Append(tape, t)
<1>1. /\ Len(tape) \in Nat /\ Len(tape2) = Len(tape) + 1
      /\ \A k \in 1..Len(tape) : tape2[k] = tape[k]
      /\ tape2[Len(tape) + 1] = t
    BY AppendProperties, LenProperties
<1> HIDE DEF tape2
<1>2. ASSUME NEW i \in 1..(n + 1), log[i].event_type = "TradeExecuted"
      PROVE  log[i].trade_id \in 1..Len(tape2) /\ IsEntry(tape2[log[i].trade_id], log[i])
  <2>1. CASE i = n + 1
      BY <1>1, <2>1
  <2>2. CASE i # n + 1
    <3>1. i \in 1..n
        BY <2>2
    <3>2. log[i].trade_id \in 1..Len(tape) /\ IsEntry(tape[log[i].trade_id], log[i])
        BY <1>2, <3>1 DEF TapeOK
    <3> QED BY <1>1, <3>2
  <2> QED BY <2>1, <2>2
<1>3. ASSUME NEW k \in 1..Len(tape2)
      PROVE  \E i \in 1..(n + 1) :
                log[i].event_type = "TradeExecuted" /\ log[i].trade_id = k
  <2>1. CASE k = Len(tape) + 1
      BY <2>1
  <2>2. CASE k # Len(tape) + 1
    <3>1. k \in 1..Len(tape)
        BY <1>1, <2>2
    <3>2. PICK i \in 1..n : log[i].event_type = "TradeExecuted" /\ log[i].trade_id = k
        BY <3>1 DEF TapeOK
    <3>3. i \in 1..(n + 1)
        OBVIOUS
    <3> QED BY <3>2, <3>3
  <2> QED BY <2>1, <2>2
<1> QED BY <1>2, <1>3 DEF TapeOK, tape2

LEMMA TapeStays ==
    ASSUME NEW log, NEW tape, NEW n \in Nat, TapeOK(log, tape, n),
           log[n + 1].event_type # "TradeExecuted"
    PROVE  TapeOK(log, tape, n + 1)
<1>1. \A i \in 1..(n + 1) : i \in 1..n \/ i = n + 1
    OBVIOUS
<1>2. \A i \in 1..n : i \in 1..(n + 1)
    OBVIOUS
<1> QED BY <1>1, <1>2 DEF TapeOK

LEMMA ConsumeStep ==
    ASSUME FeedInv, NEW i \in DOMAIN event_log, Consume(i)
    PROVE  FeedInv'
<1> DEFINE e == event_log[i]
           last == last_applied_event_sequence
           t == [trade_id |-> e.trade_id,
                 instrument_id |-> e.instrument_id,
                 incoming_order_id |-> e.order_id,
                 resting_order_id |-> e.contra_order_id,
                 aggressor_side |-> e.side,
                 price_ticks |-> e.price_ticks,
                 quantity_lots |-> e.quantity_lots]
<1>1. /\ IInv /\ IdsOK /\ event_log \in Seq(Event)
      /\ UNCHANGED vars /\ event_log' = event_log
    BY DEF FeedInv, Consume
<1>2. IInv' /\ IdsOK' /\ Emitted' = Emitted
    BY <1>1, NextStep DEF vars, IdsOK, Emitted
<1>3. PICK h, c : History(h, c, Emitted) /\ EngineOK(h, c) /\ ConsumerOK(h, c)
    BY DEF FeedInv
<1>4. i \in 1..Len(event_log) /\ Len(event_log) \in Nat
    BY <1>1, LenProperties
<1>5. apply(e) /\ InSequence(e)
    BY DEF Consume, apply
<1>6. /\ i = last + 1
      /\ e \in Event /\ e.event_sequence = i
      /\ EventFits(projected_orders, e, h[i])
      /\ IF e.event_type = "TradeExecuted"
         THEN c[i] = Len(trades) + 1 /\ e.trade_id = c[i]
         ELSE c[i] = Len(trades)
    BY <1>1, <1>3, <1>4, <1>5, NextEventFits
<1> HIDE DEF e
<1>7. /\ projected_orders' = h[i]
      /\ \/ rebuild_book(h[i])
         \/ book' = book /\ h[i] = projected_orders
      /\ last' = e.event_sequence
      /\ IF e.event_type = "TradeExecuted" THEN trades' = Append(trades, t)
                                           ELSE trades' = trades
    BY <1>5, <1>6, ApplyFits
<1>8. ViewOK'
  <2>1. CASE rebuild_book(h[i])
    <3>1. PICK j \in IF DOMAIN h[i] = {} THEN {NoInstrument}
                     ELSE {h[i][id].instrument_id : id \in DOMAIN h[i]} :
              book' = [instrument_id |-> j,
                       bids |-> PublicLevels(h[i], "Buy"),
                       asks |-> PublicLevels(h[i], "Sell")]
        BY <2>1 DEF rebuild_book
    <3>2. /\ book'.bids = PublicLevels(projected_orders', "Buy")
          /\ book'.asks = PublicLevels(projected_orders', "Sell")
          /\ book'.instrument_id = j
        BY <1>7, <3>1
    <3> QED BY <1>7, <3>1, <3>2 DEF ViewOK
  <2>2. CASE book' = book /\ h[i] = projected_orders
    <3>1. ViewOK
        BY <1>3 DEF ConsumerOK, ViewOK
    <3> QED BY <1>7, <2>2, <3>1 DEF ViewOK
  <2> QED BY <1>7, <2>1, <2>2
<1>9. /\ last \in Nat /\ trades \in Seq(Trade) /\ Len(trades) \in Nat
      /\ TapeOK(event_log, trades, last)
    BY <1>3, <1>4, LenProperties DEF ConsumerOK
<1>10. trades' \in Seq(Trade) /\ Len(trades') = c[i] /\ TapeOK(event_log, trades', i)
  <2>1. CASE e.event_type = "TradeExecuted"
    <3>1. t \in Trade
        BY <1>6 DEF Event, Trade
    <3>2. IsEntry(t, e)
        BY DEF IsEntry
    <3> HIDE DEF t
    <3>3. trades' = Append(trades, t) /\ e.trade_id = Len(trades) + 1
        BY <1>6, <1>7, <2>1
    <3>4. trades' \in Seq(Trade) /\ Len(trades') = c[i]
        BY <1>6, <1>9, <2>1, <3>1, <3>3, AppendProperties
    <3>5. TapeOK(event_log, trades', last + 1)
        BY <1>6, <1>9, <2>1, <3>1, <3>2, <3>3, TapeGrows DEF e
    <3> QED BY <1>6, <3>4, <3>5
  <2>2. CASE e.event_type # "TradeExecuted"
    <3>1. trades' = trades /\ Len(trades) = c[i]
        BY <1>6, <1>7, <2>2
    <3>2. TapeOK(event_log, trades, last + 1)
        BY <1>6, <1>9, <2>2, TapeStays DEF e
    <3> QED BY <1>6, <1>9, <3>1, <3>2
  <2> QED BY <2>1, <2>2
<1>11. last' = i
    BY <1>6, <1>7
<1>12. ConsumerOK(h, c)'
    BY <1>1, <1>4, <1>7, <1>8, <1>10, <1>11 DEF ConsumerOK, ViewOK
<1>13. EngineOK(h, c)'
    BY <1>1, <1>2, <1>3 DEF EngineOK, vars, Visible
<1>14. History(h, c, Emitted)'
    BY <1>2, <1>3
<1> QED BY <1>1, <1>2, <1>12, <1>13, <1>14 DEF FeedInv

LEMMA FeedStutter ==
    ASSUME FeedInv, UNCHANGED feedvars
    PROVE  FeedInv'
<1>1. /\ UNCHANGED vars /\ UNCHANGED projvars /\ event_log' = event_log
      /\ IInv /\ IdsOK /\ event_log \in Seq(Event)
    BY DEF FeedInv, feedvars
<1>2. IInv' /\ IdsOK' /\ Emitted' = Emitted
    BY <1>1, NextStep DEF vars, IdsOK, Emitted
<1>3. PICK h, c : History(h, c, Emitted) /\ EngineOK(h, c) /\ ConsumerOK(h, c)
    BY DEF FeedInv
<1>4. History(h, c, Emitted)'
    BY <1>2, <1>3
<1>5. EngineOK(h, c)'
    BY <1>1, <1>2, <1>3 DEF EngineOK, vars, Visible
<1>6. ConsumerOK(h, c)'
    BY <1>1, <1>3, ConsumerStays
<1> QED BY <1>1, <1>2, <1>4, <1>5, <1>6 DEF FeedInv

LEMMA FeedInvAlways == FeedSpec => []FeedInv
<1>1. FeedInv /\ [FeedNext]_feedvars => FeedInv'
    BY EngineStep, ConsumeStep, FeedStutter DEF FeedNext
<1> QED BY FeedInitStep, <1>1, PTL DEF FeedSpec

\* A set with 0 and the successors of its members has every natural number.
LEMMA SetInduction ==
    ASSUME NEW T, 0 \in T, \A n \in Nat : n \in T => n + 1 \in T
    PROVE  Nat \subseteq T
<1> SUFFICES ASSUME NEW n \in Nat, n \notin T PROVE FALSE
    OBVIOUS
<1> DEFINE A == {x \in 0..n : x \in T}
           B == A \ {0}
           f == [x \in A |-> x + 1]
<1>1. IsFiniteSet(A) /\ 0 \in A
  <2>1. IsFiniteSet(0..n)
      BY FS_Interval
  <2> QED BY <2>1, FS_Subset
<1>2. f \in [A -> B]
  <2> SUFFICES ASSUME NEW x \in A PROVE x + 1 \in B
      OBVIOUS
  <2>1. x # n
      OBVIOUS
  <2>2. x + 1 \in 0..n /\ x + 1 \in T /\ x + 1 # 0
      BY <2>1
  <2> QED BY <2>2
<1>3. IsInjective(f)
    BY DEF IsInjective
<1>4. IsFiniteSet(B) /\ Cardinality(B) = Cardinality(A) - 1
    BY <1>1, FS_RemoveElement
<1>5. Cardinality(A) \in Nat
    BY <1>1, FS_CardinalityType
<1> HIDE DEF A, B, f
<1>6. f \in Injection(A, B)
    BY <1>2, <1>3 DEF Injection
<1>7. Cardinality(A) <= Cardinality(B)
    BY <1>1, <1>4, <1>6, FS_Injection
<1> QED BY <1>4, <1>5, <1>7


-----------------------------------------------------------------------------
\* Sums of quantities: they do not depend on the order in which they are added.

\* What the entries of f at the places of a set have left, together.
Total(f, S) == MapThenSumSet(LAMBDA x : f[x].remaining, S)

Chosen(s) == CHOOSE x \in s : TRUE

\* The recursion by which MapThenSumSet adds up.
Adds(w, f, S) ==
    w = [s \in SUBSET S |->
           IF s = {} THEN 0 ELSE f[Chosen(s)].remaining + w[s \ {Chosen(s)}]]

LEMMA ChosenMember ==
    ASSUME NEW s, s # {}, IsFiniteSet(s)
    PROVE  /\ Chosen(s) \in s
           /\ IsFiniteSet(s \ {Chosen(s)})
           /\ Cardinality(s) \in Nat /\ Cardinality(s) # 0
           /\ Cardinality(s \ {Chosen(s)}) = Cardinality(s) - 1
<1>1. Chosen(s) \in s
    BY DEF Chosen
<1> QED BY <1>1, FS_RemoveElement, FS_CardinalityType, FS_EmptySet

LEMMA AddsExists ==
    ASSUME NEW f, NEW S, IsFiniteSet(S)
    PROVE  \E w : Adds(w, f, S)
<1> DEFINE Part(w, s) ==
               IF s = {} THEN 0 ELSE f[Chosen(s)].remaining + w[s \ {Chosen(s)}]
           Upto(n, w) == w = [s \in SUBSET S |->
                                IF Cardinality(s) <= n THEN Part(w, s) ELSE 0]
           T == {n \in Nat : \E w : Upto(n, w)}
<1>1. ASSUME NEW s \in SUBSET S
      PROVE  /\ Cardinality(s) \in Nat
             /\ Cardinality(s) <= 0 => s = {}
             /\ s # {} => /\ s \ {Chosen(s)} \in SUBSET S
                          /\ Cardinality(s \ {Chosen(s)}) = Cardinality(s) - 1
  <2>1. IsFiniteSet(s)
      BY FS_Subset
  <2>2. Cardinality(s) \in Nat /\ (Cardinality(s) = 0 <=> s = {})
      BY <2>1, FS_CardinalityType, FS_EmptySet
  <2>3. Cardinality(s) <= 0 => s = {}
      BY <2>2
  <2> QED BY <2>1, <2>2, <2>3, ChosenMember
<1>2. 0 \in T
  <2> DEFINE w == [s \in SUBSET S |-> 0]
  <2>1. ASSUME NEW s \in SUBSET S
        PROVE  (IF Cardinality(s) <= 0 THEN Part(w, s) ELSE 0) = 0
    <3> HIDE DEF w
    <3> QED BY <1>1
  <2>2. Upto(0, w)
    <3> HIDE DEF Part
    <3> QED BY <2>1
  <2> QED BY <2>2
<1>3. ASSUME NEW n \in Nat, n \in T PROVE n + 1 \in T
  <2>1. PICK w : Upto(n, w)
      BY <1>3
  <2> DEFINE v == [s \in SUBSET S |->
                     IF Cardinality(s) <= n + 1 THEN Part(w, s) ELSE 0]
  <2>2. ASSUME NEW s \in SUBSET S, Cardinality(s) <= n + 1
        PROVE  Part(w, s) = Part(v, s)
    <3>1. CASE s = {}
        BY <3>1
    <3>2. CASE s # {}
      <4> DEFINE t == s \ {Chosen(s)}
      <4>1. t \in SUBSET S /\ Cardinality(t) = Cardinality(s) - 1
            /\ Cardinality(s) \in Nat
          BY <1>1, <3>2
      <4>2. Cardinality(t) <= n /\ Cardinality(t) <= n + 1
        <5> HIDE DEF t
        <5> QED BY <2>2, <4>1
      <4>3. v[t] = Part(w, t)
        <5> HIDE DEF t, Part
        <5> QED BY <4>1, <4>2
      <4>4. w[t] = Part(w, t)
        <5> HIDE DEF t, Part, v
        <5> QED BY <2>1, <4>1, <4>2
      <4> HIDE DEF v
      <4> QED BY <3>2, <4>3, <4>4
    <3> QED BY <3>1, <3>2
  <2>3. v = [s \in SUBSET S |->
               IF Cardinality(s) <= n + 1 THEN Part(v, s) ELSE 0]
    <3> HIDE DEF Part
    <3> QED BY <2>2
  <2>4. Upto(n + 1, v)
    <3> HIDE DEF v, Part
    <3> QED BY <2>3
  <2> HIDE DEF Upto, v
  <2> QED BY <2>4
<1>4. Cardinality(S) \in T
  <2>1. Cardinality(S) \in Nat
      BY FS_CardinalityType
  <2> HIDE DEF T
  <2> QED BY <1>2, <1>3, <2>1, SetInduction
<1>5. PICK w : Upto(Cardinality(S), w)
    BY <1>4
<1>6. ASSUME NEW s \in SUBSET S PROVE Cardinality(s) <= Cardinality(S)
    BY FS_Subset
<1>7. w = [s \in SUBSET S |-> Part(w, s)]
  <2> HIDE DEF Part
  <2> QED BY <1>5, <1>6
<1> QED BY <1>7 DEF Adds

LEMMA AddsUnique ==
    ASSUME NEW f, NEW S, NEW R, NEW w, NEW v, Adds(w, f, S), Adds(v, f, R),
           NEW s0, s0 \subseteq S, s0 \subseteq R, IsFiniteSet(s0)
    PROVE  w[s0] = v[s0]
<1> DEFINE T == {n \in Nat : \A s \in SUBSET s0 : Cardinality(s) = n => w[s] = v[s]}
<1>1. ASSUME NEW s \in SUBSET s0
      PROVE  /\ Cardinality(s) \in Nat
             /\ Cardinality(s) = 0 => s = {}
             /\ s # {} => /\ s \ {Chosen(s)} \in SUBSET s0
                          /\ Cardinality(s \ {Chosen(s)}) = Cardinality(s) - 1
             /\ s = {} => w[s] = 0 /\ v[s] = 0
             /\ s # {} => /\ w[s] = f[Chosen(s)].remaining + w[s \ {Chosen(s)}]
                          /\ v[s] = f[Chosen(s)].remaining + v[s \ {Chosen(s)}]
  <2>1. IsFiniteSet(s)
      BY FS_Subset
  <2>2. Cardinality(s) \in Nat /\ (Cardinality(s) = 0 <=> s = {})
      BY <2>1, FS_CardinalityType, FS_EmptySet
  <2>3. s \in SUBSET S /\ s \in SUBSET R
      OBVIOUS
  <2>4. /\ s = {} => w[s] = 0 /\ v[s] = 0
        /\ s # {} => /\ w[s] = f[Chosen(s)].remaining + w[s \ {Chosen(s)}]
                     /\ v[s] = f[Chosen(s)].remaining + v[s \ {Chosen(s)}]
      BY <2>3 DEF Adds
  <2> QED BY <2>1, <2>2, <2>4, ChosenMember
<1>2. 0 \in T
    BY <1>1
<1>3. ASSUME NEW n \in Nat, n \in T PROVE n + 1 \in T
  <2> SUFFICES ASSUME NEW s \in SUBSET s0, Cardinality(s) = n + 1
               PROVE  w[s] = v[s]
      OBVIOUS
  <2> DEFINE t == s \ {Chosen(s)}
  <2>1. CASE s = {}
      BY <1>1, <2>1
  <2>2. CASE s # {}
    <3>1. t \in SUBSET s0 /\ Cardinality(t) = n
        BY <1>1, <2>2
    <3>2. w[t] = v[t]
        BY <1>3, <3>1
    <3> QED BY <1>1, <2>2, <3>2
  <2> QED BY <2>1, <2>2
<1>4. Cardinality(s0) \in T
  <2>1. Cardinality(s0) \in Nat
      BY FS_CardinalityType
  <2> HIDE DEF T
  <2> QED BY <1>2, <1>3, <2>1, SetInduction
<1> QED BY <1>4

LEMMA TotalOf ==
    ASSUME NEW f, NEW S, IsFiniteSet(S), NEW R, S \subseteq R, NEW w, Adds(w, f, R)
    PROVE  Total(f, S) = w[S]
<1> DEFINE a == CHOOSE v : Adds(v, f, S)
<1>1. Total(f, S) = a[S]
    BY DEF Total, MapThenSumSet, MapThenFoldSet, Adds, Chosen
<1>2. Adds(a, f, S)
    BY AddsExists
<1> HIDE DEF a
<1> QED BY <1>1, <1>2, AddsUnique

\* The element that MapThenSumSet takes first.
LEMMA TotalChosen ==
    ASSUME NEW f, NEW S, IsFiniteSet(S)
    PROVE  /\ S = {} => Total(f, S) = 0
           /\ S # {} => Total(f, S) =
                          f[Chosen(S)].remaining + Total(f, S \ {Chosen(S)})
<1>1. PICK w : Adds(w, f, S)
    BY AddsExists
<1>2. Total(f, S) = w[S]
    BY <1>1, TotalOf
<1>3. IsFiniteSet(S \ {Chosen(S)}) /\ S \ {Chosen(S)} \subseteq S
    BY FS_Subset
<1>4. Total(f, S \ {Chosen(S)}) = w[S \ {Chosen(S)}]
    BY <1>1, <1>3, TotalOf
<1>5. w[S] = IF S = {} THEN 0 ELSE f[Chosen(S)].remaining + w[S \ {Chosen(S)}]
    BY <1>1 DEF Adds
<1> QED BY <1>2, <1>4, <1>5

LEMMA TotalNat ==
    ASSUME NEW f, NEW S, IsFiniteSet(S), \A x \in S : f[x].remaining \in Nat
    PROVE  Total(f, S) \in Nat
<1> DEFINE T == {n \in Nat : \A s \in SUBSET S :
                    Cardinality(s) = n => Total(f, s) \in Nat}
<1>1. ASSUME NEW s \in SUBSET S
      PROVE  /\ IsFiniteSet(s) /\ Cardinality(s) \in Nat
             /\ Cardinality(s) = 0 <=> s = {}
    BY FS_Subset, FS_CardinalityType, FS_EmptySet
<1>2. 0 \in T
    BY <1>1, TotalChosen
<1>3. ASSUME NEW n \in Nat, n \in T PROVE n + 1 \in T
  <2> SUFFICES ASSUME NEW s \in SUBSET S, Cardinality(s) = n + 1
               PROVE  Total(f, s) \in Nat
      OBVIOUS
  <2> DEFINE c == Chosen(s)
  <2>1. IsFiniteSet(s) /\ s # {}
      BY <1>1
  <2>2. c \in s /\ Cardinality(s \ {c}) = n /\ s \ {c} \in SUBSET S
    <3>1. c \in s /\ Cardinality(s \ {c}) = Cardinality(s) - 1
        BY <2>1, ChosenMember
    <3> HIDE DEF c
    <3> QED BY <3>1
  <2>3. Total(f, s) = f[c].remaining + Total(f, s \ {c})
      BY <2>1, TotalChosen
  <2> HIDE DEF c
  <2>4. Total(f, s \ {c}) \in Nat
      BY <1>3, <2>2
  <2> QED BY <2>2, <2>3, <2>4
<1>4. Cardinality(S) \in T
  <2>1. Cardinality(S) \in Nat
      BY FS_CardinalityType
  <2> HIDE DEF T
  <2> QED BY <1>2, <1>3, <2>1, SetInduction
<1> QED BY <1>4

\* Any element can be taken first.
LEMMA TotalRemove ==
    ASSUME NEW f, NEW S, IsFiniteSet(S), \A x \in S : f[x].remaining \in Nat
    PROVE  \A x \in S : Total(f, S) = f[x].remaining + Total(f, S \ {x})
<1> DEFINE Good(s) == /\ Total(f, s) \in Nat
                      /\ \A x \in s :
                            Total(f, s) = f[x].remaining + Total(f, s \ {x})
           T == {n \in Nat : \A s \in SUBSET S : Cardinality(s) = n => Good(s)}
<1>1. ASSUME NEW s \in SUBSET S
      PROVE  IsFiniteSet(s) /\ Cardinality(s) \in Nat /\ (Cardinality(s) = 0 => s = {})
    BY FS_Subset, FS_CardinalityType, FS_EmptySet
<1>2. 0 \in T
  <2> SUFFICES ASSUME NEW s \in SUBSET S, Cardinality(s) = 0 PROVE Good(s)
      OBVIOUS
  <2>1. s = {} /\ IsFiniteSet(s)
      BY <1>1
  <2>2. Total(f, s) = 0
      BY <2>1, TotalChosen
  <2> QED BY <2>1, <2>2
<1>3. ASSUME NEW n \in Nat, n \in T PROVE n + 1 \in T
  <2> SUFFICES ASSUME NEW s \in SUBSET S, Cardinality(s) = n + 1 PROVE Good(s)
      OBVIOUS
  <2>0. \A r \in SUBSET S : Cardinality(r) = n => Good(r)
      BY <1>3
  <2> DEFINE c == Chosen(s)
  <2>1. IsFiniteSet(s) /\ s # {}
      BY <1>1, FS_EmptySet
  <2>2. /\ c \in s /\ s \ {c} \in SUBSET S
        /\ Cardinality(s \ {c}) = n
        /\ Total(f, s) = f[c].remaining + Total(f, s \ {c})
        /\ f[c].remaining \in Nat
    <3>1. c \in s /\ Cardinality(s \ {c}) = Cardinality(s) - 1
        BY <2>1, ChosenMember
    <3>2. Total(f, s) = f[c].remaining + Total(f, s \ {c})
        BY <2>1, TotalChosen
    <3> HIDE DEF c
    <3> QED BY <3>1, <3>2
  <2> HIDE DEF c
  <2>3. Good(s \ {c})
    <3> HIDE DEF Good
    <3> QED BY <2>0, <2>2
  <2>4. Total(f, s) \in Nat
      BY <2>2, <2>3
  <2>5. ASSUME NEW x \in s PROVE Total(f, s) = f[x].remaining + Total(f, s \ {x})
    <3>1. CASE x = c
        BY <2>2, <3>1
    <3>2. CASE x # c
      <4> DEFINE r == s \ {x}
                 q == (s \ {c}) \ {x}
      <4>1. /\ x \in s \ {c} /\ c \in r /\ r \in SUBSET S /\ q = r \ {c}
            /\ f[x].remaining \in Nat /\ q \in SUBSET S
          BY <2>2, <3>2
      <4>2. Cardinality(r) = n
        <5>1. Cardinality(s \ {x}) = Cardinality(s) - 1
            BY <2>1, FS_RemoveElement
        <5> QED BY <5>1
      <4>3. Good(r)
        <5> HIDE DEF Good, r
        <5> QED BY <2>0, <4>1, <4>2
      <4>4. Total(f, r) = f[c].remaining + Total(f, q)
        <5> HIDE DEF r, q
        <5> QED BY <4>1, <4>3
      <4>5. Total(f, s \ {c}) = f[x].remaining + Total(f, q)
          BY <2>3, <4>1
      <4>6. Total(f, s \ {c}) \in Nat /\ Total(f, r) \in Nat
          BY <2>3, <4>3
      <4>7. Total(f, q) \in Nat
        <5>1. IsFiniteSet(q) /\ \A z \in q : f[z].remaining \in Nat
            BY <4>1, <1>1
        <5> HIDE DEF q
        <5> QED BY <5>1, TotalNat
      <4> HIDE DEF r, q
      <4> QED BY <2>2, <4>1, <4>4, <4>5, <4>6, <4>7 DEF r
    <3> QED BY <3>1, <3>2
  <2> QED BY <2>4, <2>5
<1>4. Cardinality(S) \in T
  <2>1. Cardinality(S) \in Nat
      BY FS_CardinalityType
  <2> HIDE DEF T
  <2> QED BY <1>2, <1>3, <2>1, SetInduction
<1> QED BY <1>4

\* Two sets of entries with the same quantities, one for one.
LEMMA TotalSame ==
    ASSUME NEW f, NEW S, IsFiniteSet(S), NEW g, NEW R, NEW b,
           \A x \in S : f[x].remaining \in Nat,
           \A x \in S : b[x] \in R /\ g[b[x]].remaining = f[x].remaining,
           \A x, y \in S : b[x] = b[y] => x = y,
           \A y \in R : \E x \in S : b[x] = y
    PROVE  Total(g, R) = Total(f, S)
<1> DEFINE Onto(s, r) == /\ \A x \in s : b[x] \in r
                         /\ \A y \in r : \E x \in s : b[x] = y
           T == {n \in Nat : \A s \in SUBSET S : \A r \in SUBSET R :
                    (Cardinality(s) = n /\ Onto(s, r)) =>
                       IsFiniteSet(r) /\ Total(g, r) = Total(f, s)}
<1>1. ASSUME NEW s \in SUBSET S
      PROVE  /\ IsFiniteSet(s) /\ Cardinality(s) \in Nat
             /\ Cardinality(s) = 0 <=> s = {}
    BY FS_Subset, FS_CardinalityType, FS_EmptySet
<1>2. 0 \in T
  <2> SUFFICES ASSUME NEW s \in SUBSET S, NEW r \in SUBSET R, Cardinality(s) = 0,
                      Onto(s, r)
               PROVE  IsFiniteSet(r) /\ Total(g, r) = Total(f, s)
      OBVIOUS
  <2>1. s = {} /\ r = {} /\ IsFiniteSet({})
      BY <1>1, FS_EmptySet
  <2> QED BY <2>1, TotalChosen
<1>3. ASSUME NEW n \in Nat, n \in T PROVE n + 1 \in T
  <2> SUFFICES ASSUME NEW s \in SUBSET S, NEW r \in SUBSET R, Cardinality(s) = n + 1,
                      Onto(s, r)
               PROVE  IsFiniteSet(r) /\ Total(g, r) = Total(f, s)
      OBVIOUS
  <2>0. \A s1 \in SUBSET S : \A r1 \in SUBSET R :
           (Cardinality(s1) = n /\ Onto(s1, r1)) =>
              IsFiniteSet(r1) /\ Total(g, r1) = Total(f, s1)
      BY <1>3
  <2>1. PICK x \in s : TRUE
      BY <1>1
  <2> DEFINE y == b[x]
             s1 == s \ {x}
             r1 == r \ {y}
  <2>2. /\ y \in r /\ s1 \in SUBSET S /\ r1 \in SUBSET R
        /\ g[y].remaining = f[x].remaining /\ f[x].remaining \in Nat
      BY <2>1
  <2>3. Onto(s1, r1)
      OBVIOUS
  <2>4. Cardinality(s1) = n
      BY <1>1, FS_RemoveElement
  <2>5. IsFiniteSet(r1) /\ Total(g, r1) = Total(f, s1)
    <3> HIDE DEF Onto, s1, r1
    <3> QED BY <2>0, <2>2, <2>3, <2>4
  <2>6. IsFiniteSet(r)
    <3>1. r = r1 \cup {y}
        BY <2>2
    <3> HIDE DEF r1, y
    <3> QED BY <2>5, <3>1, FS_AddElement
  <2>7. Total(f, s) = f[x].remaining + Total(f, s1)
      BY <1>1, TotalRemove
  <2>8. \A z \in r : g[z].remaining \in Nat
      OBVIOUS
  <2>9. Total(g, r) = g[y].remaining + Total(g, r1)
    <3> HIDE DEF y
    <3> QED BY <2>2, <2>6, <2>8, TotalRemove
  <2> HIDE DEF y, s1, r1
  <2> QED BY <2>2, <2>5, <2>6, <2>7, <2>9
<1>4. Cardinality(S) \in T
  <2>1. Cardinality(S) \in Nat
      BY FS_CardinalityType
  <2> HIDE DEF T
  <2> QED BY <1>2, <1>3, <2>1, SetInduction
<1>5. Onto(S, R)
    OBVIOUS
<1> HIDE DEF Onto
<1> QED BY <1>4, <1>5

-----------------------------------------------------------------------------
\* The levels of the public book.
\* The word holds every sum below its limit.
LEMMA Unwrapped ==
    ASSUME NEW n \in Nat, n < QuantityLimit
    PROVE  Wrapped(n) = n
<1>1. QuantityLimit \in Nat \ {0}
    BY LimitAssumption
<1> DEFINE m == 2 * QuantityLimit
           a == n + QuantityLimit
<1>2. m \in Nat \ {0} /\ a \in Nat /\ a < m
    BY <1>1
<1>3. Wrapped(n) = (a % m) - QuantityLimit
    BY DEF Wrapped
<1>4. a % m = a
  <2> HIDE DEF a, m
  <2> QED BY <1>2
<1> QED BY <1>1, <1>3, <1>4

\* The orders at rest at a price are the ones in the queue there.
LEMMA QueueIsIndexed ==
    ASSUME IInv, NEW side \in Side, NEW p \in DOMAIN levels[side]
    PROVE  LevelQuantity(Visible(active_orders), side, p)
               = Wrapped(QueuedQuantity(side, p))
           /\ QueuedQuantity(side, p) \in Nat /\ QueuedQuantity(side, p) > 0
           /\ \E id \in DOMAIN active_orders :
                 active_orders[id].side = side /\ active_orders[id].price_ticks = p
<1> DEFINE queue == levels[side][p]
           l == Len(levels[side][p])
           orders == Visible(active_orders)
           at == {id \in DOMAIN orders : orders[id].side = side
                                          /\ orders[id].price_ticks = p}
           b == [i \in 1..l |-> levels[side][p][i].order_id]
<1>1. /\ QueueOK(queue, p, side, active_orders, rested_at)
      /\ \A id \in DOMAIN active_orders :
            Indexed(levels, active_orders, rested_at, next_event_sequence, id)
    BY DEF IInv, BookOK, LevelsOK
<1>2. /\ queue \in Seq(RestingOrder) /\ l \in Nat /\ l # 0 /\ DOMAIN queue = 1..l
      /\ \A i \in 1..l : /\ queue[i] \in RestingOrder
                         /\ queue[i].side = side
                         /\ queue[i].price_ticks = p
                         /\ queue[i].remaining > 0
                         /\ queue[i].order_id \in DOMAIN active_orders
                         /\ active_orders[queue[i].order_id] = queue[i]
      /\ \A i, j \in 1..l :
            i < j => rested_at[queue[i].order_id] < rested_at[queue[j].order_id]
    BY <1>1, LenProperties, EmptySeq, ElementOfSeq DEF QueueOK
<1>3. \A i \in 1..l : queue[i].remaining \in Nat
    BY <1>2 DEF RestingOrder
<1>4. \A id \in DOMAIN active_orders : rested_at[id] \in Nat
    BY <1>1 DEF Indexed
<1>5. /\ DOMAIN orders = DOMAIN active_orders
      /\ \A id \in DOMAIN active_orders :
            /\ orders[id].side = active_orders[id].side
            /\ orders[id].price_ticks = active_orders[id].price_ticks
            /\ orders[id].remaining = active_orders[id].remaining
    BY DEF Visible
<1>6. IsFiniteSet(1..l) /\ 1 \in 1..l
  <2> HIDE DEF l
  <2> QED BY <1>2, FS_Interval
<1>7. \A i \in 1..l : b[i] \in at /\ orders[b[i]].remaining = queue[i].remaining
    BY <1>2, <1>5
<1>8. \A i, j \in 1..l : b[i] = b[j] => i = j
  <2>1. ASSUME NEW i \in 1..l, NEW j \in 1..l, b[i] = b[j], i < j PROVE FALSE
    <3>1. /\ queue[i].order_id = queue[j].order_id
          /\ queue[i].order_id \in DOMAIN active_orders
          /\ rested_at[queue[i].order_id] < rested_at[queue[j].order_id]
        BY <1>2, <2>1
    <3>2. rested_at[queue[i].order_id] \in Nat
        BY <1>4, <3>1
    <3> QED BY <3>1, <3>2
  <2>2. \A i, j \in 1..l : i = j \/ i < j \/ j < i
    <3>1. l \in Nat
        BY <1>2
    <3> HIDE DEF l
    <3> QED BY <3>1
  <2> HIDE DEF b, l
  <2> QED BY <2>1, <2>2
<1>9. \A id \in at : \E i \in 1..l : b[i] = id
  <2> SUFFICES ASSUME NEW id \in at PROVE \E i \in 1..l : b[i] = id
      OBVIOUS
  <2>1. /\ id \in DOMAIN active_orders
        /\ active_orders[id].side = side /\ active_orders[id].price_ticks = p
      BY <1>5
  <2>2. Indexed(levels, active_orders, rested_at, next_event_sequence, id)
      BY <1>1, <2>1
  <2>3. /\ active_orders[id].order_id = id
        /\ \E i \in 1..l : queue[i] = active_orders[id]
      BY <2>1, <2>2 DEF Indexed
  <2> QED BY <2>3
<1>10. QueuedQuantity(side, p) = Total(queue, 1..l)
  <2>1. QueuedQuantity(side, p) = Total(queue, DOMAIN queue)
      BY DEF QueuedQuantity, Total, MapThenSumSet, MapThenFoldSet
  <2> QED BY <1>2, <2>1
<1>11. LevelQuantity(orders, side, p) = Wrapped(Total(orders, at))
    BY DEF LevelQuantity, Total, MapThenSumSet, MapThenFoldSet
<1> HIDE DEF queue, l, orders, at, b
<1> DEFINE places == 1..l
<1>12. Total(orders, at) = Total(queue, 1..l)
  <2>1. /\ IsFiniteSet(places)
        /\ \A i \in places : queue[i].remaining \in Nat
        /\ \A i \in places : b[i] \in at /\ orders[b[i]].remaining = queue[i].remaining
        /\ \A i, j \in places : b[i] = b[j] => i = j
        /\ \A id \in at : \E i \in places : b[i] = id
      BY <1>3, <1>6, <1>7, <1>8, <1>9
  <2>2. Total(orders, at) = Total(queue, places)
    <3> HIDE DEF places
    <3> QED BY <2>1, TotalSame
  <2> QED BY <2>2
<1>13. /\ Total(queue, 1..l) \in Nat
       /\ Total(queue, 1..l) = queue[1].remaining + Total(queue, (1..l) \ {1})
       /\ Total(queue, (1..l) \ {1}) \in Nat
  <2> DEFINE others == places \ {1}
  <2>1. /\ IsFiniteSet(places) /\ 1 \in places
        /\ \A i \in places : queue[i].remaining \in Nat
      BY <1>3, <1>6
  <2> HIDE DEF places
  <2>2. IsFiniteSet(others) /\ \A i \in others : queue[i].remaining \in Nat
      BY <2>1, FS_Subset
  <2>3. Total(queue, places) = queue[1].remaining + Total(queue, others)
      BY <2>1, TotalRemove
  <2> HIDE DEF others
  <2>4. Total(queue, places) \in Nat /\ Total(queue, others) \in Nat
      BY <2>1, <2>2, TotalNat
  <2> QED BY <2>3, <2>4 DEF places, others
<1>14. Total(queue, 1..l) > 0
    BY <1>2, <1>3, <1>6, <1>13
<1>15. \E id \in DOMAIN active_orders :
          active_orders[id].side = side /\ active_orders[id].price_ticks = p
    BY <1>2, <1>6
<1> QED BY <1>10, <1>11, <1>12, <1>13, <1>14, <1>15 DEF orders

\* The view that rebuild_book aggregates from the engine's index shows the
\* levels of the engine's book.
LEMMA ViewOfIndex ==
    ASSUME IInv, NEW side \in Side
    PROVE  LET view == PublicLevels(Visible(active_orders), side)
           IN /\ DOMAIN view \subseteq DOMAIN levels[side]
              /\ \A p \in DOMAIN levels[side] :
                    QueuedQuantity(side, p) < QuantityLimit =>
                        p \in DOMAIN view /\ view[p] = QueuedQuantity(side, p)
<1> DEFINE orders == Visible(active_orders)
           prices == {orders[id].price_ticks :
                         id \in {i \in DOMAIN orders : orders[i].side = side}}
           view == PublicLevels(orders, side)
<1>1. view = [p \in {q \in prices : LevelQuantity(orders, side, q) > 0} |->
                 LevelQuantity(orders, side, p)]
    BY DEF PublicLevels
<1>2. \A p : p \in prices <=>
         \E id \in DOMAIN active_orders :
            active_orders[id].side = side /\ active_orders[id].price_ticks = p
    BY DEF Visible
<1>3. \A id \in DOMAIN active_orders :
         active_orders[id].price_ticks \in DOMAIN levels[active_orders[id].side]
    BY DEF IInv, BookOK, Indexed
<1> HIDE DEF orders, prices, view
<1>4. prices \subseteq DOMAIN levels[side]
    BY <1>2, <1>3
<1>5. DOMAIN view \subseteq DOMAIN levels[side]
    BY <1>1, <1>4
<1>6. ASSUME NEW p \in DOMAIN levels[side], QueuedQuantity(side, p) < QuantityLimit
      PROVE  p \in DOMAIN view /\ view[p] = QueuedQuantity(side, p)
  <2>1. /\ LevelQuantity(orders, side, p) = Wrapped(QueuedQuantity(side, p))
        /\ QueuedQuantity(side, p) \in Nat /\ QueuedQuantity(side, p) > 0
        /\ p \in prices
      BY <1>2, QueueIsIndexed DEF orders
  <2>2. LevelQuantity(orders, side, p) = QueuedQuantity(side, p)
      BY <1>6, <2>1, Unwrapped
  <2> QED BY <1>1, <2>1, <2>2
<1> QED BY <1>5, <1>6 DEF view, orders

LEMMA LevelIndex ==
    ASSUME FeedInv, ConsumerIsLevel
    PROVE  projected_orders = Visible(active_orders) /\ ViewOK
<1>1. PICK h, c : History(h, c, Emitted) /\ EngineOK(h, c) /\ ConsumerOK(h, c)
    BY DEF FeedInv
<1>2. Len(Emitted) \in Nat /\ next_event_sequence = Len(Emitted) + 1
    BY <1>1, LogIsPrefix DEF FeedInv, EngineOK
<1>3. last_applied_event_sequence = Len(Emitted)
    BY <1>2 DEF ConsumerIsLevel
<1>4. projected_orders = Visible(active_orders)
    BY <1>1, <1>3 DEF EngineOK, ConsumerOK
<1>5. ViewOK
    BY <1>1 DEF ConsumerOK, ViewOK
<1> QED BY <1>4, <1>5

-----------------------------------------------------------------------------
\* The theorems.

\* The consumer never refuses the event that comes next in sequence: every
\* handler of MarketDataProjection accepts what OrderBook emits.
THEOREM ConsumerNeverStuck == FeedSpec => []NextEventAccepted
<1>1. FeedInv => NextEventAccepted
  <2> SUFFICES ASSUME FeedInv, NEW i \in DOMAIN event_log, InSequence(event_log[i])
               PROVE  Accepts(event_log[i])
      BY DEF NextEventAccepted
  <2>1. IInv /\ event_log \in Seq(Event) /\ i \in 1..Len(event_log)
      BY LenProperties DEF FeedInv
  <2>2. PICK h, c : History(h, c, Emitted) /\ ConsumerOK(h, c)
      BY DEF FeedInv
  <2>3. EventFits(projected_orders, event_log[i], h[i])
      BY <2>1, <2>2, NextEventFits
  <2> QED BY <2>3, FittingAccepted
<1> QED BY <1>1, FeedInvAlways, PTL

\* The public book that rebuild_book leaves is never crossed or locked, not even
\* between the trades of an aggressive order or inside a replace.
THEOREM ConsumerNeverCrossed == FeedSpec => []PublicBookNotCrossed
<1>1. FeedInv => PublicBookNotCrossed
  <2> SUFFICES ASSUME FeedInv PROVE PublicBookNotCrossed
      OBVIOUS
  <2>1. PICK h, c : History(h, c, Emitted) /\ ConsumerOK(h, c)
      BY DEF FeedInv
  <2>2. last_applied_event_sequence \in 0..Len(Emitted)
      BY <2>1, LogIsPrefix DEF ConsumerOK, FeedInv
  <2>3. Uncrossed(projected_orders)
      BY <2>1, <2>2 DEF ConsumerOK, History
  <2>4. ASSUME NEW side
        PROVE  \A p \in DOMAIN PublicLevels(projected_orders, side) :
                  \E id \in DOMAIN projected_orders :
                     /\ projected_orders[id].side = side
                     /\ projected_orders[id].price_ticks = p
      BY DEF PublicLevels
  <2>5. /\ book.bids = PublicLevels(projected_orders, "Buy")
        /\ book.asks = PublicLevels(projected_orders, "Sell")
      BY <2>1 DEF ConsumerOK
  <2> QED BY <2>3, <2>4, <2>5 DEF Uncrossed, PublicBookNotCrossed
<1> QED BY <1>1, FeedInvAlways, PTL

\* The tape that apply_trade appends to has every trade up to the last applied
\* event once and in the order of the log, whatever the log handed over.
THEOREM TapeAlwaysExact == FeedSpec => []TapeIsExact
<1>1. FeedInv => TapeIsExact
  <2> SUFFICES ASSUME FeedInv PROVE TapeIsExact
      OBVIOUS
  <2> DEFINE last == last_applied_event_sequence
             applied == {i \in DOMAIN event_log :
                            /\ event_log[i].event_type = "TradeExecuted"
                            /\ event_log[i].event_sequence <= last}
  <2>1. PICK h, c : History(h, c, Emitted) /\ ConsumerOK(h, c)
      BY DEF FeedInv
  <2>2. /\ event_log \in Seq(Event) /\ Len(event_log) \in Nat /\ Len(Emitted) \in Nat
        /\ DOMAIN event_log = 1..Len(event_log)
        /\ Len(event_log) <= Len(Emitted)
        /\ \A i \in 1..Len(event_log) : Emitted[i] = event_log[i]
      BY LogIsPrefix, LenProperties DEF FeedInv
  <2>3. /\ last \in 0..Len(event_log) /\ TapeOK(event_log, trades, last)
        /\ trades \in Seq(Trade) /\ DOMAIN trades = 1..Len(trades)
      BY <2>1, LenProperties DEF ConsumerOK
  <2>4. \A i \in 1..Len(event_log) :
           /\ event_log[i].event_sequence = i
           /\ event_log[i].event_type = "TradeExecuted" =>
                 event_log[i].trade_id = c[i] /\ c[i] = c[i - 1] + 1
      BY <2>1, <2>2 DEF History
  <2>5. \A j, k \in 0..Len(event_log) : j <= k => c[j] <= c[k] /\ c[j] \in Nat /\ c[k] \in Nat
      BY <2>1, <2>2 DEF History
  <2>6. \A i : i \in applied <=> /\ i \in 1..last
                                 /\ event_log[i].event_type = "TradeExecuted"
      BY <2>2, <2>3, <2>4
  <2>7. ASSUME NEW i \in applied, NEW j \in applied, i < j
        PROVE  event_log[i].trade_id < event_log[j].trade_id
    <3>1. i \in 1..Len(event_log) /\ j \in 1..Len(event_log) /\ i <= j - 1
        BY <2>2, <2>7
    <3>2. /\ event_log[i].trade_id = c[i]
          /\ event_log[j].trade_id = c[j - 1] + 1
        BY <2>4, <3>1
    <3>3. i \in 0..Len(event_log) /\ j - 1 \in 0..Len(event_log)
        BY <2>2, <3>1
    <3>4. c[i] <= c[j - 1] /\ c[i] \in Nat /\ c[j - 1] \in Nat
        BY <2>5, <3>1, <3>3
    <3> QED BY <3>2, <3>4
  <2>8. ASSUME NEW i \in applied
        PROVE  LET n == event_log[i].trade_id
               IN /\ n \in DOMAIN trades
                  /\ trades[n].trade_id = n
                  /\ trades[n].resting_order_id = event_log[i].contra_order_id
                  /\ trades[n].price_ticks = event_log[i].price_ticks
                  /\ trades[n].quantity_lots = event_log[i].quantity_lots
    <3>1. i \in 1..last /\ event_log[i].event_type = "TradeExecuted"
        BY <2>6
    <3>2. /\ event_log[i].trade_id \in 1..Len(trades)
          /\ IsEntry(trades[event_log[i].trade_id], event_log[i])
        BY <2>3, <3>1 DEF TapeOK
    <3> QED BY <2>3, <3>2 DEF IsEntry
  <2>9. ASSUME NEW n \in DOMAIN trades PROVE \E i \in applied : event_log[i].trade_id = n
    <3>1. PICK i \in 1..last : event_log[i].event_type = "TradeExecuted" /\ event_log[i].trade_id = n
        BY <2>3 DEF TapeOK
    <3> QED BY <2>6, <3>1
  <2> HIDE DEF applied
  <2>10. /\ \A n \in DOMAIN trades : \E i \in applied : event_log[i].trade_id = n
         /\ \A i, j \in applied : i < j => event_log[i].trade_id < event_log[j].trade_id
         /\ \A i \in applied :
               LET n == event_log[i].trade_id
               IN /\ n \in DOMAIN trades
                  /\ trades[n].trade_id = n
                  /\ trades[n].resting_order_id = event_log[i].contra_order_id
                  /\ trades[n].price_ticks = event_log[i].price_ticks
                  /\ trades[n].quantity_lots = event_log[i].quantity_lots
      BY <2>7, <2>8, <2>9
  <2> QED BY <2>10 DEF TapeIsExact, applied
<1> QED BY <1>1, FeedInvAlways, PTL

\* A consumer that has applied every event holds the engine's index and shows
\* the instrument of the book.
THEOREM ConsumerMatchesEngine == FeedSpec => []ProjectionMatchesBook
<1>1. FeedInv => ProjectionMatchesBook
  <2> SUFFICES ASSUME FeedInv, ConsumerIsLevel
               PROVE  /\ projected_orders = Visible(active_orders)
                      /\ book.instrument_id = IF DOMAIN active_orders = {} THEN NoInstrument
                                              ELSE instrument_id
      BY DEF ProjectionMatchesBook
  <2>1. projected_orders = Visible(active_orders) /\ ViewOK
      BY LevelIndex
  <2>2. /\ DOMAIN projected_orders = DOMAIN active_orders
        /\ \A id \in DOMAIN active_orders :
              projected_orders[id].instrument_id = instrument_id
      BY <2>1 DEF Visible, FeedInv, IInv, OneInstrument
  <2> QED BY <2>1, <2>2 DEF ViewOK
<1> QED BY <1>1, FeedInvAlways, PTL

\* What such a consumer shows at a price is what the engine's queue there has
\* left, for every level whose quantity fits the word that rebuild_book sums in.
THEOREM LevelsAlwaysMatch == FeedSpec => []LevelsMatchBook
<1>1. FeedInv => LevelsMatchBook
  <2> SUFFICES ASSUME FeedInv, ConsumerIsLevel, NEW side \in Side
               PROVE  LET view == IF side = "Buy" THEN book.bids ELSE book.asks
                      IN /\ DOMAIN view \subseteq DOMAIN levels[side]
                         /\ \A p \in DOMAIN levels[side] :
                               QueuedQuantity(side, p) < QuantityLimit =>
                                   /\ p \in DOMAIN view
                                   /\ view[p] = QueuedQuantity(side, p)
      BY DEF LevelsMatchBook
  <2>1. projected_orders = Visible(active_orders) /\ ViewOK
      BY LevelIndex
  <2>2. (IF side = "Buy" THEN book.bids ELSE book.asks)
            = PublicLevels(Visible(active_orders), side)
      BY <2>1 DEF ViewOK, Side
  <2>3. IInv
      BY DEF FeedInv
  <2> QED BY <2>2, <2>3, ViewOfIndex
<1> QED BY <1>1, FeedInvAlways, PTL
=============================================================================
