----------------------------- MODULE MarketData -----------------------------
(***************************************************************************)
(* The matching engine and a market-data consumer, joined by the event     *)
(* log: the events of a call are appended to the log when the call         *)
(* returns, and the consumer applies events that it reads from the log,    *)
(* one at a time, in any order and any number of times.                    *)
(***************************************************************************)
EXTENDS OrderBook, MarketDataProjection

\* The engine counts from the first_sequence of run_engine, the number at which
\* the consumer starts as well.  A new order has an id: OrderBook does not ask
\* for one, but the projection refuses the order that rests without it.
ASSUME FeedAssumption ==
    /\ FirstEventSequence = 1
    /\ \A c \in Commands : c.command_type = "NewOrder" => c.order_id # ZeroId

VARIABLE event_log

feedvars == <<vars, projvars, event_log>>

FeedInit == Init /\ ProjectionInit /\ event_log = <<>>

\* A step of the engine; a returning call hands its events to the log.
Engine ==
    /\ Next
    /\ event_log' = IF pc' = "idle" THEN event_log \o events' ELSE event_log
    /\ UNCHANGED projvars

\* The consumer is handed the event at a position of the log.
Consume(i) ==
    /\ apply(event_log[i])
    /\ UNCHANGED <<vars, event_log>>

FeedNext == Engine \/ \E i \in DOMAIN event_log : Consume(i)

FeedSpec == FeedInit /\ [][FeedNext]_feedvars

\* A call runs on its caller's thread and is not interrupted; that new calls
\* start is not assumed.  The loop of apply_projection_from_event_wal reads the
\* log to its end.
FairFeedSpec ==
    /\ FeedSpec
    /\ WF_feedvars(pc = "matching" /\ Engine)
    /\ WF_feedvars(\E i \in DOMAIN event_log : Consume(i))

-----------------------------------------------------------------------------
\* The event that comes next in sequence is never rejected: the consumer is
\* never stuck with a log that it cannot finish.
NextEventAccepted ==
    \A i \in DOMAIN event_log : InSequence(event_log[i]) => Accepts(event_log[i])

\* The consumer has applied every event of the calls that have returned.
ConsumerIsLevel ==
    pc = "idle" /\ last_applied_event_sequence = next_event_sequence - 1

\* The fields of the orders at rest that the events make public.
Visible(orders) ==
    [id \in DOMAIN orders |-> [instrument_id |-> orders[id].instrument_id,
                               side |-> orders[id].side,
                               price_ticks |-> orders[id].price_ticks,
                               remaining |-> orders[id].remaining]]

\* A consumer that has seen every event holds the engine's index: the same
\* orders with the same remainders, of the instrument the book is bound to.
ProjectionMatchesBook ==
    ConsumerIsLevel =>
        /\ projected_orders = Visible(active_orders)
        /\ book.instrument_id = IF DOMAIN active_orders = {} THEN NoInstrument
                                ELSE instrument_id

\* The visible quantity of the orders that queue at a price of the engine's book.
QueuedQuantity(side, p) ==
    MapThenSumSet(LAMBDA i : levels[side][p][i].remaining, DOMAIN levels[side][p])

\* Its view then shows, per price, the quantity queued there, and no other price.
\* A level whose quantity does not fit the word is shown wrongly or not at all,
\* and disturbs no other level.
LevelsMatchBook ==
    ConsumerIsLevel =>
        \A side \in Side :
            LET view == IF side = "Buy" THEN book.bids ELSE book.asks
            IN /\ DOMAIN view \subseteq DOMAIN levels[side]
               /\ \A p \in DOMAIN levels[side] :
                     QueuedQuantity(side, p) < QuantityLimit =>
                         p \in DOMAIN view /\ view[p] = QueuedQuantity(side, p)

\* No prefix of the log shows a crossed or locked book, not even one that ends
\* between the trades of an aggressive order or inside a replace.
PublicBookNotCrossed ==
    \A bid \in DOMAIN book.bids, ask \in DOMAIN book.asks : bid < ask

\* The tape holds every trade up to the last applied event once, in order,
\* whatever was delivered twice or too early: the trades of the log have the ids
\* 1, 2, ... in the order of the log, and each stands at its id.
TapeIsExact ==
    LET applied == {i \in DOMAIN event_log :
                       /\ event_log[i].event_type = "TradeExecuted"
                       /\ event_log[i].event_sequence <= last_applied_event_sequence}
    IN /\ \A n \in DOMAIN trades : \E i \in applied : event_log[i].trade_id = n
       /\ \A i, j \in applied : i < j => event_log[i].trade_id < event_log[j].trade_id
       /\ \A i \in applied :
             LET n == event_log[i].trade_id
             IN /\ n \in DOMAIN trades
                /\ trades[n].trade_id = n
                /\ trades[n].resting_order_id = event_log[i].contra_order_id
                /\ trades[n].price_ticks = event_log[i].price_ticks
                /\ trades[n].quantity_lots = event_log[i].quantity_lots

\* The consumer reaches the end of the log that it is given, every length of
\* which within the bound is a goal of its own.
ConsumerCatchesUp ==
    \A n \in 1..(2 * MaxEventSequence) :
        Len(event_log) >= n ~> last_applied_event_sequence >= n
=============================================================================
