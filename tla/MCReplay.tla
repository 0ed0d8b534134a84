------------------------------ MODULE MCReplay ------------------------------
(***************************************************************************)
(* Instances of Replay: the logs of a short session, and what can become   *)
(* of them.                                                                *)
(***************************************************************************)
EXTENDS Replay, TLC

CONSTANTS a, b, i

NewOrder(id, side, price, quantity) ==
    [command_type |-> "NewOrder", order_id |-> id, replacement_order_id |-> ZeroId,
     instrument_id |-> i, side |-> side, price_ticks |-> price,
     quantity_lots |-> quantity, time_in_force |-> "Gtc"]

\* A buy of two lots rests; a sell of two lots takes it.
Bid == NewOrder(a, "Buy", 1, 2)
Ask == NewOrder(b, "Sell", 1, 2)

CommandBodies == {Bid, Ask}

CommandRecord(sequence, c) ==
    [record_type |-> "OrderCommand", command_sequence |-> sequence, body |-> c]

\* The records of a session whose commands start at the sequence s.
CommandRecords(s, t) == <<CommandRecord(s, Bid), CommandRecord(t, Ask)>>

EventRecords(s) ==
    Stored(CommandRecord(s, Bid),
           <<emit_order_event(Bid, 1, "OrderAccepted", 2, 2),
             emit_order_event(Bid, 2, "OrderRested", 0, 2)>>)
    \o Stored(CommandRecord(s + 1, Ask),
              <<emit_order_event(Ask, 3, "OrderAccepted", 2, 2),
                emit_trade_event(Ask, 4, Bid, 1, 1, 2, 0),
                emit_order_event(Ask, 5, "OrderFullyFilled", 2, 0)>>)

IntactLog(records) == [header |-> "Valid", records |-> records, tail |-> "Clean"]

\* Every way in which a log can be cut short.
CutLogs(records) ==
    {[header |-> "Valid", records |-> SubSeq(records, 1, n), tail |-> t] :
        n \in 0..Len(records), t \in {"Clean", "Torn"}}

\* Every log with one field of one record changed.
ChangedLogs(records) ==
    {IntactLog([records EXCEPT ![n].body.quantity_lots = @ + 1]) : n \in DOMAIN records}
        \cup {IntactLog([records EXCEPT ![n].command_sequence = @ + 1]) :
                n \in DOMAIN records}
        \cup {IntactLog([records EXCEPT ![n].body.event_type = "OrderRejected"]) :
                n \in DOMAIN records}

SessionLogs ==
    \* the command log, numbered from 1 or from 5, with a gap, with a repetition
    {IntactLog(CommandRecords(s, s + d)) : s \in {1, 5}, d \in {0, 1, 2}}
        \cup CutLogs(CommandRecords(1, 2))
        \cup UNION {CutLogs(EventRecords(s)) : s \in {1, 5}}
        \cup ChangedLogs(EventRecords(1))
        \* more events than the commands cause
        \cup {IntactLog(EventRecords(1) \o <<EventRecords(1)[1]>>)}
        \* a record of the other type
        \cup {IntactLog(EventRecords(1) \o <<CommandRecord(3, Bid)>>)}
        \cup {[header |-> "Unusable", records |-> <<>>, tail |-> "Torn"]}
=============================================================================
