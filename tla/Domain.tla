------------------------------- MODULE Domain -------------------------------
(***************************************************************************)
(* The records of src/domain that the parts of the system exchange, and    *)
(* the maps they keep.  Fields that the code only copies and never decides *)
(* on are left out: client_id, command_sequence, the ingress epoch and     *)
(* sequence.                                                               *)
(***************************************************************************)
EXTENDS Integers, Sequences

CONSTANTS
    OrderId,             \* the order ids that commands carry
    ZeroId,              \* the order id 0, the default of the id fields
    Instrument,          \* the instrument ids that commands carry
    NoInstrument         \* the absent instrument id

ASSUME IdAssumption == ZeroId \in OrderId /\ NoInstrument \notin Instrument

Side == {"Buy", "Sell"}

CommandType == {"NewOrder", "CancelOrder", "ReplaceOrder"}

\* The fields of an OrderCommandRecordV1 are raw integers: "Unknown" stands
\* for every value that no enumerator has.
Command == [command_type : CommandType \cup {"Unknown"},
            order_id : OrderId,
            replacement_order_id : OrderId,
            instrument_id : Instrument,
            side : Side \cup {"Unknown"},
            price_ticks : Int,
            quantity_lots : Int,
            time_in_force : {"Gtc", "Unknown"}]

EventType == {"OrderAccepted", "OrderRejected", "TradeExecuted", "OrderRested",
              "OrderPartiallyFilled", "OrderFullyFilled", "OrderCancelled"}

RejectionReason == {"UnsupportedCommand", "InvalidSide", "InvalidPrice",
                    "InvalidQuantity", "DuplicateOrderId",
                    "UnsupportedTimeInForce", "UnknownOrderId",
                    "InstrumentMismatch", "ReplaceWouldDuplicateOrderId",
                    "InvalidReplacementOrderId"}

Event == [event_type : EventType,
          event_sequence : Nat,
          order_id : OrderId,
          contra_order_id : OrderId,
          trade_id : Nat,
          price_ticks : Int,
          quantity_lots : Int,
          remaining : Int,
          instrument_id : Instrument,
          side : Side \cup {"Unknown"},
          rejection_reason : RejectionReason \cup {"None"}]

-----------------------------------------------------------------------------
\* Maps (std::map, std::unordered_map) are functions whose domain is the key set.

NoEntries == [k \in {} |-> k]

Put(map, key, value) ==
    [k \in DOMAIN map \cup {key} |-> IF k = key THEN value ELSE map[k]]

Erase(map, key) == [k \in DOMAIN map \ {key} |-> map[k]]

Opposite(side) == IF side = "Buy" THEN "Sell" ELSE "Buy"

\* The order of the level maps: bids descending, asks ascending.
Before(side, p, q) == IF side = "Buy" THEN p > q ELSE p < q
=============================================================================
