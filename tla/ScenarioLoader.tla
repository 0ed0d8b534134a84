--------------------------- MODULE ScenarioLoader ---------------------------
(***************************************************************************)
(* app::load_scenario: a scenario text becomes normalized commands, or an  *)
(* error that names a line.  A line is kept as its tokens, together with   *)
(* the fields whose token is absent or does not parse; numbers are given   *)
(* as the numbers they denote.                                             *)
(***************************************************************************)
EXTENDS Domain, FiniteSets

CONSTANTS
    Name,                \* the tokens that name orders and instruments
    StableId,            \* stable_id: the order id of a name
    InstrumentId         \* instrument_id: the instrument id of a name

ASSUME NameAssumption == /\ StableId \in [Name -> OrderId]
                         /\ InstrumentId \in [Name -> Instrument]

\* The fields that an operation reads, after the three that every line has.
LineField(op) ==
    {"sequence", "instrument", "client"} \cup
        CASE op = "NEW" -> {"order", "side", "price", "quantity", "tif"}
          [] op = "CANCEL" -> {"order"}
          [] op = "REPLACE" -> {"order", "replacement", "side", "price", "quantity",
                                "tif"}
          [] OTHER -> {}

\* "Other" stands for every other operation, "#" for blank lines and comments.
Operation == {"NEW", "CANCEL", "REPLACE", "Other", "#"}

Line == [op : Operation, sequence : Nat, instrument : Name, order : Name,
         replacement : Name, side : Side, price : Int, quantity : Int,
         spoilt : SUBSET UNION {LineField(op) : op \in Operation}]

\* Blank lines and comments.
Skipped(line) == line.op = "#"

WellFormed(line) ==
    /\ line.op \in {"NEW", "CANCEL", "REPLACE"}
    /\ line.spoilt \cap LineField(line.op) = {}

\* The record of a line; what the operation does not read keeps its default.
CommandOf(line) ==
    LET read(field, value, default) ==
            IF field \in LineField(line.op) THEN value ELSE default
    IN [command_type |-> CASE line.op = "NEW" -> "NewOrder"
                           [] line.op = "CANCEL" -> "CancelOrder"
                           [] line.op = "REPLACE" -> "ReplaceOrder",
        order_id |-> StableId[line.order],
        replacement_order_id |->
            read("replacement", StableId[line.replacement], ZeroId),
        instrument_id |-> InstrumentId[line.instrument],
        side |-> read("side", line.side, "Unknown"),
        price_ticks |-> read("price", line.price, 0),
        quantity_lots |-> read("quantity", line.quantity, 0),
        time_in_force |-> "Gtc"]

\* How many of the rows are in front of row n or are n.
Place(rows, n) == Cardinality({m \in rows : m <= n})

\* The commands of the lines at rows, which are well formed, in their order.
Parsed(lines, rows) ==
    [k \in 1..Cardinality(rows) |->
        LET line == lines[CHOOSE n \in rows : Place(rows, n) = k]
        IN [record_type |-> "OrderCommand", command_sequence |-> line.sequence,
            body |-> CommandOf(line)]]

\* The fault: a line that does not parse is passed over.
load_scenario_SkipsBadLines(lines) ==
    [ok |-> TRUE, line |-> 0,
     commands |-> Parsed(lines, {n \in DOMAIN lines : WellFormed(lines[n])})]

\* All the commands of the lines, or the number of the first line at fault.
load_scenario(lines) ==
    LET rows == {n \in DOMAIN lines : ~Skipped(lines[n])}
        wrong == {n \in rows : ~WellFormed(lines[n])}
    IN IF wrong # {}
       THEN [ok |-> FALSE, commands |-> <<>>,
             line |-> CHOOSE n \in wrong : \A m \in wrong : n <= m]
       ELSE [ok |-> TRUE, line |-> 0, commands |-> Parsed(lines, rows)]
=============================================================================
