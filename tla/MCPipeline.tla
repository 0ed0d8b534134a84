----------------------------- MODULE MCPipeline -----------------------------
(***************************************************************************)
(* Instances of Pipeline: short scenarios that share beginnings, and files *)
(* that an earlier session has left.                                       *)
(***************************************************************************)
EXTENDS Pipeline, MCReplay

\* The names are those of the orders; the last one has the id of the first.
Names == {"first", "second", "homonym"}
NameIds == [n \in Names |-> IF n = "second" THEN b ELSE a]
NameInstruments == [n \in Names |-> i]

LineOf(op, sequence, order, side, quantity) ==
    [op |-> op, sequence |-> sequence, instrument |-> "first", order |-> order,
     replacement |-> "second", side |-> side, price |-> 1, quantity |-> quantity,
     spoilt |-> {}]

Buy(sequence) == LineOf("NEW", sequence, "first", "Buy", 2)
Sell(sequence) == LineOf("NEW", sequence, "second", "Sell", 1)

Comment == LineOf("#", 0, "first", "Buy", 0)

ShortScenarios ==
    {<<Comment>>,
     <<Buy(1), Comment, Sell(2)>>,
     <<Buy(1), Sell(3)>>,
     <<Buy(0), Sell(1)>>,
     <<Sell(1), Buy(2), LineOf("CANCEL", 3, "first", "Buy", 0)>>,
     <<Buy(1), [Sell(2) EXCEPT !.price = 2]>>,
     <<Buy(5), LineOf("NEW", 6, "homonym", "Sell", 1),
       LineOf("REPLACE", 7, "first", "Sell", 2)>>,
     <<Buy(1), [Sell(2) EXCEPT !.spoilt = {"price"}], Sell(2)>>,
     <<Buy(1), LineOf("Other", 2, "first", "Buy", 1)>>}

\* The pair of files of the session of MCReplay.
LeftLogs == {IntactLog(CommandRecords(1, 2)), IntactLog(EventRecords(1))}
=============================================================================
