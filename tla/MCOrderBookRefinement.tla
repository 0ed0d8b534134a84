----------------------- MODULE MCOrderBookRefinement -----------------------
(***************************************************************************)
(* The refinement on the instances of MCOrderBook.                         *)
(***************************************************************************)
EXTENDS OrderBookRefinement, MCOrderBook
============================================================================
