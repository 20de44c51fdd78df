--------------------------- MODULE MCTradeEngine ---------------------------
(***************************************************************************)
(* TradeEngine for TLC.  A configuration file cannot write a negative      *)
(* number or a function.                                                   *)
(***************************************************************************)
EXTENDS TradeEngine

\* The max_loss that lets a strategy lose two.
LosesTwo == -2

\* A taker's orders meet in more ways than a maker's, so it makes one fewer.
FourAndThree == [MAKER |-> 4, TAKER |-> 3]

=============================================================================
