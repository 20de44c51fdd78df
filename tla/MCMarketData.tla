---------------------------- MODULE MCMarketData ----------------------------
(***************************************************************************)
(* MarketData for TLC: a configuration file cannot write a record.         *)
(***************************************************************************)
EXTENDS MarketData

\* Two faults of any kind; three losses and overtakings; losses only, as many
\* as it takes to make one snapshot of two; and two orders, where a lost update
\* is not made up for by the next one of the same order.
LossyAndWild ==
    {[kinds |-> {"lost", "duplicated", "overtakes"}, max |-> 2, orders |-> 1],
     [kinds |-> {"lost", "overtakes"}, max |-> 3, orders |-> 1],
     [kinds |-> {"lost"}, max |-> 4, orders |-> 1],
     [kinds |-> {"lost"}, max |-> 2, orders |-> 2]}

=============================================================================
