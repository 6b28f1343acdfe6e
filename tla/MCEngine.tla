------------------------------ MODULE MCEngine ------------------------------
(***************************************************************************)
(* Menus of orders and amendments for TLC: a small price grid and small    *)
(* quantities, chosen so that orders rest, cross, sweep two levels and     *)
(* leave rests.                                                            *)
(***************************************************************************)
EXTENDS EngineProperties

A == 1
B == 2
AB == {A, B}

Rebate == -3    \* three hundredths for makers, four from takers

\* Every time in force over two price levels, and icebergs that refill to
\* a full and to a short peak among plain orders; a stop.
BookMenu ==
    {Limit("Sell", 10, 1), Limit("Sell", 11, 2), Limit("Buy", 10, 2),
     Limit("Buy", 0, 1), Iceberg("Sell", 10, 3, 1), Iceberg("Sell", 10, 3, 2),
     Iceberg("Buy", 10, 2, 2), WithTif(Market("Sell", 2), "Gtc"),
     WithTif(Limit("Buy", 11, 2), "Fok"),
     WithTif(Limit("Buy", 10, 1), "Fok"),
     WithTif(Limit("Buy", 11, 4), "Ioc"),
     WithTif(Limit("Buy", 11, 1), "PostOnly"), StopLimit("Buy", 10, 11, 1)}
BookAmendments == {[price |-> 10, qty |-> 1], [price |-> 11, qty |-> 3]}
==============================================================================
