------------------------------- MODULE MCFeeds -------------------------------
(***************************************************************************)
(* Menus for the market data channels.                                     *)
(***************************************************************************)
EXTENDS MCEngine, MarketData

\* Icebergs, self-trade cancels, a stop whose activation rests, trades and
\* is canceled within one command.  Offers may rest at 10 and 11, bids at
\* 11 only, and amendments lead to 11: they move no order to a better price.
RetreatMenu ==
    {WithOwner(Iceberg("Sell", 10, 3, 1), A),
     WithOwner(Limit("Sell", 10, 1), B), Limit("Sell", 11, 1),
     Limit("Buy", 11, 2), WithOwner(StopLimit("Sell", 10, 11, 1), A),
     WithStp(WithOwner(StopLimit("Buy", 10, 11, 2), A), "CancelMaker"),
     WithTif(Limit("Buy", 10, 2), "Ioc")}
RetreatAmendments == {[price |-> 11, qty |-> 1], [price |-> 11, qty |-> 3]}

\* With amendments to 10 as well.
AdvanceAmendments == RetreatAmendments \cup {[price |-> 10, qty |-> 1]}
==============================================================================
