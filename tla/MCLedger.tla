------------------------------ MODULE MCLedger ------------------------------
(***************************************************************************)
(* One menu with every way an order can enter, change and leave: stops of  *)
(* both sides that trigger each other through their own trades and may be  *)
(* refused, icebergs, and makers that self-trade prevention takes away.    *)
(***************************************************************************)
EXTENDS MCEngine, EventLedger

LedgerMenu ==
    {WithOwner(Iceberg("Sell", 10, 3, 1), A), Limit("Sell", 11, 2),
     Limit("Buy", 10, 1), StopLimit("Buy", 10, 11, 2), Stop("Buy", 10, 1),
     WithTif(Stop("Sell", 10, 1), "Fok"),
     WithTif(StopLimit("Sell", 10, 11, 1), "PostOnly"),
     WithStp(WithOwner(Limit("Buy", 11, 3), A), "CancelMaker"),
     WithStp(WithOwner(Market("Buy", 4), A), "CancelBoth")}
LedgerAmendments == {[price |-> 10, qty |-> 1], [price |-> 11, qty |-> 3]}
==============================================================================
