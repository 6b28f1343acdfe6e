------------------------------- MODULE MCRisk -------------------------------
(***************************************************************************)
(* A menu for the risk checks.                                             *)
(***************************************************************************)
EXTENDS MCEngine, RiskHistory

\* Two accounts that meet themselves and each other, with whole and broken
\* lots and ticks (a tick of 5, a lot of 2), inside and outside a band of
\* one tick around the middle of the book; and stops that take an account
\* past its limit.
RiskMenu ==
    {WithOwner(Limit("Sell", 10, 2), A), WithOwner(Limit("Sell", 12, 4), B),
     WithOwner(Limit("Sell", 15, 3), B), WithOwner(Limit("Buy", 25, 2), B),
     WithOwner(Iceberg("Sell", 10, 6, 2), A),
     WithOwner(Iceberg("Sell", 15, 6, 4), B),
     WithOwner(Iceberg("Sell", 10, 4, 1), A),
     WithOwner(Limit("Buy", 10, 4), B),
     WithStp(WithOwner(Limit("Buy", 15, 4), A), "CancelMaker"),
     WithStp(WithOwner(Limit("Buy", 10, 6), B), "CancelBoth"),
     WithStp(WithOwner(Market("Buy", 4), A), "CancelTaker"),
     WithOwner(StopLimit("Buy", 10, 15, 4), A), WithOwner(Stop("Sell", 10, 2), B)}
RiskAmendments ==
    {[price |-> 10, qty |-> 2], [price |-> 15, qty |-> 6],
     [price |-> 12, qty |-> 2], [price |-> 15, qty |-> 3]}
==============================================================================
