----------------------------- MODULE MCSnapshot -----------------------------
(***************************************************************************)
(* Icebergs that have refilled, stops of both sides and accounts with a    *)
(* position, to be captured and put back.                                  *)
(***************************************************************************)
EXTENDS MCEngine, Snapshot

SnapshotMenu ==
    {WithOwner(Iceberg("Sell", 10, 3, 1), A), Limit("Sell", 10, 1),
     WithOwner(Limit("Sell", 11, 2), A), WithOwner(Limit("Buy", 10, 2), B),
     WithOwner(Limit("Buy", 9, 1), B), StopLimit("Buy", 11, 11, 1),
     WithOwner(Stop("Sell", 9, 1), B)}
SnapshotAmendments == {[price |-> 10, qty |-> 1]}
==============================================================================
