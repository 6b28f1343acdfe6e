------------------------------ MODULE ClobTypes ------------------------------
(***************************************************************************)
(* The vocabulary of the order book: sides, order types, time in force,    *)
(* self-trade prevention, the three commands and the events (types.rs,     *)
(* order.rs, output.rs, error.rs).  Prices, quantities, ids and sequence   *)
(* numbers are naturals; an Option is the value or None.                   *)
(***************************************************************************)
EXTENDS Integers, Sequences, Functions

CONSTANTS
    None,       \* the absent value of an Option
    Accounts    \* the account ids that appear in commands; 0 is nobody's

ASSUME NoneAssumption == None \notin Nat
ASSUME AccountsAssumption == Accounts \subseteq Nat \ {0}

Anonymous == 0
Owners == Accounts \cup {Anonymous}

Sides == {"Buy", "Sell"}
Opposite(side) == IF side = "Buy" THEN "Sell" ELSE "Buy"

OrderTypes == {"Limit", "Market", "Stop", "StopLimit", "Iceberg"}
Tifs == {"Gtc", "Ioc", "Fok", "PostOnly"}
StpModes == {"Off", "CancelTaker", "CancelMaker", "CancelBoth"}

Ok == "Ok"
RejectReasons == {"ZeroQuantity", "InvalidPrice", "UnknownOrder",
                  "InsufficientLiquidity", "WouldCross", "TickSize",
                  "LotSize", "PriceBand", "PositionLimit"}

----------------------------------------------------------------------------
(* Commands.  The payloads of OrderType (trigger, display) are fields of    *)
(* the order that are 0 for the types without them.                         *)

NewOrder == [side : Sides, type : OrderTypes, trigger : Nat, display : Nat,
             price : Nat, qty : Nat, tif : Tifs, owner : Owners,
             stp : StpModes]

Amendment == [price : Nat, qty : Nat]

New(order) == [op |-> "New", order |-> order]
Cancel(id) == [op |-> "Cancel", order_id |-> id]
Modify(id, a) == [op |-> "Modify", order_id |-> id,
                  price |-> a.price, qty |-> a.qty]

Command == [op : {"New"}, order : NewOrder]
             \cup [op : {"Cancel"}, order_id : Nat]
             \cup [op : {"Modify"}, order_id : Nat, price : Nat, qty : Nat]

Limit(side, price, qty) ==
    [side |-> side, type |-> "Limit", trigger |-> 0, display |-> 0,
     price |-> price, qty |-> qty, tif |-> "Gtc", owner |-> Anonymous,
     stp |-> "Off"]
Market(side, qty) ==
    [Limit(side, 0, qty) EXCEPT !.type = "Market", !.tif = "Ioc"]
Stop(side, trigger, qty) ==
    [Market(side, qty) EXCEPT !.type = "Stop", !.trigger = trigger]
StopLimit(side, trigger, limit, qty) ==
    [Limit(side, limit, qty) EXCEPT !.type = "StopLimit", !.trigger = trigger]
Iceberg(side, price, qty, display) ==
    [Limit(side, price, qty) EXCEPT !.type = "Iceberg", !.display = display]

WithTif(order, tif) == [order EXCEPT !.tif = tif]
WithOwner(order, owner) == [order EXCEPT !.owner = owner]
WithStp(order, stp) == [order EXCEPT !.stp = stp]

----------------------------------------------------------------------------
(* Events                                                                   *)

Accepted(seq, id) == [type |-> "Accepted", seq |-> seq, order_id |-> id]
Rejected(seq, reason) == [type |-> "Rejected", seq |-> seq, reason |-> reason]
Trade(seq, taker, maker, price, qty, side, taker_fee, maker_fee) ==
    [type |-> "Trade", seq |-> seq, taker_order_id |-> taker,
     maker_order_id |-> maker, price |-> price, qty |-> qty,
     taker_side |-> side, taker_fee |-> taker_fee, maker_fee |-> maker_fee]
Resting(seq, id, price, qty) ==
    [type |-> "Resting", seq |-> seq, order_id |-> id,
     price |-> price, qty |-> qty]
Filled(seq, id) == [type |-> "Filled", seq |-> seq, order_id |-> id]
Canceled(seq, id) == [type |-> "Canceled", seq |-> seq, order_id |-> id]
Modified(seq, id) == [type |-> "Modified", seq |-> seq, order_id |-> id]
Triggered(seq, id) == [type |-> "Triggered", seq |-> seq, order_id |-> id]

Event ==
    [type : {"Accepted", "Filled", "Canceled", "Modified", "Triggered"},
     seq : Nat, order_id : Nat]
      \cup [type : {"Rejected"}, seq : Nat, reason : RejectReasons]
      \cup [type : {"Resting"}, seq : Nat, order_id : Nat,
            price : Nat, qty : Nat]
      \cup [type : {"Trade"}, seq : Nat, taker_order_id : Nat,
            maker_order_id : Nat, price : Nat, qty : Nat, taker_side : Sides,
            taker_fee : Int, maker_fee : Int]

----------------------------------------------------------------------------
(* Partial functions stand for the maps of the code. *)

Put(f, key, value) ==
    [k \in DOMAIN f \cup {key} |-> IF k = key THEN value ELSE f[k]]
Drop(f, key) == Restrict(f, DOMAIN f \ {key})
==============================================================================
