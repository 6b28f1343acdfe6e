--------------------------- MODULE MatchingEngine ---------------------------
(***************************************************************************)
(* Clob::submit_into with everything it runs: sequencer, gateway, engine,  *)
(* matching loop and stop orders (clob.rs, sequencer.rs, engine.rs,        *)
(* stops.rs, book/matching.rs).                                            *)
(*                                                                         *)
(* A call runs to completion on one thread.  The model takes it apart at   *)
(* its loops, so that each iteration is a step of its own:                 *)
(*                                                                         *)
(*   idle -Submit-> match -one maker a step, then the tail of settle->     *)
(*        stops -one triggered stop a step, each back through match->      *)
(*        done -Deliver-> idle                                             *)
(*                                                                         *)
(* A command that never reaches settle goes from idle straight to done.    *)
(* out is the event buffer of the call, handed to the caller by Deliver.   *)
(***************************************************************************)
EXTENDS Gateway, Fees

CONSTANTS
    NewOrders,      \* the orders clients may submit
    Amendments,     \* the price and quantity of their modifications
    MaxCommands     \* bound: commands in a behaviour

ASSUME MenuAssumption ==
    /\ NewOrders \subseteq NewOrder
    /\ Amendments \subseteq Amendment
    /\ MaxCommands \in Nat

VARIABLES
    seq,                \* sequence number of the last command
    next_order_id,
    stops,              \* dormant stop orders, oldest first
    last_trade_price,
    phase,              \* where the call stands
    command,            \* the argument of the call
    live,               \* the order being matched
    out                 \* the events of the call

engineVars == <<seq, next_order_id, stops, last_trade_price, phase, command,
                live, out>>
vars == <<bookVars, engineVars>>

LiveOrder == [order_id : Nat, side : Sides, limit_price : Nat \cup {None},
              qty : Nat, tif : Tifs, display : Nat, owner : Owners,
              stp : StpModes, last_px : Nat \cup {None},
              self_canceled : Seq(Nat)]

PendingStop == [id : Nat, side : Sides, trigger : Nat,
                limit_price : Nat \cup {None}, qty : Nat, tif : Tifs,
                owner : Owners, stp : StpModes]

Init ==
    /\ BookInit
    /\ seq = 0
    /\ next_order_id = 1
    /\ stops = <<>>
    /\ last_trade_price = None
    /\ phase = "idle"
    /\ command = None
    /\ live = None
    /\ out = <<>>

----------------------------------------------------------------------------
(* Entry: the sequence number is taken before validation, the order id      *)
(* after it.                                                                *)

Submit(c) ==
    /\ phase = "idle"
    /\ seq < MaxCommands
    /\ seq' = seq + 1
    /\ command' = c

RejectCommand(c) ==
    /\ Submit(c)
    /\ Validate(c) # Ok
    /\ out' = <<Rejected(seq + 1, Validate(c))>>
    /\ phase' = "done"
    /\ UNCHANGED <<bookVars, next_order_id, stops, last_trade_price, live>>

Admit(c) == Submit(c) /\ Validate(c) = Ok

TakeOrderId == next_order_id' = next_order_id + 1

\* A stop activates as a market order (limit_price None) or a limit order.
PendingStopOf(order) ==
    [id |-> next_order_id, side |-> order.side, trigger |-> order.trigger,
     limit_price |-> IF order.type = "StopLimit" THEN order.price ELSE None,
     qty |-> order.qty, tif |-> order.tif, owner |-> order.owner,
     stp |-> order.stp]

ParkStop(order) ==
    /\ Admit(New(order))
    /\ order.type \in {"Stop", "StopLimit"}
    /\ TakeOrderId
    /\ stops' = Append(stops, PendingStopOf(order))
    /\ out' = <<Accepted(seq + 1, next_order_id)>>
    /\ phase' = "stops"
    /\ UNCHANGED <<bookVars, last_trade_price, live>>

LimitOf(order) == IF order.type = "Market" THEN None ELSE order.price
DisplayOf(order) == IF order.type = "Iceberg" THEN order.display ELSE 0

\* Mutant of Precheck: fill-or-kill counts levels beyond the limit.
Precheck_AnyPrice(side, limit_price, qty, tif) ==
    IF tif = "Fok" /\ AvailableQty(side, None) < qty
    THEN "InsufficientLiquidity"
    ELSE IF tif = "PostOnly" /\ WouldCross(side, limit_price)
    THEN "WouldCross"
    ELSE Ok

\* Mutant of Precheck: post-only is not checked.
Precheck_FokOnly(side, limit_price, qty, tif) ==
    IF tif = "Fok" /\ AvailableQty(side, limit_price) < qty
    THEN "InsufficientLiquidity"
    ELSE Ok

Precheck(side, limit_price, qty, tif) ==
    IF tif = "Fok" /\ AvailableQty(side, limit_price) < qty
    THEN "InsufficientLiquidity"
    ELSE IF tif = "PostOnly" /\ WouldCross(side, limit_price)
    THEN "WouldCross"
    ELSE Ok

EntryCheck(order) ==
    Precheck(order.side, LimitOf(order), order.qty, order.tif)

RefuseOrder(order) ==
    /\ Admit(New(order))
    /\ order.type \notin {"Stop", "StopLimit"}
    /\ EntryCheck(order) # Ok
    /\ TakeOrderId
    /\ out' = <<Rejected(seq + 1, EntryCheck(order))>>
    /\ phase' = "done"
    /\ UNCHANGED <<bookVars, stops, last_trade_price, live>>

LiveOf(id, o, limit_price, display) ==
    [order_id |-> id, side |-> o.side, limit_price |-> limit_price,
     qty |-> o.qty, tif |-> o.tif, display |-> display, owner |-> o.owner,
     stp |-> o.stp, last_px |-> None, self_canceled |-> <<>>]

AcceptOrder(order) ==
    /\ Admit(New(order))
    /\ order.type \notin {"Stop", "StopLimit"}
    /\ EntryCheck(order) = Ok
    /\ TakeOrderId
    /\ out' = <<Accepted(seq + 1, next_order_id)>>
    /\ live' = LiveOf(next_order_id, order, LimitOf(order), DisplayOf(order))
    /\ phase' = "match"
    /\ UNCHANGED <<bookVars, stops, last_trade_price>>

----------------------------------------------------------------------------
(* Cancel looks in the book, then among the dormant stops.                  *)

CancelInBook(id) ==
    /\ Admit(Cancel(id))
    /\ id \in DOMAIN resting
    /\ CancelResting(id)
    /\ out' = <<Canceled(seq + 1, id)>>
    /\ phase' = "done"
    /\ UNCHANGED <<next_order_id, stops, last_trade_price, live>>

\* Mutant of WithoutStop: a stop that leaves stays parked.
WithoutStop_Kept(i) == stops

WithoutStop(i) == RemoveAt(stops, i)

CancelStop(id) ==
    /\ Admit(Cancel(id))
    /\ id \notin DOMAIN resting
    /\ \E i \in DOMAIN stops :
          /\ stops[i].id = id
          /\ stops' = WithoutStop(i)
    /\ out' = <<Canceled(seq + 1, id)>>
    /\ phase' = "done"
    /\ UNCHANGED <<bookVars, next_order_id, last_trade_price, live>>

CancelUnknown(id) ==
    /\ Admit(Cancel(id))
    /\ id \notin DOMAIN resting
    /\ \A i \in DOMAIN stops : stops[i].id # id
    /\ out' = <<Rejected(seq + 1, "UnknownOrder")>>
    /\ phase' = "done"
    /\ UNCHANGED <<bookVars, next_order_id, stops, last_trade_price, live>>

----------------------------------------------------------------------------
(* Modify knows resting orders only.  An order that has a reserve, or that  *)
(* moves or grows, leaves the book and is settled anew; any other is        *)
(* reduced in place.                                                        *)

ModifyUnknown(id, a) ==
    /\ Admit(Modify(id, a))
    /\ id \notin DOMAIN resting
    /\ out' = <<Rejected(seq + 1, "UnknownOrder")>>
    /\ phase' = "done"
    /\ UNCHANGED <<bookVars, next_order_id, stops, last_trade_price, live>>

StaysInPlace(id, a) ==
    /\ id \notin DOMAIN reserves
    /\ a.price = resting[id].price
    /\ a.qty <= resting[id].qty

ModifyInPlace(id, a) ==
    /\ Admit(Modify(id, a))
    /\ id \in DOMAIN resting
    /\ StaysInPlace(id, a)
    /\ IF a.qty < resting[id].qty THEN Reduce(id, a.qty) ELSE UNCHANGED bookVars
    /\ out' = <<Modified(seq + 1, id), Resting(seq + 1, id, a.price, a.qty)>>
    /\ phase' = "done"
    /\ UNCHANGED <<next_order_id, stops, last_trade_price, live>>

\* The amended order keeps its owner and, with a reserve, its display.
ReplacementOf(id, a) ==
    [order_id |-> id, side |-> resting[id].side, limit_price |-> a.price,
     qty |-> a.qty, tif |-> "Gtc",
     display |-> IF id \in DOMAIN reserves THEN reserves[id].display ELSE 0,
     owner |-> resting[id].owner, stp |-> "Off", last_px |-> None,
     self_canceled |-> <<>>]

ModifyReplace(id, a) ==
    /\ Admit(Modify(id, a))
    /\ id \in DOMAIN resting
    /\ ~StaysInPlace(id, a)
    /\ CancelResting(id)
    /\ live' = ReplacementOf(id, a)
    /\ out' = <<Modified(seq + 1, id)>>
    /\ phase' = "match"
    /\ UNCHANGED <<next_order_id, stops, last_trade_price>>

----------------------------------------------------------------------------
(* The matching loop: one maker, the head of the best opposite level, a     *)
(* step.                                                                    *)

Matching == phase = "match" /\ live.qty > 0

MakerSide == Opposite(live.side)

\* The level the next maker comes from.
MatchesAt(price) ==
    /\ IsBest(MakerSide, price)
    /\ Crosses(live.side, live.limit_price, price)

HeadOf(price) == Head(levels[MakerSide][price].fifo)

SelfTrade(price) ==
    /\ live.stp # "Off"
    /\ live.owner # Anonymous
    /\ resting[HeadOf(price)].owner = live.owner

TradeWithHead(price) ==
    LET maker  == HeadOf(price)
        traded == Min({live.qty, resting[maker].qty})
    IN  /\ Matching
        /\ MatchesAt(price)
        /\ ~SelfTrade(price)
        /\ FillHead(MakerSide, price, traded, live.owner)
        /\ live' = [live EXCEPT !.qty = @ - traded, !.last_px = price]
        /\ out' = Append(out, Trade(seq, live.order_id, maker, price, traded,
                                    live.side, TakerFee(price, traded),
                                    MakerFee(price, traded)))
        /\ UNCHANGED <<seq, next_order_id, stops, last_trade_price, phase,
                       command>>

CancelMaker(price) ==
    /\ Matching
    /\ MatchesAt(price)
    /\ SelfTrade(price)
    /\ live.stp = "CancelMaker"
    /\ Detach(MakerSide, price)
    /\ live' = [live EXCEPT !.self_canceled = Append(@, HeadOf(price))]
    /\ UNCHANGED <<seq, next_order_id, stops, last_trade_price, phase,
                   command, out>>

----------------------------------------------------------------------------
(* The tail of settle: the last trade price is published, then the makers   *)
(* that self-trade prevention removed, then what became of the taker.       *)

\* Mutant of SelfCancels: the removed makers are not published.
SelfCancels_Silent(ids) == <<>>

SelfCancels(ids) == [i \in DOMAIN ids |-> Canceled(seq, ids[i])]

FinishWith(self_canceled, event) ==
    /\ last_trade_price' = IF live.last_px = None THEN last_trade_price
                           ELSE live.last_px
    /\ out' = out \o SelfCancels(self_canceled) \o <<event>>
    /\ live' = None
    /\ phase' = "stops"
    /\ UNCHANGED <<seq, next_order_id, stops, command>>

CancelTaker(price) ==
    /\ Matching
    /\ MatchesAt(price)
    /\ SelfTrade(price)
    /\ live.stp = "CancelTaker"
    /\ FinishWith(live.self_canceled, Canceled(seq, live.order_id))
    /\ UNCHANGED bookVars

CancelBoth(price) ==
    /\ Matching
    /\ MatchesAt(price)
    /\ SelfTrade(price)
    /\ live.stp = "CancelBoth"
    /\ Detach(MakerSide, price)
    /\ FinishWith(Append(live.self_canceled, HeadOf(price)),
                  Canceled(seq, live.order_id))

FinishFilled ==
    /\ phase = "match"
    /\ live.qty = 0
    /\ FinishWith(live.self_canceled, Filled(seq, live.order_id))
    /\ UNCHANGED bookVars

NothingToMatch == CrossingLevels(live.side, live.limit_price) = {}

\* Mutant of Rests: the rest of a market order is put into the book, too.
Rests_AnyOrder == live.tif \in {"Gtc", "PostOnly"}

Rests == live.limit_price # None /\ live.tif \in {"Gtc", "PostOnly"}

RestRemainder ==
    LET sliced  == live.display > 0 /\ live.display < live.qty
        visible == IF sliced THEN live.display ELSE live.qty
    IN  /\ Matching
        /\ NothingToMatch
        /\ Rests
        /\ Insert(live.order_id,
                  [side |-> live.side, price |-> live.limit_price,
                   qty |-> visible, seq |-> seq, owner |-> live.owner],
                  live.display, live.qty - visible)
        /\ FinishWith(live.self_canceled,
                      Resting(seq, live.order_id, live.limit_price, visible))

CancelRemainder ==
    /\ Matching
    /\ NothingToMatch
    /\ ~Rests
    /\ FinishWith(live.self_canceled, Canceled(seq, live.order_id))
    /\ UNCHANGED bookVars

----------------------------------------------------------------------------
(* The cascade: the oldest stop the last trade price triggers, until none   *)
(* is left.  A triggered stop that fails the precheck is gone.              *)

TriggeredBy(stop, last) ==
    IF stop.side = "Buy" THEN last >= stop.trigger ELSE last <= stop.trigger

IsTriggered(i) ==
    last_trade_price # None /\ TriggeredBy(stops[i], last_trade_price)

TakeTriggered(i) ==
    /\ phase = "stops"
    /\ IsTriggered(i)
    /\ \A j \in 1..(i - 1) : ~IsTriggered(j)
    /\ stops' = WithoutStop(i)
    /\ UNCHANGED <<seq, next_order_id, last_trade_price, command>>

StopCheck(stop) ==
    Precheck(stop.side, stop.limit_price, stop.qty, stop.tif)

ActivateStop(i) ==
    /\ TakeTriggered(i)
    /\ StopCheck(stops[i]) = Ok
    /\ out' = Append(out, Triggered(seq, stops[i].id))
    /\ live' = LiveOf(stops[i].id, stops[i], stops[i].limit_price, 0)
    /\ phase' = "match"
    /\ UNCHANGED bookVars

RefuseStop(i) ==
    /\ TakeTriggered(i)
    /\ StopCheck(stops[i]) # Ok
    /\ out' = out \o <<Triggered(seq, stops[i].id),
                       Rejected(seq, StopCheck(stops[i]))>>
    /\ UNCHANGED <<bookVars, phase, live>>

\* Mutant of CascadeOver: only the oldest stop is looked at.
CascadeOver_FirstOnly ==
    \A i \in DOMAIN stops : i = 1 => ~IsTriggered(i)

\* Mutant of CascadeOver: without a trade price the loop does not end.
CascadeOver_NeedsPrice ==
    last_trade_price # None /\ \A i \in DOMAIN stops : ~IsTriggered(i)

\* The loop of drive_stops ends: no trade yet, or no stop it triggers.
CascadeOver == \A i \in DOMAIN stops : ~IsTriggered(i)

StopsSettled ==
    /\ phase = "stops"
    /\ CascadeOver
    /\ phase' = "done"
    /\ UNCHANGED <<bookVars, seq, next_order_id, stops, last_trade_price,
                   command, live, out>>

\* submit_into returns: the caller has the events.
Deliver ==
    /\ phase = "done"
    /\ phase' = "idle"
    /\ command' = None
    /\ out' = <<>>
    /\ UNCHANGED <<bookVars, seq, next_order_id, stops, last_trade_price, live>>

----------------------------------------------------------------------------
\* Every id handed out so far, and the next one, which no order has yet.
KnownIds == 1..next_order_id

SubmitNew(order) ==
    \/ RejectCommand(New(order))
    \/ ParkStop(order)
    \/ RefuseOrder(order)
    \/ AcceptOrder(order)

\* No check of the gateway applies to a cancel.
SubmitCancel(id) ==
    \/ CancelInBook(id)
    \/ CancelStop(id)
    \/ CancelUnknown(id)

SubmitModify(id, a) ==
    \/ RejectCommand(Modify(id, a))
    \/ ModifyUnknown(id, a)
    \/ ModifyInPlace(id, a)
    \/ ModifyReplace(id, a)

MatchStep ==
    \E price \in DOMAIN levels[MakerSide] :
        \/ TradeWithHead(price)
        \/ CancelMaker(price)
        \/ CancelTaker(price)
        \/ CancelBoth(price)

FinishStep == FinishFilled \/ RestRemainder \/ CancelRemainder

StopStep == \E i \in DOMAIN stops : ActivateStop(i) \/ RefuseStop(i)

\* The call itself, once it is under way.
Run ==
    \/ phase = "match" /\ (MatchStep \/ FinishStep)
    \/ StopStep
    \/ StopsSettled
    \/ Deliver

Next ==
    \/ \E order \in NewOrders : SubmitNew(order)
    \/ \E id \in KnownIds : SubmitCancel(id)
    \/ \E id \in KnownIds, a \in Amendments : SubmitModify(id, a)
    \/ Run

Spec == Init /\ [][Next]_vars

\* The thread in a call keeps running; nobody is obliged to submit.
FairSpec == Spec /\ WF_vars(Run)
==============================================================================
