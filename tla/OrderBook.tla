------------------------------ MODULE OrderBook ------------------------------
(***************************************************************************)
(* The order book (book/mod.rs, book/matching.rs, book/accounts.rs).       *)
(*                                                                         *)
(* levels[side] is the BTreeMap of price levels: a price is in its domain  *)
(* exactly while the code keeps a PriceLevel for it.  A level has its      *)
(* aggregate quantity and the FIFO of its orders, the order the linked     *)
(* list of slab nodes is walked in.  resting is index and slab together,   *)
(* from an order id to its node.  reserves holds the hidden part of        *)
(* iceberg orders, accounts the net position and the open volume of each   *)
(* account.  The module has the state and the operations; the engine that  *)
(* calls them has the specification.                                       *)
(***************************************************************************)
EXTENDS ClobTypes, Integers, FiniteSets, FiniteSetsExt, SequencesExt

VARIABLES levels, resting, reserves, accounts

bookVars == <<levels, resting, reserves, accounts>>

EmptyLevel == [total_qty |-> 0, fifo |-> <<>>]
NoAccount == [net |-> 0, open |-> [side \in Sides |-> 0]]

BookInit ==
    /\ levels = [side \in Sides |-> <<>>]
    /\ resting = <<>>
    /\ reserves = <<>>
    /\ accounts = [owner \in Accounts |-> NoAccount]

----------------------------------------------------------------------------
(* Accounts *)

AddOpen(accts, owner, side, qty) ==
    IF owner = Anonymous THEN accts
    ELSE [accts EXCEPT ![owner].open[side] = @ + qty]

SubOpen(accts, owner, side, qty) ==
    IF owner = Anonymous THEN accts
    ELSE [accts EXCEPT ![owner].open[side] = IF @ > qty THEN @ - qty ELSE 0]

\* Mutant of Fill: both sides of a trade add to the position.
Fill_Unsigned(accts, owner, side, qty) ==
    IF owner = Anonymous THEN accts
    ELSE [accts EXCEPT ![owner].net = @ + qty]

Fill(accts, owner, side, qty) ==
    IF owner = Anonymous THEN accts
    ELSE [accts EXCEPT ![owner].net =
              IF side = "Buy" THEN @ + qty ELSE @ - qty]

Net(owner) == IF owner = Anonymous THEN 0 ELSE accounts[owner].net
Open(owner, side) == IF owner = Anonymous THEN 0 ELSE accounts[owner].open[side]

----------------------------------------------------------------------------
(* Reading the book *)

BestBid ==
    IF DOMAIN levels["Buy"] = {} THEN None ELSE Max(DOMAIN levels["Buy"])
BestAsk ==
    IF DOMAIN levels["Sell"] = {} THEN None ELSE Min(DOMAIN levels["Sell"])
Mid ==
    IF None \in {BestBid, BestAsk} THEN None ELSE (BestBid + BestAsk) \div 2

\* p is a better price than q for an order of this side to rest at.
Better(side, p, q) == IF side = "Buy" THEN p > q ELSE p < q

\* Mutant of IsBest: a worse level will do.
IsBest_AnyLevel(side, p) == p \in DOMAIN levels[side]

IsBest(side, p) ==
    /\ p \in DOMAIN levels[side]
    /\ \A q \in DOMAIN levels[side] : ~Better(side, q, p)

\* Mutant of Crosses: a limit at the price of the level does not reach it.
Crosses_Strict(taker_side, limit_price, p) ==
    CASE limit_price = None -> TRUE
      [] limit_price # None /\ taker_side = "Buy" -> limit_price > p
      [] limit_price # None /\ taker_side = "Sell" -> limit_price < p

Crosses(taker_side, limit_price, p) ==
    CASE limit_price = None -> TRUE
      [] limit_price # None /\ taker_side = "Buy" -> limit_price >= p
      [] limit_price # None /\ taker_side = "Sell" -> limit_price <= p

\* The opposite levels a taker may trade at: nonempty iff its best one is.
CrossingLevels(taker_side, limit_price) ==
    {p \in DOMAIN levels[Opposite(taker_side)] :
        Crosses(taker_side, limit_price, p)}

WouldCross(taker_side, limit_price) ==
    limit_price = None \/ CrossingLevels(taker_side, limit_price) # {}

Totals(side) == [p \in DOMAIN levels[side] |-> levels[side][p].total_qty]

AvailableQty(taker_side, limit_price) ==
    SumFunctionOnSet(Totals(Opposite(taker_side)),
                     CrossingLevels(taker_side, limit_price))

Hidden(id) == IF id \in DOMAIN reserves THEN reserves[id].hidden ELSE 0

----------------------------------------------------------------------------
(* Changing the book *)

LevelAt(side, price) ==
    IF price \in DOMAIN levels[side] THEN levels[side][price] ELSE EmptyLevel

\* Mutant of SetLevel: an emptied level stays in its map.
SetLevel_KeepsEmpty(side, price, level) ==
    [levels EXCEPT ![side] = Put(@, price, level)]

\* A level left without orders is removed from its map.
SetLevel(side, price, level) ==
    [levels EXCEPT ![side] =
        IF level.fifo = <<>> THEN Drop(@, price) ELSE Put(@, price, level)]

\* Mutant of LinkBack: the order goes to the front of the queue.
LinkBack_Front(fifo, id) == <<id>> \o fifo

LinkBack(fifo, id) == Append(fifo, id)

PositionOf(fifo, id) == CHOOSE i \in 1..Len(fifo) : fifo[i] = id
Unlink(fifo, id) == RemoveAt(fifo, PositionOf(fifo, id))

\* insert, and add_reserve when the order has a hidden part
Insert(id, order, display, hidden) ==
    LET level == LevelAt(order.side, order.price)
    IN  /\ levels' = SetLevel(order.side, order.price,
                        [total_qty |-> level.total_qty + order.qty,
                         fifo |-> LinkBack(level.fifo, id)])
        /\ resting' = Put(resting, id, order)
        /\ reserves' = IF hidden > 0
                       THEN Put(reserves, id,
                                [display |-> display, hidden |-> hidden])
                       ELSE reserves
        /\ accounts' = AddOpen(accounts, order.owner, order.side,
                               order.qty + hidden)

\* Mutant of OpenVolume: the hidden part is not released.
OpenVolume_Shown(id) == resting[id].qty

\* What an order that leaves the book releases of its account's open volume.
OpenVolume(id) == resting[id].qty + Hidden(id)

CancelResting(id) ==
    LET order == resting[id]
        level == levels[order.side][order.price]
    IN  /\ levels' = SetLevel(order.side, order.price,
                        [total_qty |-> level.total_qty - order.qty,
                         fifo |-> Unlink(level.fifo, id)])
        /\ resting' = Drop(resting, id)
        /\ reserves' = Drop(reserves, id)
        /\ accounts' = SubOpen(accounts, order.owner, order.side,
                               OpenVolume(id))

Reduce(id, new_qty) ==
    LET order == resting[id]
        level == levels[order.side][order.price]
        delta == order.qty - new_qty
    IN  /\ new_qty < order.qty
        /\ resting' = [resting EXCEPT ![id].qty = new_qty]
        /\ levels' = SetLevel(order.side, order.price,
                        [level EXCEPT !.total_qty = @ - delta])
        /\ accounts' = SubOpen(accounts, order.owner, order.side, delta)
        /\ UNCHANGED reserves

\* Self-trade prevention takes the head of a level off the book.
Detach(side, price) ==
    LET level == levels[side][price]
        id    == Head(level.fifo)
        order == resting[id]
    IN  /\ levels' = SetLevel(side, price,
                        [total_qty |-> level.total_qty - order.qty,
                         fifo |-> Tail(level.fifo)])
        /\ resting' = Drop(resting, id)
        /\ reserves' = Drop(reserves, id)
        /\ accounts' = SubOpen(accounts, order.owner, side, OpenVolume(id))

----------------------------------------------------------------------------
(* A fill of the head of a level: the head keeps a rest, or it is an        *)
(* iceberg that shows its next peak at the tail, or it leaves the book.     *)

SettleFill(maker, side, traded, taker_owner) ==
    accounts' =
        SubOpen(Fill(Fill(accounts, taker_owner, Opposite(side), traded),
                     maker.owner, side, traded),
                maker.owner, side, traded)

\* Mutant of FillPart: the aggregate of the level is not reduced.
FillPart_StaleTotal(side, price, traded) ==
    LET id == Head(levels[side][price].fifo)
    IN  /\ traded < resting[id].qty
        /\ resting' = [resting EXCEPT ![id].qty = @ - traded]
        /\ UNCHANGED <<levels, reserves>>

FillPart(side, price, traded) ==
    LET level == levels[side][price]
        id    == Head(level.fifo)
    IN  /\ traded < resting[id].qty
        /\ resting' = [resting EXCEPT ![id].qty = @ - traded]
        /\ levels' = SetLevel(side, price,
                        [level EXCEPT !.total_qty = @ - traded])
        /\ UNCHANGED reserves

\* Mutant of PeakOf: the last peak is not cut to what is still hidden.
PeakOf_Full(reserve) == reserve.display

PeakOf(reserve) == Min({reserve.display, reserve.hidden})

FillAndRefill(side, price, traded) ==
    LET level   == levels[side][price]
        id      == Head(level.fifo)
        reserve == reserves[id]
        peak    == PeakOf(reserve)
    IN  /\ traded = resting[id].qty
        /\ id \in DOMAIN reserves
        /\ resting' = [resting EXCEPT ![id].qty = peak]
        /\ reserves' = IF reserve.hidden = peak THEN Drop(reserves, id)
                       ELSE [reserves EXCEPT ![id].hidden = @ - peak]
        /\ levels' = SetLevel(side, price,
                        [total_qty |-> level.total_qty - traded + peak,
                         fifo |-> LinkBack(Tail(level.fifo), id)])

FillAndRemove(side, price, traded) ==
    LET level == levels[side][price]
        id    == Head(level.fifo)
    IN  /\ traded = resting[id].qty
        /\ id \notin DOMAIN reserves
        /\ resting' = Drop(resting, id)
        /\ levels' = SetLevel(side, price,
                        [total_qty |-> level.total_qty - traded,
                         fifo |-> Tail(level.fifo)])
        /\ UNCHANGED reserves

FillHead(side, price, traded, taker_owner) ==
    /\ \/ FillPart(side, price, traded)
       \/ FillAndRefill(side, price, traded)
       \/ FillAndRemove(side, price, traded)
    /\ SettleFill(resting[Head(levels[side][price].fifo)], side, traded,
                  taker_owner)
==============================================================================
