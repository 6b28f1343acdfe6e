---------------------------- MODULE VolumeProofs ----------------------------
(***************************************************************************)
(* Quantities add up: the aggregates of the price levels, the volume a     *)
(* fill-or-kill order counts on, the open volume and the net positions of  *)
(* the accounts, and the position limit, which is checked with them.  Each *)
(* of them is a sum that a step changes in one place.                      *)
(***************************************************************************)
EXTENDS RiskHistory, EngineProofs, Sums

----------------------------------------------------------------------------
(* What a step does to the book is one of the operations of the book.       *)

BookStep ==
    \/ UNCHANGED bookVars
    \/ \E id \in DOMAIN resting : CancelResting(id)
    \/ \E id \in DOMAIN resting, qty \in Nat \ {0} : Reduce(id, qty)
    \/ \E side \in Sides : \E price \in DOMAIN levels[side] :
          Detach(side, price)
    \/ /\ phase = "match"
       /\ live.owner \in Owners
       /\ \E side \in Sides : \E price \in DOMAIN levels[side] :
          \E traded \in Nat : FillHead(side, price, traded, live.owner)
    \/ /\ phase = "match"
       /\ \E id \in Nat \ DOMAIN resting, order \in RestingOrder,
             display, hidden \in Nat :
             order.owner = live.owner /\ Insert(id, order, display, hidden)

\* What rests of an order is cut into a shown part and a hidden one.
LEMMA RestFacts ==
    ASSUME Inv, RestRemainder
    PROVE  \E order \in RestingOrder, hidden \in Nat :
              /\ Insert(live.order_id, order, live.display, hidden)
              /\ order.side = live.side
              /\ order.owner = live.owner
              /\ order.qty + hidden = live.qty
              /\ live.order_id \in Nat \ DOMAIN resting
              /\ live.display \in Nat
<1>. DEFINE visible == IF live.display > 0 /\ live.display < live.qty
                       THEN live.display ELSE live.qty
            hidden  == live.qty - visible
            order   == [side |-> live.side, price |-> live.limit_price,
                        qty |-> visible, seq |-> seq, owner |-> live.owner]
<1>1. /\ phase = "match"
      /\ live.limit_price # None
      /\ Insert(live.order_id, order, live.display, hidden)
  BY DEF RestRemainder, Matching, Rests
<1>2. /\ live.order_id \in Nat
      /\ live.side \in Sides
      /\ live.limit_price \in Nat
      /\ live.qty \in Nat
      /\ live.display \in Nat
      /\ live.owner \in Owners
      /\ seq \in Nat
  BY <1>1, LiveFacts
<1>3. visible \in Nat /\ hidden \in Nat /\ visible + hidden = live.qty
  BY <1>2
<1>4. /\ order \in RestingOrder
      /\ order.side = live.side
      /\ order.owner = live.owner
      /\ order.qty = visible
  BY <1>2, <1>3 DEF RestingOrder
<1>5. live.order_id \notin DOMAIN resting
  BY <1>1 DEF Inv, OneHome, LiveIds
<1>. HIDE DEF visible, hidden, order
<1>. QED  BY <1>1, <1>2, <1>3, <1>4, <1>5

\* A trade is not larger than what is left of either side.
LEMMA TradeFacts ==
    ASSUME Inv, phase = "match", NEW price \in DOMAIN levels[MakerSide],
           TradeWithHead(price)
    PROVE  \E traded \in Nat :
              /\ FillHead(MakerSide, price, traded, live.owner)
              /\ traded <= live.qty
              /\ live'.qty = live.qty - traded
              /\ live'.side = live.side
              /\ live'.owner = live.owner
              /\ live'.tif = live.tif
              /\ live'.stp = live.stp
              /\ live'.limit_price = live.limit_price
              /\ MatchesAt(price)
              /\ UNCHANGED <<seq, next_order_id, stops, phase, command>>
<1>. DEFINE traded == Min({live.qty, resting[HeadOf(price)].qty})
<1>1. /\ live \in LiveOrder
      /\ live.qty \in Nat
      /\ resting[HeadOf(price)].qty \in Nat
  BY LiveFacts, MakerFacts
<1>2. /\ FillHead(MakerSide, price, traded, live.owner)
      /\ live' = [live EXCEPT !.qty = live.qty - traded, !.last_px = price]
      /\ MatchesAt(price)
      /\ UNCHANGED <<seq, next_order_id, stops, phase, command>>
  BY DEF TradeWithHead
<1>3. traded \in Nat /\ traded <= live.qty
  BY <1>1, MinOfTwo
<1>. HIDE DEF traded
<1>. QED  BY <1>1, <1>2, <1>3 DEF LiveOrder

LEMMA NextIsBookStep ==
    ASSUME Inv, [Next]_vars
    PROVE  BookStep
<1>1. CASE \E order \in NewOrders : SubmitNew(order)
  BY <1>1 DEF SubmitNew, RejectCommand, ParkStop, RefuseOrder, AcceptOrder,
              BookStep
<1>2. CASE \E id \in KnownIds : SubmitCancel(id)
  BY <1>2 DEF SubmitCancel, CancelInBook, CancelStop, CancelUnknown, BookStep
<1>3. CASE \E id \in KnownIds, a \in Amendments : SubmitModify(id, a)
  <2>1. PICK id \in KnownIds, a \in Amendments : SubmitModify(id, a)
    BY <1>3
  <2>2. id \in Nat
    BY DEF KnownIds, Inv, CallTypeOK
  <2>3. CASE ModifyInPlace(id, a)
    <3>1. a.qty \in Nat \ {0}
      BY <2>2, <2>3, AmendmentHasQty DEF ModifyInPlace, Admit
    <3>. QED  BY <2>3, <3>1 DEF ModifyInPlace, BookStep
  <2>4. CASE RejectCommand(Modify(id, a)) \/ ModifyUnknown(id, a)
             \/ ModifyReplace(id, a)
    BY <2>4 DEF RejectCommand, ModifyUnknown, ModifyReplace, BookStep
  <2>. QED  BY <2>1, <2>3, <2>4 DEF SubmitModify
<1>4. CASE phase = "match" /\ MatchStep
  <2>1. PICK price \in DOMAIN levels[MakerSide] :
           \/ TradeWithHead(price)
           \/ CancelMaker(price)
           \/ CancelTaker(price)
           \/ CancelBoth(price)
    BY <1>4 DEF MatchStep
  <2>2. MakerSide \in Sides /\ live.owner \in Owners
    BY <1>4, LiveFacts
  <2>3. CASE TradeWithHead(price)
    BY <1>4, <2>2, <2>3, TradeFacts DEF BookStep
  <2>4. CASE CancelMaker(price) \/ CancelTaker(price) \/ CancelBoth(price)
    BY <2>2, <2>4 DEF CancelMaker, CancelTaker, CancelBoth, BookStep
  <2>. QED  BY <2>1, <2>3, <2>4
<1>5. CASE FinishStep
  <2>1. CASE RestRemainder
    BY <2>1, RestFacts DEF BookStep, RestRemainder, Matching
  <2>. QED  BY <1>5, <2>1 DEF FinishStep, FinishFilled, CancelRemainder,
                              BookStep
<1>6. CASE StopStep
  BY <1>6 DEF StopStep, ActivateStop, RefuseStop, BookStep
<1>7. CASE StopsSettled \/ Deliver
  BY <1>7 DEF StopsSettled, Deliver, BookStep
<1>8. CASE UNCHANGED vars
  BY <1>8 DEF vars, BookStep
<1>. QED  BY <1>1, <1>2, <1>3, <1>4, <1>5, <1>6, <1>7, <1>8 DEF Next, Run

----------------------------------------------------------------------------
(* A step of the book changes one order, and with it the aggregate of one   *)
(* level and the open volume of one account.                                *)

ShownOf(id) == IF id \in DOMAIN resting THEN resting[id].qty ELSE 0
VolumeOf(id) ==
    IF id \in DOMAIN resting THEN resting[id].qty + Hidden(id) ELSE 0
TotalOf(side, price) == LevelAt(side, price).total_qty

\* An order rests on this side, at this price, for this owner, if it rests.
RestsAs(id, side, price, owner) ==
    id \in DOMAIN resting =>
        /\ resting[id].side = side
        /\ resting[id].price = price
        /\ resting[id].owner = owner

\* Only this order enters, leaves or changes, and its level follows.
OneOrder(id, side, price, owner) ==
    /\ RestsAs(id, side, price, owner)
    /\ RestsAs(id, side, price, owner)'
    /\ DOMAIN resting' \ {id} = DOMAIN resting \ {id}
    /\ \A x \in DOMAIN resting \ {id} :
          /\ resting'[x] = resting[x]
          /\ Hidden(x)' = Hidden(x)
    /\ \A s \in Sides : \A p \in DOMAIN levels'[s] :
          levels'[s][p].total_qty =
              TotalOf(s, p) + IF s = side /\ p = price
                              THEN ShownOf(id)' - ShownOf(id) ELSE 0

\* The aggregate of every level after a step that sets one of them.
LEMMA OneTotal ==
    ASSUME BookInv, NEW side \in Sides, NEW price \in Nat,
           NEW level \in PriceLevel, levels' = SetLevel(side, price, level),
           NEW delta \in Int, level.total_qty = TotalOf(side, price) + delta
    PROVE  \A s \in Sides : \A p \in DOMAIN levels'[s] :
              levels'[s][p].total_qty =
                  TotalOf(s, p) + IF s = side /\ p = price THEN delta ELSE 0
<1>1. LevelsTypeOK
  BY DEF BookInv, BookTypeOK
<1>2. ASSUME NEW s \in Sides, NEW p \in DOMAIN levels'[s]
      PROVE  levels'[s][p].total_qty =
                TotalOf(s, p) + IF s = side /\ p = price THEN delta ELSE 0
  <2>1. CASE s = side /\ p = price
    <3>1. levels'[side][price] = level
      BY <1>1, <2>1, SetLevelFacts
    <3>. QED  BY <2>1, <3>1
  <2>2. CASE ~(s = side /\ p = price)
    <3>1. p \in DOMAIN levels[s] /\ levels'[s][p] = levels[s][p]
      BY <1>1, <2>2, SetLevelFacts
    <3>2. levels[s][p].total_qty \in Int
      BY <3>1, LevelFacts DEF PriceLevel
    <3>. QED  BY <2>2, <3>1, <3>2 DEF TotalOf, LevelAt
  <2>. QED  BY <2>1, <2>2
<1>. QED  BY <1>2

LEMMA OneRemoved ==
    ASSUME BookInv, NEW id \in DOMAIN resting,
           NEW side \in Sides, side = resting[id].side,
           NEW price \in Nat, price = resting[id].price,
           NEW level \in PriceLevel,
           level.total_qty = levels[side][price].total_qty - resting[id].qty,
           levels' = SetLevel(side, price, level),
           resting' = Drop(resting, id),
           reserves' = Drop(reserves, id)
    PROVE  /\ OneOrder(id, side, price, resting[id].owner)
           /\ ShownOf(id)' = 0
           /\ VolumeOf(id)' = 0
<1>1. /\ DOMAIN resting' = DOMAIN resting \ {id}
      /\ \A x \in DOMAIN resting \ {id} : resting'[x] = resting[x]
  BY DropFacts
<1>2. /\ DOMAIN reserves' = DOMAIN reserves \ {id}
      /\ \A x \in DOMAIN reserves \ {id} : reserves'[x] = reserves[x]
  BY DropFacts
<1>3. /\ resting[id].qty \in Nat
      /\ price \in DOMAIN levels[side]
      /\ levels[side][price].total_qty \in Int
  BY OrderFacts, LevelFacts DEF PriceLevel
<1>4. ShownOf(id)' = 0 /\ VolumeOf(id)' = 0 /\ ShownOf(id) = resting[id].qty
  BY <1>1 DEF ShownOf, VolumeOf
<1>5. /\ TotalOf(side, price) = levels[side][price].total_qty
      /\ level.total_qty = TotalOf(side, price) + (0 - ShownOf(id))
      /\ 0 - ShownOf(id) \in Int
  BY <1>3, <1>4 DEF TotalOf, LevelAt
<1>6. \A s \in Sides : \A p \in DOMAIN levels'[s] :
         levels'[s][p].total_qty =
             TotalOf(s, p) + IF s = side /\ p = price
                             THEN ShownOf(id)' - ShownOf(id) ELSE 0
  BY <1>4, <1>5, OneTotal
<1>. QED  BY <1>1, <1>2, <1>4, <1>6 DEF OneOrder, RestsAs, Hidden

LEMMA OneResized ==
    ASSUME BookInv, NEW id \in DOMAIN resting,
           NEW side \in Sides, side = resting[id].side,
           NEW price \in Nat, price = resting[id].price,
           NEW level \in PriceLevel, NEW qty \in Nat,
           level.total_qty =
               levels[side][price].total_qty - resting[id].qty + qty,
           levels' = SetLevel(side, price, level),
           resting' = [resting EXCEPT ![id].qty = qty],
           \A x \in DOMAIN resting \ {id} : Hidden(x)' = Hidden(x)
    PROVE  /\ OneOrder(id, side, price, resting[id].owner)
           /\ ShownOf(id)' = qty
           /\ VolumeOf(id)' = qty + Hidden(id)'
<1>1. IsMap(resting, Nat, RestingOrder) /\ resting[id] \in RestingOrder
  BY OrderFacts DEF BookInv, BookTypeOK
<1>2. /\ DOMAIN resting' = DOMAIN resting
      /\ \A x \in DOMAIN resting \ {id} : resting'[x] = resting[x]
      /\ resting'[id] = [resting[id] EXCEPT !.qty = qty]
  BY <1>1 DEF IsMap
<1>3. /\ resting'[id].qty = qty
      /\ resting'[id].side = resting[id].side
      /\ resting'[id].price = resting[id].price
      /\ resting'[id].owner = resting[id].owner
  BY <1>1, <1>2 DEF RestingOrder
<1>4. /\ resting[id].qty \in Nat
      /\ price \in DOMAIN levels[side]
      /\ levels[side][price].total_qty \in Int
  BY OrderFacts, LevelFacts DEF PriceLevel
<1>5. /\ ShownOf(id)' = qty
      /\ VolumeOf(id)' = qty + Hidden(id)'
      /\ ShownOf(id) = resting[id].qty
  BY <1>2, <1>3 DEF ShownOf, VolumeOf
<1>6. /\ TotalOf(side, price) = levels[side][price].total_qty
      /\ level.total_qty = TotalOf(side, price) + (qty - ShownOf(id))
      /\ qty - ShownOf(id) \in Int
  BY <1>4, <1>5 DEF TotalOf, LevelAt
<1>7. \A s \in Sides : \A p \in DOMAIN levels'[s] :
         levels'[s][p].total_qty =
             TotalOf(s, p) + IF s = side /\ p = price
                             THEN ShownOf(id)' - ShownOf(id) ELSE 0
  BY <1>5, <1>6, OneTotal
<1>. QED  BY <1>2, <1>3, <1>5, <1>7 DEF OneOrder, RestsAs

----------------------------------------------------------------------------
(* Accounts *)

\* The open volume of one account on one side changes.
OpenMoves(owner, side, delta) ==
    \A o \in Accounts, s \in Sides :
        accounts'[o].open[s] = accounts[o].open[s] +
            IF o = owner /\ s = side THEN delta ELSE 0

NetsSame == \A o \in Accounts : accounts'[o].net = accounts[o].net

\* An account's open volume covers each of its resting orders, so that
\* nothing saturates when one is released.
OpenCovers ==
    \A id \in DOMAIN resting : resting[id].owner \in Accounts =>
        VolumeOf(id) <= accounts[resting[id].owner].open[resting[id].side]

LEMMA OpenFacts ==
    ASSUME NEW accts \in [Accounts -> AccountState], NEW owner \in Owners,
           NEW side \in Sides, NEW qty \in Nat,
           NEW o \in Accounts, NEW s \in Sides
    PROVE  /\ AddOpen(accts, owner, side, qty)[o].open[s] =
                 accts[o].open[s] + IF o = owner /\ s = side THEN qty ELSE 0
           /\ AddOpen(accts, owner, side, qty)[o].net = accts[o].net
           /\ (owner \in Accounts => qty <= accts[owner].open[side]) =>
                 SubOpen(accts, owner, side, qty)[o].open[s] =
                    accts[o].open[s] - IF o = owner /\ s = side
                                       THEN qty ELSE 0
           /\ SubOpen(accts, owner, side, qty)[o].net = accts[o].net
           /\ Fill(accts, owner, side, qty)[o].open = accts[o].open
           /\ Fill(accts, owner, side, qty)[o].net = accts[o].net +
                 IF o = owner THEN (IF side = "Buy" THEN qty ELSE -qty) ELSE 0
<1>1. /\ accts[o] \in AccountState
      /\ accts[o].net \in Int
      /\ accts[o].open \in [Sides -> Nat]
      /\ accts[o].open[s] \in Nat
      /\ o # Anonymous
  BY AccountsAssumption DEF AccountState, Anonymous
<1>2. CASE owner = Anonymous
  BY <1>1, <1>2 DEF AddOpen, SubOpen, Fill
<1>3. CASE owner # Anonymous
  <2>1. /\ owner \in Accounts
        /\ accts[owner] \in AccountState
        /\ accts[owner].net \in Int
        /\ accts[owner].open \in [Sides -> Nat]
        /\ accts[owner].open[side] \in Nat
    BY <1>3 DEF Owners, AccountState
  <2>2. /\ AddOpen(accts, owner, side, qty)[o].open[s] =
              accts[o].open[s] + IF o = owner /\ s = side THEN qty ELSE 0
        /\ AddOpen(accts, owner, side, qty)[o].net = accts[o].net
    BY <1>1, <1>3, <2>1 DEF AddOpen, AccountState
  <2>3. /\ qty <= accts[owner].open[side] =>
              SubOpen(accts, owner, side, qty)[o].open[s] =
                 accts[o].open[s] - IF o = owner /\ s = side THEN qty ELSE 0
        /\ SubOpen(accts, owner, side, qty)[o].net = accts[o].net
    <3> DEFINE less == IF accts[owner].open[side] > qty
                       THEN accts[owner].open[side] - qty ELSE 0
    <3>2. qty <= accts[owner].open[side] =>
             less = accts[owner].open[side] - qty
      BY <2>1
    <3>. HIDE DEF less
    <3>3. SubOpen(accts, owner, side, qty) =
             [accts EXCEPT ![owner].open[side] = less]
      BY <1>3 DEF SubOpen, less
    <3>4. SubOpen(accts, owner, side, qty)[o] =
             IF o = owner THEN [accts[o] EXCEPT !.open[side] = less]
             ELSE accts[o]
      BY <2>1, <3>3
    <3>5. /\ [accts[o] EXCEPT !.open[side] = less].net = accts[o].net
          /\ [accts[o] EXCEPT !.open[side] = less].open[s] =
                IF s = side THEN less ELSE accts[o].open[s]
      BY <1>1 DEF AccountState
    <3>. QED  BY <1>1, <3>2, <3>4, <3>5
  <2>4. /\ Fill(accts, owner, side, qty)[o].open = accts[o].open
        /\ Fill(accts, owner, side, qty)[o].net = accts[o].net +
              IF o = owner THEN (IF side = "Buy" THEN qty ELSE -qty) ELSE 0
    BY <1>1, <1>3, <2>1 DEF Fill, AccountState
  <2>. QED  BY <2>1, <2>2, <2>3, <2>4
<1>. QED  BY <1>2, <1>3

\* An order that leaves the book releases all it showed and hid.
LEMMA Released ==
    ASSUME BookInv, OpenCovers, NEW id \in DOMAIN resting,
           NEW side, side = resting[id].side,
           NEW qty \in Nat, qty <= VolumeOf(id),
           accounts' = SubOpen(accounts, resting[id].owner, side, qty)
    PROVE  /\ OpenMoves(resting[id].owner, side, -qty)
           /\ NetsSame
<1>1. /\ accounts \in [Accounts -> AccountState]
      /\ resting[id].owner \in Owners
      /\ side \in Sides
      /\ resting[id].qty \in Nat
      /\ Hidden(id) \in Nat
  BY OrderFacts DEF BookInv, BookTypeOK
<1>2. VolumeOf(id) \in Nat
  BY <1>1 DEF VolumeOf
<1>3. ASSUME resting[id].owner \in Accounts
      PROVE  qty <= accounts[resting[id].owner].open[side]
  <2>1. VolumeOf(id) <= accounts[resting[id].owner].open[side]
    BY <1>3 DEF OpenCovers
  <2>2. accounts[resting[id].owner].open[side] \in Nat
    BY <1>1, <1>3 DEF AccountState
  <2>. QED  BY <1>2, <2>1, <2>2
<1>4. ASSUME NEW o \in Accounts, NEW s \in Sides
      PROVE  /\ accounts'[o].open[s] = accounts[o].open[s] +
                   IF o = resting[id].owner /\ s = side THEN -qty ELSE 0
             /\ accounts'[o].net = accounts[o].net
  <2>1. /\ accounts'[o].open[s] = accounts[o].open[s] -
              IF o = resting[id].owner /\ s = side THEN qty ELSE 0
        /\ accounts'[o].net = accounts[o].net
    BY <1>1, <1>3, OpenFacts
  <2>2. accounts[o].open[s] \in Nat
    BY <1>1 DEF AccountState
  <2>. QED  BY <2>1, <2>2
<1>. QED  BY <1>4 DEF OpenMoves, NetsSame, Sides

----------------------------------------------------------------------------
(* The operations of the book, as moves of one order *)

OneMove(id, side, price, owner) ==
    /\ OneOrder(id, side, price, owner)
    /\ OpenMoves(owner, side, VolumeOf(id)' - VolumeOf(id))

LEMMA OrderVolume ==
    ASSUME BookInv, NEW id \in DOMAIN resting
    PROVE  /\ VolumeOf(id) = OpenVolume(id)
           /\ VolumeOf(id) = ShownOf(id) + Hidden(id)
           /\ ShownOf(id) = resting[id].qty
           /\ Hidden(id) \in Nat
           /\ ShownOf(id) \in Nat
           /\ VolumeOf(id) \in Nat
           /\ ShownOf(id) <= VolumeOf(id)
<1>1. resting[id].qty \in Nat /\ Hidden(id) \in Nat
  BY OrderFacts
<1>. QED  BY <1>1 DEF VolumeOf, ShownOf, OpenVolume

LEMMA CancelMoves ==
    ASSUME BookInv, OpenCovers, NEW id \in DOMAIN resting, CancelResting(id)
    PROVE  /\ OneMove(id, resting[id].side, resting[id].price,
                      resting[id].owner)
           /\ ShownOf(id)' = 0
           /\ VolumeOf(id)' = 0
           /\ NetsSame
<1> DEFINE side  == resting[id].side
           price == resting[id].price
           level == [total_qty |-> levels[side][price].total_qty
                                       - resting[id].qty,
                     fifo |-> Unlink(levels[side][price].fifo, id)]
<1>1. /\ side \in Sides
      /\ price \in DOMAIN levels[side]
      /\ id \in ToSet(FifoOf(side, price))
      /\ resting[id].qty \in Nat
  BY OrderFacts
<1>2. /\ price \in Nat
      /\ levels[side][price].total_qty \in Int
      /\ FifoOf(side, price) \in Seq(Nat)
      /\ IsInjective(FifoOf(side, price))
  BY <1>1, LevelFacts DEF PriceLevel
<1>3. level \in PriceLevel
  BY <1>1, <1>2, UnlinkFacts DEF FifoOf, PriceLevel
<1>4. /\ levels' = SetLevel(side, price, level)
      /\ resting' = Drop(resting, id)
      /\ reserves' = Drop(reserves, id)
      /\ accounts' = SubOpen(accounts, resting[id].owner, side,
                             OpenVolume(id))
  BY DEF CancelResting
<1>5. level.total_qty = levels[side][price].total_qty - resting[id].qty
  OBVIOUS
<1>. HIDE DEF level, side, price
<1>6. /\ OneOrder(id, side, price, resting[id].owner)
      /\ ShownOf(id)' = 0
      /\ VolumeOf(id)' = 0
  BY <1>1, <1>2, <1>3, <1>4, <1>5, OneRemoved DEF side, price
<1>7. /\ OpenMoves(resting[id].owner, side, -VolumeOf(id))
      /\ NetsSame
      /\ -VolumeOf(id) = VolumeOf(id)' - VolumeOf(id)
  BY <1>4, <1>6, OrderVolume, Released DEF side
<1>. QED  BY <1>6, <1>7 DEF OneMove, side, price

LEMMA DetachMoves ==
    ASSUME BookInv, OpenCovers, NEW side \in Sides,
           NEW price \in DOMAIN levels[side], Detach(side, price),
           NEW id, id = Head(FifoOf(side, price))
    PROVE  /\ OneMove(id, side, price, resting[id].owner)
           /\ ShownOf(id)' = 0
           /\ VolumeOf(id)' = 0
           /\ NetsSame
<1> DEFINE level == [total_qty |-> levels[side][price].total_qty
                                       - resting[id].qty,
                     fifo |-> Tail(levels[side][price].fifo)]
<1>1. /\ id \in DOMAIN resting
      /\ side = resting[id].side
      /\ price = resting[id].price
      /\ Tail(FifoOf(side, price)) \in Seq(Nat)
  BY HeadFacts
<1>6. resting[id].qty \in Nat
  BY HeadFacts
<1>2. price \in Nat /\ levels[side][price].total_qty \in Int
  BY LevelFacts DEF PriceLevel
<1>3. level.total_qty = levels[side][price].total_qty - resting[id].qty
  OBVIOUS
<1>5. level \in PriceLevel
  <2>1. levels[side][price].total_qty - resting[id].qty \in Int
    BY <1>2, <1>6
  <2>2. Tail(levels[side][price].fifo) \in Seq(Nat)
    BY <1>1 DEF FifoOf
  <2>. QED  BY <2>1, <2>2 DEF PriceLevel
<1>4. /\ levels' = SetLevel(side, price, level)
      /\ resting' = Drop(resting, id)
      /\ reserves' = Drop(reserves, id)
      /\ accounts' = SubOpen(accounts, resting[id].owner, side,
                             OpenVolume(id))
  BY DEF Detach, FifoOf
<1>. HIDE DEF level
<1>7. /\ OneOrder(id, side, price, resting[id].owner)
      /\ ShownOf(id)' = 0
      /\ VolumeOf(id)' = 0
  BY <1>1, <1>2, <1>3, <1>4, <1>5, <1>6, OneRemoved
<1>8. /\ OpenMoves(resting[id].owner, side, -VolumeOf(id))
      /\ NetsSame
      /\ -VolumeOf(id) = VolumeOf(id)' - VolumeOf(id)
  <2>1. /\ VolumeOf(id) = OpenVolume(id)
        /\ VolumeOf(id) \in Nat
    BY <1>1, OrderVolume
  <2>2. accounts' = SubOpen(accounts, resting[id].owner, side, VolumeOf(id))
    BY <1>4, <2>1
  <2>3. -VolumeOf(id) = VolumeOf(id)' - VolumeOf(id)
    BY <1>7, <2>1
  <2>4. VolumeOf(id) <= VolumeOf(id)
    BY <2>1
  <2>. QED  BY <1>1, <2>1, <2>2, <2>3, <2>4, Released
<1>. QED  BY <1>7, <1>8 DEF OneMove

LEMMA ReduceMoves ==
    ASSUME BookInv, OpenCovers, NEW id \in DOMAIN resting,
           NEW qty \in Nat, Reduce(id, qty)
    PROVE  /\ OneMove(id, resting[id].side, resting[id].price,
                      resting[id].owner)
           /\ ShownOf(id)' = qty
           /\ \E gone \in Nat : VolumeOf(id)' = VolumeOf(id) - gone
           /\ NetsSame
<1> DEFINE side  == resting[id].side
           price == resting[id].price
           total == levels[side][price].total_qty - (resting[id].qty - qty)
           level == [levels[side][price] EXCEPT !.total_qty = total]
<1>1. /\ side \in Sides
      /\ price \in DOMAIN levels[side]
      /\ resting[id].qty \in Nat
  BY OrderFacts
<1>2. /\ price \in Nat
      /\ levels[side][price] \in PriceLevel
      /\ levels[side][price].total_qty \in Int
  BY <1>1, LevelFacts DEF PriceLevel
<1>3. /\ level \in PriceLevel
      /\ level.total_qty =
            levels[side][price].total_qty - resting[id].qty + qty
  <2>1. /\ total \in Int
        /\ total = levels[side][price].total_qty - resting[id].qty + qty
    BY <1>1, <1>2
  <2>. HIDE DEF total
  <2>. QED  BY <1>2, <2>1 DEF PriceLevel
<1>4. /\ levels' = SetLevel(side, price, level)
      /\ resting' = [resting EXCEPT ![id].qty = qty]
      /\ reserves' = reserves
      /\ qty < resting[id].qty
      /\ accounts' = SubOpen(accounts, resting[id].owner, side,
                             resting[id].qty - qty)
  BY <1>2 DEF Reduce, PriceLevel
<1>5. \A x : Hidden(x)' = Hidden(x)
  BY <1>4 DEF Hidden
<1>. HIDE DEF level, side, price
<1>6. /\ OneOrder(id, side, price, resting[id].owner)
      /\ ShownOf(id)' = qty
      /\ VolumeOf(id)' = qty + Hidden(id)
  BY <1>1, <1>2, <1>3, <1>4, <1>5, OneResized DEF side, price
<1>7. /\ resting[id].qty - qty \in Nat
      /\ resting[id].qty - qty <= VolumeOf(id)
      /\ -(resting[id].qty - qty) = VolumeOf(id)' - VolumeOf(id)
      /\ VolumeOf(id)' = VolumeOf(id) - (resting[id].qty - qty)
  BY <1>1, <1>4, <1>6, OrderVolume
<1>8. /\ OpenMoves(resting[id].owner, side, -(resting[id].qty - qty))
      /\ NetsSame
  BY <1>4, <1>7, Released DEF side
<1>. QED  BY <1>6, <1>7, <1>8 DEF OneMove, side, price

LEMMA InsertMoves ==
    ASSUME BookInv, NEW id \in Nat \ DOMAIN resting, NEW order \in RestingOrder,
           NEW display \in Nat, NEW hidden \in Nat,
           Insert(id, order, display, hidden)
    PROVE  /\ OneMove(id, order.side, order.price, order.owner)
           /\ ShownOf(id) = 0
           /\ ShownOf(id)' = order.qty
           /\ VolumeOf(id) = 0
           /\ VolumeOf(id)' = order.qty + hidden
           /\ NetsSame
<1> DEFINE side  == order.side
           price == order.price
           old   == LevelAt(side, price)
           level == [total_qty |-> old.total_qty + order.qty,
                     fifo |-> LinkBack(old.fifo, id)]
<1>1. /\ side \in Sides
      /\ price \in Nat
      /\ order.qty \in Nat
      /\ order.owner \in Owners
      /\ accounts \in [Accounts -> AccountState]
  BY DEF RestingOrder, BookInv, BookTypeOK
<1>2. old.total_qty \in Int /\ old.fifo \in Seq(Nat)
  BY <1>1, LevelFacts DEF LevelAt, EmptyLevel, PriceLevel
<1>. HIDE DEF old
<1>3. /\ level \in PriceLevel
      /\ level.total_qty = TotalOf(side, price) + order.qty
  BY <1>1, <1>2, AppendProperties DEF PriceLevel, LinkBack, TotalOf, old
<1>4. /\ levels' = SetLevel(side, price, level)
      /\ resting' = Put(resting, id, order)
      /\ reserves' = IF hidden > 0
                     THEN Put(reserves, id,
                              [display |-> display, hidden |-> hidden])
                     ELSE reserves
      /\ accounts' = AddOpen(accounts, order.owner, side, order.qty + hidden)
  BY DEF Insert, old
<1>. HIDE DEF level, side, price
<1>5. /\ DOMAIN resting' = DOMAIN resting \cup {id}
      /\ resting'[id] = order
      /\ \A x \in DOMAIN resting : resting'[x] = resting[x]
  <2>1. resting' = Put(resting, id, order)
    BY <1>4
  <2>2. DOMAIN resting \ {id} = DOMAIN resting
    OBVIOUS
  <2>. QED  BY <2>1, <2>2 DEF Put
<1>6. id \notin DOMAIN reserves
  BY DEF BookInv, NothingEmptyRests
<1>7. /\ \A x \in DOMAIN resting : Hidden(x)' = Hidden(x)
      /\ Hidden(id)' = hidden
  <2>1. CASE hidden > 0
    <3> DEFINE reserve == [display |-> display, hidden |-> hidden]
    <3>0. reserves' = Put(reserves, id, reserve) /\ reserve.hidden = hidden
      BY <1>4, <2>1
    <3>. HIDE DEF reserve
    <3>1. /\ DOMAIN reserves' = DOMAIN reserves \cup {id}
          /\ reserves'[id] = reserve
          /\ \A x \in DOMAIN reserves \ {id} : reserves'[x] = reserves[x]
      BY <3>0 DEF Put
    <3>. QED  BY <1>6, <3>0, <3>1 DEF Hidden
  <2>2. CASE ~(hidden > 0)
    <3>1. reserves' = reserves /\ hidden = 0
      BY <1>4, <2>2
    <3>. QED  BY <1>6, <3>1 DEF Hidden
  <2>. QED  BY <2>1, <2>2
<1>8. /\ ShownOf(id) = 0
      /\ ShownOf(id)' = order.qty
      /\ VolumeOf(id) = 0
      /\ VolumeOf(id)' = order.qty + hidden
      /\ order.qty + hidden \in Nat
  BY <1>1, <1>5, <1>7 DEF ShownOf, VolumeOf
<1>9. \A s \in Sides : \A p \in DOMAIN levels'[s] :
         levels'[s][p].total_qty =
             TotalOf(s, p) + IF s = side /\ p = price
                             THEN ShownOf(id)' - ShownOf(id) ELSE 0
  <2>1. ShownOf(id)' - ShownOf(id) = order.qty
    BY <1>1, <1>8
  <2>. QED  BY <1>1, <1>3, <1>4, <2>1, OneTotal
<1>10. OneOrder(id, side, price, order.owner)
  BY <1>5, <1>7, <1>9 DEF OneOrder, RestsAs, side, price
<1>11. OpenMoves(order.owner, side, order.qty + hidden) /\ NetsSame
  <2>1. PICK owner \in Owners, qty \in Nat :
           owner = order.owner /\ qty = order.qty + hidden
    BY <1>1, <1>8
  <2>2. accounts' = AddOpen(accounts, owner, side, qty)
    BY <1>4, <2>1
  <2>3. ASSUME NEW o \in Accounts, NEW s \in Sides
        PROVE  /\ accounts'[o].open[s] = accounts[o].open[s] +
                     IF o = owner /\ s = side THEN qty ELSE 0
               /\ accounts'[o].net = accounts[o].net
    BY <1>1, <2>2, OpenFacts
  <2>4. OpenMoves(owner, side, qty)
    BY <2>3 DEF OpenMoves
  <2>5. NetsSame
    BY <2>3 DEF NetsSame, Sides
  <2>. QED  BY <2>1, <2>4, <2>5
<1>. QED  BY <1>8, <1>10, <1>11 DEF OneMove, side, price

----------------------------------------------------------------------------
(* A fill *)

Signed(side, qty) == IF side = "Buy" THEN qty ELSE -qty

\* A trade moves as much into one position as out of another.
NetsMove(taker_owner, owner, side, traded) ==
    \A o \in Accounts :
        accounts'[o].net = accounts[o].net
            + (IF o = taker_owner THEN Signed(Opposite(side), traded) ELSE 0)
            + (IF o = owner THEN Signed(side, traded) ELSE 0)

LEMMA FillSettles ==
    ASSUME BookInv, OpenCovers, NEW id \in DOMAIN resting,
           NEW side, side = resting[id].side,
           NEW traded \in Nat, traded <= VolumeOf(id),
           NEW taker_owner \in Owners,
           SettleFill(resting[id], side, traded, taker_owner)
    PROVE  /\ OpenMoves(resting[id].owner, side, -traded)
           /\ NetsMove(taker_owner, resting[id].owner, side, traded)
<1> DEFINE owner == resting[id].owner
           once  == Fill(accounts, taker_owner, Opposite(side), traded)
           twice == Fill(once, owner, side, traded)
<1>1. /\ accounts \in [Accounts -> AccountState]
      /\ owner \in Owners
      /\ side \in Sides
      /\ VolumeOf(id) \in Nat
  BY OrderFacts, OrderVolume DEF BookInv, BookTypeOK
<1>2. Opposite(side) \in Sides
  BY <1>1, OppositeSide
<1>3. accounts' = SubOpen(twice, owner, side, traded)
  BY DEF SettleFill
<1>. HIDE DEF owner
<1>4. once \in [Accounts -> AccountState]
  BY <1>1, <1>2, AccountsTyped
<1>5. ASSUME NEW o \in Accounts
      PROVE  /\ once[o].open = accounts[o].open
             /\ once[o].net = accounts[o].net +
                   IF o = taker_owner THEN Signed(Opposite(side), traded)
                   ELSE 0
  BY <1>1, <1>2, OpenFacts DEF Signed
<1>. HIDE DEF once
<1>6. twice \in [Accounts -> AccountState]
  BY <1>1, <1>4, AccountsTyped
<1>7. ASSUME NEW o \in Accounts
      PROVE  /\ twice[o].open = once[o].open
             /\ twice[o].net = once[o].net +
                   IF o = owner THEN Signed(side, traded) ELSE 0
  BY <1>1, <1>4, OpenFacts DEF Signed
<1>. HIDE DEF twice
<1>8. ASSUME owner \in Accounts
      PROVE  traded <= twice[owner].open[side]
  <2>1. VolumeOf(id) <= accounts[owner].open[side]
    BY <1>8 DEF OpenCovers, owner
  <2>2. /\ accounts[owner].open[side] \in Nat
        /\ twice[owner].open = accounts[owner].open
    BY <1>1, <1>5, <1>7, <1>8 DEF AccountState
  <2>. QED  BY <1>1, <2>1, <2>2
<1>9. ASSUME NEW o \in Accounts, NEW s \in Sides
      PROVE  accounts'[o].open[s] = accounts[o].open[s] +
                IF o = owner /\ s = side THEN -traded ELSE 0
  <2>1. accounts'[o].open[s] = twice[o].open[s] -
              IF o = owner /\ s = side THEN traded ELSE 0
    BY <1>1, <1>3, <1>6, <1>8, OpenFacts
  <2>2. accounts[o].open[s] \in Nat /\ twice[o].open = accounts[o].open
    BY <1>1, <1>5, <1>7 DEF AccountState
  <2>. QED  BY <2>1, <2>2
<1>10. ASSUME NEW o \in Accounts
       PROVE  accounts'[o].net = accounts[o].net
                 + (IF o = taker_owner THEN Signed(Opposite(side), traded)
                    ELSE 0)
                 + (IF o = owner THEN Signed(side, traded) ELSE 0)
  <2>1. accounts'[o].net = twice[o].net
    BY <1>1, <1>3, <1>6, OpenFacts
  <2>. QED  BY <2>1, <1>5, <1>7
<1>. QED  BY <1>9, <1>10 DEF OpenMoves, NetsMove, owner

\* The head gives what was traded, and an iceberg shows a peak again.
LEMMA HeadTrades ==
    ASSUME BookInv, NEW side \in Sides, NEW price \in DOMAIN levels[side],
           NEW traded \in Nat, NEW id, id = Head(FifoOf(side, price)),
           \/ FillPart(side, price, traded)
           \/ FillAndRefill(side, price, traded)
           \/ FillAndRemove(side, price, traded)
    PROVE  /\ OneOrder(id, side, price, resting[id].owner)
           /\ traded <= ShownOf(id)
           /\ ShownOf(id)' \in Nat
           /\ ShownOf(id)' >= ShownOf(id) - traded
           /\ VolumeOf(id)' = VolumeOf(id) - traded
<1> DEFINE total == levels[side][price].total_qty
           fifo  == FifoOf(side, price)
<1>1. /\ id \in DOMAIN resting
      /\ id \in Nat
      /\ resting[id] \in RestingOrder
      /\ side = resting[id].side
      /\ price = resting[id].price
  BY HeadFacts, OrderFacts
<1>2. resting[id].qty \in Nat
  BY HeadFacts
<1>3. /\ Tail(fifo) \in Seq(Nat)
      /\ LinkBack(Tail(fifo), id) \in Seq(Nat)
  BY <1>1, HeadFacts, AppendProperties DEF LinkBack
<1>4. /\ price \in Nat
      /\ total \in Int
      /\ fifo \in Seq(Nat)
      /\ levels[side][price] \in PriceLevel
  BY LevelFacts DEF PriceLevel
<1>5. /\ ShownOf(id) = resting[id].qty
      /\ Hidden(id) \in Nat
      /\ VolumeOf(id) = ShownOf(id) + Hidden(id)
  BY <1>1, OrderVolume
<1>6. levels[side][price].fifo = fifo
  BY DEF FifoOf
<1>7. \A qty \in Int, f \in Seq(Nat) :
         [total_qty |-> qty, fifo |-> f] \in PriceLevel
  BY DEF PriceLevel
<1>. HIDE DEF fifo
<1>8. CASE FillPart(side, price, traded)
  <2> DEFINE level == [levels[side][price] EXCEPT !.total_qty = total - traded]
             qty   == resting[id].qty - traded
  <2>1. /\ traded < resting[id].qty
        /\ resting' = [resting EXCEPT ![id].qty = qty]
        /\ levels' = SetLevel(side, price, level)
        /\ reserves' = reserves
    BY <1>1, <1>4, <1>8, <1>6 DEF FillPart, FifoOf, PriceLevel, RestingOrder
  <2>2. qty \in Nat /\ total - traded = total - resting[id].qty + qty
    <3>1. total \in Int /\ traded < resting[id].qty
      BY <1>4, <2>1
    <3>. HIDE DEF total
    <3>. QED  BY <1>2, <3>1
  <2>3. /\ level \in PriceLevel
        /\ level.total_qty = total - resting[id].qty + qty
    <3>1. total - traded \in Int /\ levels[side][price] \in PriceLevel
      BY <1>4
    <3>2. level \in PriceLevel /\ level.total_qty = total - traded
      BY <3>1 DEF PriceLevel
    <3>. QED  BY <2>2, <3>2
  <2>4. \A x : Hidden(x)' = Hidden(x)
    BY <2>1 DEF Hidden
  <2>. HIDE DEF level, qty
  <2>5. /\ OneOrder(id, side, price, resting[id].owner)
        /\ ShownOf(id)' = qty
        /\ VolumeOf(id)' = qty + Hidden(id)
    <3>1. /\ levels' = SetLevel(side, price, level)
          /\ resting' = [resting EXCEPT ![id].qty = qty]
          /\ qty \in Nat
          /\ price \in Nat
      BY <1>4, <2>1, <2>2
    <3>. QED  BY <1>1, <2>3, <2>4, <3>1, OneResized
  <2>. QED  BY <1>2, <1>5, <2>1, <2>2, <2>5 DEF qty
<1>9. CASE FillAndRefill(side, price, traded)
  <2> DEFINE reserve == reserves[id]
             peak    == PeakOf(reserve)
             level   == [total_qty |-> total - traded + peak,
                         fifo |-> LinkBack(Tail(fifo), id)]
  <2>1. /\ id \in DOMAIN reserves
        /\ traded = resting[id].qty
        /\ resting' = [resting EXCEPT ![id].qty = peak]
        /\ reserves' = IF reserve.hidden = peak THEN Drop(reserves, id)
                       ELSE [reserves EXCEPT ![id].hidden =
                                reserve.hidden - peak]
        /\ levels' = SetLevel(side, price, level)
    BY <1>6, <1>9 DEF FillAndRefill, FifoOf, BookInv, BookTypeOK, IsMap,
                      Reserve
  <2>2. /\ reserve \in Reserve
        /\ reserve.hidden \in Nat
        /\ peak \in Nat
        /\ peak <= reserve.hidden
        /\ Hidden(id) = reserve.hidden
    <3>1. reserve \in Reserve /\ reserve.display > 0 /\ reserve.hidden > 0
      BY <2>1 DEF BookInv, BookTypeOK, IsMap, NothingEmptyRests
    <3>. HIDE DEF reserve
    <3>2. reserve.hidden \in Nat
      BY <3>1 DEF Reserve
    <3>3. Hidden(id) = reserve.hidden
      BY <2>1 DEF Hidden, reserve
    <3>. QED  BY <3>1, <3>2, <3>3, PeakFacts
  <2>3. /\ \A x \in DOMAIN resting \ {id} : Hidden(x)' = Hidden(x)
        /\ Hidden(id)' = reserve.hidden - peak
    <3>1. CASE reserve.hidden = peak
      <4>1. /\ DOMAIN reserves' = DOMAIN reserves \ {id}
            /\ \A x \in DOMAIN reserves \ {id} : reserves'[x] = reserves[x]
        BY <2>1, <3>1, DropFacts
      <4>2. reserve.hidden - peak = 0
        BY <2>2, <3>1
      <4>. QED  BY <4>1, <4>2 DEF Hidden
    <3>2. CASE reserve.hidden # peak
      <4>. HIDE DEF peak
      <4>1. /\ DOMAIN reserves' = DOMAIN reserves
            /\ \A x \in DOMAIN reserves \ {id} : reserves'[x] = reserves[x]
            /\ reserves'[id].hidden = reserve.hidden - peak
        BY <2>1, <2>2, <3>2 DEF Reserve
      <4>. QED  BY <2>1, <4>1 DEF Hidden
    <3>. QED  BY <3>1, <3>2
  <2>. HIDE DEF reserve, peak
  <2>4. /\ level.total_qty = total - resting[id].qty + peak
        /\ total - traded + peak \in Int
    BY <1>4, <2>1, <2>2
  <2>5. level \in PriceLevel
    BY <1>3, <1>7, <2>4
  <2>. HIDE DEF level
  <2>6. /\ OneOrder(id, side, price, resting[id].owner)
        /\ ShownOf(id)' = peak
        /\ VolumeOf(id)' = peak + Hidden(id)'
    <3>1. \A x \in DOMAIN resting \ {id} : Hidden(x)' = Hidden(x)
      BY <2>3
    <3>2. /\ levels' = SetLevel(side, price, level)
          /\ resting' = [resting EXCEPT ![id].qty = peak]
          /\ peak \in Nat
          /\ price \in Nat
      BY <1>4, <2>1, <2>2
    <3>. QED  BY <1>1, <2>4, <2>5, <3>1, <3>2, OneResized
  <2>. QED  BY <1>2, <1>5, <2>1, <2>2, <2>3, <2>6
<1>10. CASE FillAndRemove(side, price, traded)
  <2> DEFINE level == [total_qty |-> total - traded, fifo |-> Tail(fifo)]
  <2>1. /\ levels' = SetLevel(side, price, level)
        /\ traded = resting[id].qty
        /\ resting' = Drop(resting, id)
        /\ reserves' = reserves
        /\ id \notin DOMAIN reserves
    BY <1>6, <1>10 DEF FillAndRemove, FifoOf
  <2>2. reserves' = Drop(reserves, id)
    <3>1. reserves = [x \in DOMAIN reserves |-> reserves[x]]
      BY DEF BookInv, BookTypeOK, IsMap
    <3>2. DOMAIN reserves \ {id} = DOMAIN reserves
      BY <2>1
    <3>. QED  BY <2>1, <3>1, <3>2 DEF Drop, Restrict
  <2>3. level.total_qty = total - resting[id].qty
    BY <2>1
  <2>4. level \in PriceLevel
    <3>1. total - traded \in Int
      BY <1>2, <1>4, <2>1
    <3>. HIDE DEF total
    <3>. QED  BY <1>3, <1>7, <3>1
  <2>. HIDE DEF level, total
  <2>5. /\ OneOrder(id, side, price, resting[id].owner)
        /\ ShownOf(id)' = 0
        /\ VolumeOf(id)' = 0
    BY <1>1, <1>4, <2>1, <2>2, <2>3, <2>4, OneRemoved DEF total
  <2>6. Hidden(id) = 0
    BY <2>1 DEF Hidden
  <2>. QED  BY <1>2, <1>5, <2>1, <2>5, <2>6
<1>. QED  BY <1>8, <1>9, <1>10

LEMMA FillMoves ==
    ASSUME BookInv, OpenCovers, NEW side \in Sides,
           NEW price \in DOMAIN levels[side], NEW traded \in Nat,
           NEW taker_owner \in Owners,
           FillHead(side, price, traded, taker_owner),
           NEW id, id = Head(FifoOf(side, price))
    PROVE  /\ id \in DOMAIN resting
           /\ OneMove(id, side, price, resting[id].owner)
           /\ traded <= ShownOf(id)
           /\ ShownOf(id)' \in Nat
           /\ ShownOf(id)' >= ShownOf(id) - traded
           /\ VolumeOf(id)' = VolumeOf(id) - traded
           /\ NetsMove(taker_owner, resting[id].owner, side, traded)
<1>1. id \in DOMAIN resting /\ side = resting[id].side
  BY HeadFacts
<1>2. /\ \/ FillPart(side, price, traded)
         \/ FillAndRefill(side, price, traded)
         \/ FillAndRemove(side, price, traded)
      /\ SettleFill(resting[id], side, traded, taker_owner)
  BY DEF FillHead, FifoOf
<1>3. /\ OneOrder(id, side, price, resting[id].owner)
      /\ traded <= ShownOf(id)
      /\ ShownOf(id)' \in Nat
      /\ ShownOf(id)' >= ShownOf(id) - traded
      /\ VolumeOf(id)' = VolumeOf(id) - traded
  BY <1>2, HeadTrades
<1>4. /\ ShownOf(id) <= VolumeOf(id)
      /\ ShownOf(id) \in Nat
      /\ VolumeOf(id) \in Nat
  BY <1>1, OrderVolume
<1>5. traded <= VolumeOf(id) /\ -traded = VolumeOf(id)' - VolumeOf(id)
  BY <1>3, <1>4
<1>6. /\ OpenMoves(resting[id].owner, side, -traded)
      /\ NetsMove(taker_owner, resting[id].owner, side, traded)
  BY <1>1, <1>2, <1>5, FillSettles
<1>. QED  BY <1>1, <1>3, <1>5, <1>6 DEF OneMove

----------------------------------------------------------------------------
(* The sums *)

OrdersAt(side, price) ==
    {id \in DOMAIN resting :
        resting[id].side = side /\ resting[id].price = price}

\* LevelTotals for every price, whether there is a level or not.
TotalsHold ==
    \A side \in Sides, price \in Nat :
        TotalOf(side, price) = SumFunctionOnSet(Shown, OrdersAt(side, price))

\* What is not at any level is at no price.
LEMMA QueueIsOrdersAt ==
    ASSUME BookInv, NEW side \in Sides, NEW price \in Nat
    PROVE  IF price \in DOMAIN levels[side]
           THEN ToSet(FifoOf(side, price)) = OrdersAt(side, price)
           ELSE OrdersAt(side, price) = {}
<1>1. CASE price \in DOMAIN levels[side]
  BY <1>1, LevelFacts DEF OrdersAt
<1>2. CASE price \notin DOMAIN levels[side]
  BY <1>2 DEF OrdersAt, BookInv, IndexMatchesQueues
<1>. QED  BY <1>1, <1>2

LEMMA TotalsAreLevels == BookInv => (LevelTotals <=> TotalsHold)
<1>. SUFFICES ASSUME BookInv
              PROVE  LevelTotals <=> TotalsHold
  OBVIOUS
<1>1. ASSUME LevelTotals
      PROVE  TotalsHold
  <2>1. ASSUME NEW side \in Sides, NEW price \in Nat
        PROVE  TotalOf(side, price) =
                  SumFunctionOnSet(Shown, OrdersAt(side, price))
    <3>1. CASE price \in DOMAIN levels[side]
      <4>1. TotalOf(side, price) = levels[side][price].total_qty
        BY <3>1 DEF TotalOf, LevelAt
      <4>2. ToSet(FifoOf(side, price)) = OrdersAt(side, price)
        BY <3>1, QueueIsOrdersAt
      <4>. QED  BY <1>1, <3>1, <4>1, <4>2 DEF LevelTotals
    <3>2. CASE price \notin DOMAIN levels[side]
      <4>1. TotalOf(side, price) = 0
        BY <3>2 DEF TotalOf, LevelAt, EmptyLevel
      <4>2. OrdersAt(side, price) = {}
        BY <3>2, QueueIsOrdersAt
      <4>. QED  BY <4>1, <4>2, SumOfNothing
    <3>. QED  BY <3>1, <3>2
  <2>. QED  BY <2>1 DEF TotalsHold
<1>2. ASSUME TotalsHold
      PROVE  LevelTotals
  <2>1. ASSUME NEW side \in Sides, NEW price \in DOMAIN levels[side]
        PROVE  levels[side][price].total_qty =
                  SumFunctionOnSet(Shown, ToSet(FifoOf(side, price)))
    <3>1. price \in Nat
      BY LevelFacts
    <3>2. TotalOf(side, price) = levels[side][price].total_qty
      BY DEF TotalOf, LevelAt
    <3>3. ToSet(FifoOf(side, price)) = OrdersAt(side, price)
      BY <3>1, QueueIsOrdersAt
    <3>. QED  BY <1>2, <3>1, <3>2, <3>3 DEF TotalsHold
  <2>. QED  BY <2>1 DEF LevelTotals
<1>. QED  BY <1>1, <1>2

\* What the orders at a price show moves with the one order.
LEMMA ShownMoves ==
    ASSUME BookInv, BookInv',
           IsFiniteSet(DOMAIN resting), IsFiniteSet(DOMAIN resting'),
           NEW id, NEW side \in Sides, NEW price \in Nat, NEW owner,
           OneOrder(id, side, price, owner), NEW s \in Sides, NEW p \in Nat
    PROVE  /\ SumFunctionOnSet(Shown', OrdersAt(s, p)') =
                 SumFunctionOnSet(Shown, OrdersAt(s, p))
                    + IF s = side /\ p = price
                      THEN ShownOf(id)' - ShownOf(id) ELSE 0
           /\ SumFunctionOnSet(Shown, OrdersAt(s, p)) \in Int
           /\ ShownOf(id) \in Int
           /\ ShownOf(id)' \in Int
<1>1. /\ \A x \in DOMAIN resting : resting[x].qty \in Int
      /\ \A x \in DOMAIN resting' : resting'[x].qty \in Int
  BY DEF BookInv, BookTypeOK, IsMap, RestingOrder
<1> DEFINE S == OrdersAt(s, p)
           T == OrdersAt(s, p)'
<1>2. /\ S \subseteq DOMAIN resting
      /\ T \subseteq DOMAIN resting'
      /\ S \ {id} = T \ {id}
      /\ id \in S <=> id \in DOMAIN resting /\ s = side /\ p = price
      /\ id \in T <=> id \in DOMAIN resting' /\ s = side /\ p = price
  BY DEF OneOrder, RestsAs, OrdersAt
<1>3. IsFiniteSet(S) /\ IsFiniteSet(T)
  BY <1>2, FS_Subset
<1>4. /\ \A y \in S : Shown[y] \in Int
      /\ \A y \in T : Shown'[y] \in Int
      /\ \A y \in S \ {id} : Shown[y] = Shown'[y]
  BY <1>1, <1>2 DEF Shown, OneOrder
<1>5. /\ id \in S => Shown[id] = ShownOf(id)
      /\ id \in T => Shown'[id] = ShownOf(id)'
      /\ s = side /\ p = price /\ id \notin S => ShownOf(id) = 0
      /\ s = side /\ p = price /\ id \notin T => ShownOf(id)' = 0
      /\ ShownOf(id) \in Int
      /\ ShownOf(id)' \in Int
  BY <1>1, <1>2 DEF Shown, ShownOf
<1>. HIDE DEF S, T
<1>6. /\ SumFunctionOnSet(Shown', T) = SumFunctionOnSet(Shown, S)
              + (IF id \in T THEN Shown'[id] ELSE 0)
              - (IF id \in S THEN Shown[id] ELSE 0)
      /\ SumFunctionOnSet(Shown, S) \in Int
  BY <1>2, <1>3, <1>4, SumReplaced
<1>7. CASE s = side /\ p = price
  <2>1. /\ (IF id \in T THEN Shown'[id] ELSE 0) = ShownOf(id)'
        /\ (IF id \in S THEN Shown[id] ELSE 0) = ShownOf(id)
    BY <1>5, <1>7
  <2>. QED  BY <1>5, <1>6, <1>7, <2>1 DEF S, T
<1>8. CASE ~(s = side /\ p = price)
  <2>1. id \notin T /\ id \notin S
    BY <1>2, <1>8
  <2>. QED  BY <1>5, <1>6, <1>8, <2>1 DEF S, T
<1>. QED  BY <1>7, <1>8

LEMMA TotalsMove ==
    ASSUME BookInv, BookInv', TotalsHold,
           IsFiniteSet(DOMAIN resting), IsFiniteSet(DOMAIN resting'),
           NEW id, NEW side \in Sides, NEW price \in Nat, NEW owner,
           OneOrder(id, side, price, owner)
    PROVE  /\ TotalsHold'
           /\ \A s \in Sides, p \in Nat :
                 TotalOf(s, p)' = TotalOf(s, p) +
                     IF s = side /\ p = price
                     THEN ShownOf(id)' - ShownOf(id) ELSE 0
<1>1. ASSUME NEW s \in Sides, NEW p \in Nat
      PROVE  /\ TotalOf(s, p)' = SumFunctionOnSet(Shown', OrdersAt(s, p)')
             /\ TotalOf(s, p)' = TotalOf(s, p) +
                   IF s = side /\ p = price
                   THEN ShownOf(id)' - ShownOf(id) ELSE 0
  <2>1. TotalOf(s, p) = SumFunctionOnSet(Shown, OrdersAt(s, p))
    BY DEF TotalsHold
  <2>2. SumFunctionOnSet(Shown', OrdersAt(s, p)') = TotalOf(s, p)
                    + IF s = side /\ p = price
                      THEN ShownOf(id)' - ShownOf(id) ELSE 0
    BY <2>1, ShownMoves
  <2>3. CASE p \in DOMAIN levels'[s]
    <3>1. levels'[s][p].total_qty =
              TotalOf(s, p) + IF s = side /\ p = price
                              THEN ShownOf(id)' - ShownOf(id) ELSE 0
      BY <2>3 DEF OneOrder
    <3>2. TotalOf(s, p)' = levels'[s][p].total_qty
      BY <2>3 DEF TotalOf, LevelAt
    <3>. QED  BY <2>2, <3>1, <3>2
  <2>4. CASE p \notin DOMAIN levels'[s]
    <3>1. TotalOf(s, p)' = 0
      BY <2>4 DEF TotalOf, LevelAt, EmptyLevel
    <3>2. OrdersAt(s, p)' = {}
      BY <2>4 DEF OrdersAt, BookInv, IndexMatchesQueues
    <3>3. SumFunctionOnSet(Shown', OrdersAt(s, p)') = 0
      BY <3>2, SumOfNothing
    <3>. QED  BY <2>2, <3>1, <3>3
  <2>. QED  BY <2>3, <2>4
<1>. QED  BY <1>1 DEF TotalsHold

LEMMA VolumesMove ==
    ASSUME BookInv, BookInv', OpenVolumeIsBook,
           IsFiniteSet(DOMAIN resting), IsFiniteSet(DOMAIN resting'),
           NEW id, NEW side \in Sides, NEW price, NEW owner,
           OneMove(id, side, price, owner)
    PROVE  OpenVolumeIsBook'
<1>. SUFFICES ASSUME NEW o \in Accounts, NEW s \in Sides
              PROVE  accounts'[o].open[s] =
                        SumFunctionOnSet(Volumes', OrdersOf(o, s)')
  BY DEF OpenVolumeIsBook
<1>. DEFINE S == OrdersOf(o, s)
            T == OrdersOf(o, s)'
<1>1. /\ \A x \in DOMAIN resting : resting[x].qty \in Int /\ Hidden(x) \in Int
      /\ \A x \in DOMAIN resting' :
            resting'[x].qty \in Int /\ Hidden(x)' \in Int
  BY DEF BookInv, BookTypeOK, IsMap, RestingOrder, Reserve, Hidden
<1>2. OneOrder(id, side, price, owner)
  BY DEF OneMove
<1>3. /\ S \subseteq DOMAIN resting
      /\ T \subseteq DOMAIN resting'
      /\ S \ {id} = T \ {id}
      /\ id \in S <=> id \in DOMAIN resting /\ s = side /\ o = owner
      /\ id \in T <=> id \in DOMAIN resting' /\ s = side /\ o = owner
  BY <1>2 DEF OneOrder, RestsAs, OrdersOf
<1>4. IsFiniteSet(S) /\ IsFiniteSet(T)
  BY <1>3, FS_Subset
<1>5. /\ \A y \in S : Volumes[y] \in Int
      /\ \A y \in T : Volumes'[y] \in Int
      /\ \A y \in S \ {id} : Volumes[y] = Volumes'[y]
  BY <1>1, <1>2, <1>3 DEF Volumes, OneOrder
<1>6. /\ id \in S => Volumes[id] = VolumeOf(id)
      /\ id \in T => Volumes'[id] = VolumeOf(id)'
      /\ s = side /\ o = owner /\ id \notin S => VolumeOf(id) = 0
      /\ s = side /\ o = owner /\ id \notin T => VolumeOf(id)' = 0
      /\ VolumeOf(id) \in Int
      /\ VolumeOf(id)' \in Int
  BY <1>1, <1>3 DEF Volumes, VolumeOf
<1>7. accounts'[o].open[s] = accounts[o].open[s] +
         IF o = owner /\ s = side THEN VolumeOf(id)' - VolumeOf(id) ELSE 0
  BY DEF OneMove, OpenMoves
<1>8. accounts[o].open[s] = SumFunctionOnSet(Volumes, S)
  BY DEF OpenVolumeIsBook
<1>. HIDE DEF S, T
<1>9. /\ SumFunctionOnSet(Volumes', T) = SumFunctionOnSet(Volumes, S)
              + (IF id \in T THEN Volumes'[id] ELSE 0)
              - (IF id \in S THEN Volumes[id] ELSE 0)
      /\ SumFunctionOnSet(Volumes, S) \in Int
  BY <1>3, <1>4, <1>5, SumReplaced
<1>10. CASE s = side /\ o = owner
  <2>1. /\ (IF id \in T THEN Volumes'[id] ELSE 0) = VolumeOf(id)'
        /\ (IF id \in S THEN Volumes[id] ELSE 0) = VolumeOf(id)
    BY <1>6, <1>10
  <2>. QED  BY <1>6, <1>7, <1>8, <1>9, <1>10, <2>1 DEF T
<1>11. CASE ~(s = side /\ o = owner)
  <2>1. id \notin T /\ id \notin S
    BY <1>3, <1>11
  <2>. QED  BY <1>7, <1>8, <1>9, <1>11, <2>1 DEF T
<1>. QED  BY <1>10, <1>11

\* One order is part of the sum its account's open volume is.
LEMMA VolumesCover ==
    ASSUME BookInv, OpenVolumeIsBook, IsFiniteSet(DOMAIN resting)
    PROVE  OpenCovers
<1>. SUFFICES ASSUME NEW id \in DOMAIN resting, resting[id].owner \in Accounts
              PROVE  VolumeOf(id) <=
                        accounts[resting[id].owner].open[resting[id].side]
  BY DEF OpenCovers
<1>. DEFINE S == OrdersOf(resting[id].owner, resting[id].side)
<1>1. id \in S /\ S \subseteq DOMAIN resting
  BY DEF OrdersOf
<1>2. \A x \in S : Volumes[x] \in Nat /\ Volumes[x] = VolumeOf(x)
  BY <1>1, OrderVolume DEF Volumes, VolumeOf
<1>3. accounts[resting[id].owner].open[resting[id].side] =
         SumFunctionOnSet(Volumes, S)
  BY OrderFacts DEF OpenVolumeIsBook
<1>4. IsFiniteSet(S)
  BY <1>1, FS_Subset
<1>. HIDE DEF S
<1>5. SumFunctionOnSet(Volumes, {id}) <= SumFunctionOnSet(Volumes, S)
  BY <1>1, <1>2, <1>4, SumMonotone
<1>6. SumFunctionOnSet(Volumes, {id}) = Volumes[id]
  <2>1. {id} \ {id} = {} /\ Volumes[id] \in Int
    BY <1>1, <1>2
  <2>3. IsFiniteSet({id})
    BY FS_Singleton
  <2>2. SumFunctionOnSet(Volumes, {id}) =
           Volumes[id] + SumFunctionOnSet(Volumes, {id} \ {id})
    BY <2>1, <2>3, SumRemove
  <2>. QED  BY <2>1, <2>2, SumOfNothing
<1>. QED  BY <1>1, <1>2, <1>3, <1>5, <1>6

----------------------------------------------------------------------------
(* The aggregates of the levels and the open volume of the accounts *)

\* Fewer orders rest than ids were handed out.
FinitelyMany == IsFiniteSet(DOMAIN resting)

LEMMA RestingFinite == Inv => FinitelyMany
<1>. SUFFICES ASSUME Inv
              PROVE  IsFiniteSet(DOMAIN resting)
  BY DEF FinitelyMany
<1>1. DOMAIN resting \in SUBSET Nat /\ next_order_id \in Nat
  BY DEF Inv, BookInv, BookTypeOK, IsMap, CallTypeOK
<1>2. \A id \in DOMAIN resting : id <= next_order_id
  BY <1>1 DEF Inv, OneHome
<1>. QED  BY <1>1, <1>2, FS_BoundedSetOfNaturals

VolumeInv == TotalsHold /\ OpenVolumeIsBook

LEMMA MoveKeepsVolumes ==
    ASSUME Inv, Inv', VolumeInv, IsFiniteSet(DOMAIN resting'),
           NEW id, NEW side \in Sides, NEW price \in Nat, NEW owner,
           OneMove(id, side, price, owner)
    PROVE  VolumeInv'
<1>1. IsFiniteSet(DOMAIN resting)
  BY RestingFinite DEF FinitelyMany
<1>2. TotalsHold'
  BY <1>1, TotalsMove DEF Inv, VolumeInv, OneMove
<1>3. OpenVolumeIsBook'
  BY <1>1, VolumesMove DEF Inv, VolumeInv
<1>. QED  BY <1>2, <1>3 DEF VolumeInv

LEMMA VolumesKept == Inv /\ VolumeInv /\ [Next]_vars => VolumeInv'
<1>1. Inv /\ [Next]_vars => Inv'
  BY NextKeeps DEF StepKeeps
<1>2. Inv' => FinitelyMany'
  BY RestingFinite, PTL
<1>. SUFFICES ASSUME Inv, VolumeInv, [Next]_vars
              PROVE  VolumeInv'
  OBVIOUS
<1>3. Inv' /\ IsFiniteSet(DOMAIN resting')
  BY <1>1, <1>2 DEF FinitelyMany
<1>4. BookInv /\ OpenCovers
  BY RestingFinite, VolumesCover DEF Inv, VolumeInv, FinitelyMany
<1>5. CASE UNCHANGED bookVars
  BY <1>5 DEF bookVars, VolumeInv, TotalsHold, OpenVolumeIsBook, TotalOf,
              LevelAt, OrdersAt, OrdersOf, Shown, Volumes, Hidden
<1>6. ASSUME NEW id \in DOMAIN resting, CancelResting(id)
      PROVE  VolumeInv'
  BY <1>3, <1>4, <1>6, CancelMoves, OrderFacts, LevelFacts, MoveKeepsVolumes
<1>7. ASSUME NEW id \in DOMAIN resting, NEW qty \in Nat \ {0}, Reduce(id, qty)
      PROVE  VolumeInv'
  BY <1>3, <1>4, <1>7, ReduceMoves, OrderFacts, LevelFacts, MoveKeepsVolumes
<1>8. ASSUME NEW side \in Sides, NEW price \in DOMAIN levels[side],
             Detach(side, price)
      PROVE  VolumeInv'
  BY <1>3, <1>4, <1>8, DetachMoves, LevelFacts, MoveKeepsVolumes
<1>9. ASSUME NEW side \in Sides, NEW price \in DOMAIN levels[side],
             NEW traded \in Nat, NEW owner \in Owners,
             FillHead(side, price, traded, owner)
      PROVE  VolumeInv'
  BY <1>3, <1>4, <1>9, FillMoves, LevelFacts, MoveKeepsVolumes
<1>10. ASSUME NEW id \in Nat \ DOMAIN resting, NEW order \in RestingOrder,
              NEW display \in Nat, NEW hidden \in Nat,
              Insert(id, order, display, hidden)
       PROVE  VolumeInv'
  <2>1. order.side \in Sides /\ order.price \in Nat
    BY DEF RestingOrder
  <2>. QED  BY <1>3, <1>4, <1>10, <2>1, InsertMoves, MoveKeepsVolumes
<1>11. BookStep
  BY NextIsBookStep
<1>. QED  BY <1>5, <1>6, <1>7, <1>8, <1>9, <1>10, <1>11 DEF BookStep

LEMMA VolumeInit == Init => VolumeInv
<1>. SUFFICES ASSUME Init
              PROVE  VolumeInv
  OBVIOUS
<1>1. /\ levels = [side \in Sides |-> <<>>]
      /\ resting = <<>>
      /\ accounts = [owner \in Accounts |-> NoAccount]
  BY DEF Init, BookInit
<1>2. DOMAIN resting = {}
  BY <1>1
<1>3. ASSUME NEW side \in Sides, NEW price \in Nat
      PROVE  TotalOf(side, price) =
                SumFunctionOnSet(Shown, OrdersAt(side, price))
  <2>1. DOMAIN levels[side] = {}
    BY <1>1
  <2>2. TotalOf(side, price) = 0
    BY <2>1 DEF TotalOf, LevelAt, EmptyLevel
  <2>3. OrdersAt(side, price) = {}
    BY <1>2 DEF OrdersAt
  <2>. QED  BY <2>2, <2>3, SumOfNothing
<1>4. ASSUME NEW owner \in Accounts, NEW side \in Sides
      PROVE  accounts[owner].open[side] =
                SumFunctionOnSet(Volumes, OrdersOf(owner, side))
  <2>1. accounts[owner].open[side] = 0
    BY <1>1 DEF NoAccount
  <2>2. OrdersOf(owner, side) = {}
    BY <1>2 DEF OrdersOf
  <2>. QED  BY <2>1, <2>2, SumOfNothing
<1>. QED  BY <1>3, <1>4 DEF VolumeInv, TotalsHold, OpenVolumeIsBook

LEMMA VolumeInvariance == Spec => [](Inv /\ VolumeInv)
<1>1. Init => Inv /\ VolumeInv
  BY InitInv, VolumeInit
<1>2. Inv /\ VolumeInv /\ [Next]_vars => (Inv /\ VolumeInv)'
  BY NextKeeps, VolumesKept DEF StepKeeps
<1>. QED  BY <1>1, <1>2, PTL DEF Spec

\* The aggregate of every level is the sum of what its orders show, after
\* every fill, refill, reduction, amendment and cancel.
THEOREM LevelsAddUp == Spec => []LevelTotals
<1>1. Inv /\ VolumeInv => LevelTotals
  BY TotalsAreLevels DEF Inv, VolumeInv
<1>. QED  BY <1>1, VolumeInvariance, PTL

\* The open volume of every account is what its orders show and hide; none of
\* the saturating subtractions ever saturates.
THEOREM OpenVolumeExact == Spec => []OpenVolumeIsBook
<1>1. Inv /\ VolumeInv => OpenVolumeIsBook
  BY DEF VolumeInv
<1>. QED  BY <1>1, VolumeInvariance, PTL

----------------------------------------------------------------------------
(* Fill-or-kill: what the precheck counted is there until it is traded      *)

Prices(side) ==
    {resting[id].price : id \in {x \in DOMAIN resting : resting[x].side = side}}

PricesAreLevels == \A side \in Sides : DOMAIN levels[side] = Prices(side)

LEMMA LevelsHaveOrders == BookInv => PricesAreLevels
<1>. SUFFICES ASSUME BookInv, NEW side \in Sides
              PROVE  DOMAIN levels[side] = Prices(side)
  BY DEF PricesAreLevels
<1>1. ASSUME NEW price \in DOMAIN levels[side]
      PROVE  price \in Prices(side)
  BY HeadFacts DEF Prices
<1>2. ASSUME NEW id \in DOMAIN resting, resting[id].side = side
      PROVE  resting[id].price \in DOMAIN levels[side]
  BY <1>2, OrderFacts
<1>. QED  BY <1>1, <1>2 DEF Prices

LEMMA AvailableMoves ==
    ASSUME BookInv, BookInv', TotalsHold,
           IsFiniteSet(DOMAIN resting), IsFiniteSet(DOMAIN resting'),
           NEW id, NEW taker_side \in Sides, NEW side \in Sides,
           side = Opposite(taker_side), NEW price \in Nat, NEW owner,
           OneOrder(id, side, price, owner), NEW limit_price,
           Crosses(taker_side, limit_price, price)
    PROVE  /\ AvailableQty(taker_side, limit_price)' =
                 AvailableQty(taker_side, limit_price)
                    + (ShownOf(id)' - ShownOf(id))
           /\ AvailableQty(taker_side, limit_price) \in Int
           /\ ShownOf(id) \in Int
           /\ ShownOf(id)' \in Int
<1> DEFINE S == CrossingLevels(taker_side, limit_price)
           T == CrossingLevels(taker_side, limit_price)'
           f == Totals(side)
           g == Totals(side)'
<1>1. PricesAreLevels /\ PricesAreLevels'
  BY LevelsHaveOrders, PTL
<1>2. /\ S = {p \in Prices(side) : Crosses(taker_side, limit_price, p)}
      /\ T = {p \in Prices(side)' : Crosses(taker_side, limit_price, p)}
  BY <1>1 DEF CrossingLevels, PricesAreLevels, Crosses
<1>3. IsFiniteSet(Prices(side)) /\ IsFiniteSet(Prices(side)')
  <2>1. IsFiniteSet({x \in DOMAIN resting : resting[x].side = side})
    BY FS_Subset
  <2>2. IsFiniteSet({x \in DOMAIN resting' : resting'[x].side = side})
    BY FS_Subset
  <2>3. IsFiniteSet(Prices(side))
    <3> DEFINE price_of == [x \in DOMAIN resting |-> resting[x].price]
               ids == {x \in DOMAIN resting : resting[x].side = side}
    <3>1. Prices(side) = {price_of[x] : x \in ids}
      BY DEF Prices
    <3>. QED  BY <2>1, <3>1, ImageFinite
  <2>4. IsFiniteSet(Prices(side)')
    <3> DEFINE price_of == [x \in DOMAIN resting' |-> resting'[x].price]
               ids == {x \in DOMAIN resting' : resting'[x].side = side}
    <3>1. Prices(side)' = {price_of[x] : x \in ids}
      BY DEF Prices
    <3>. QED  BY <2>2, <3>1, ImageFinite
  <2>. QED  BY <2>3, <2>4
<1>4. IsFiniteSet(S) /\ IsFiniteSet(T)
  BY <1>2, <1>3, FS_Subset
<1>5. S \ {price} = T \ {price}
  BY <1>2 DEF OneOrder, RestsAs, Prices
<1>6. S \subseteq Nat /\ T \subseteq Nat
  BY <1>2 DEF Prices, BookInv, BookTypeOK, IsMap, RestingOrder
<1>7. /\ \A p \in S : f[p] = TotalOf(side, p)
      /\ \A p \in T : g[p] = TotalOf(side, p)'
      /\ price \notin S => TotalOf(side, price) = 0
      /\ price \notin T => TotalOf(side, price)' = 0
  BY DEF CrossingLevels, Totals, TotalOf, LevelAt, EmptyLevel, Crosses
<1>8. /\ ShownOf(id) \in Int
      /\ ShownOf(id)' \in Int
      /\ \A p \in Nat : TotalOf(side, p) \in Int
  BY ShownMoves DEF TotalsHold
<1>9. /\ \A p \in Nat \ {price} : TotalOf(side, p)' = TotalOf(side, p)
      /\ TotalOf(side, price)' =
            TotalOf(side, price) + (ShownOf(id)' - ShownOf(id))
      /\ TotalOf(side, price)' \in Int
  <2>1. \A s \in Sides, p \in Nat :
           TotalOf(s, p)' = TotalOf(s, p) +
               IF s = side /\ p = price
               THEN ShownOf(id)' - ShownOf(id) ELSE 0
    BY TotalsMove
  <2>2. ASSUME NEW p \in Nat \ {price}
        PROVE  TotalOf(side, p)' = TotalOf(side, p)
    <3>1. TotalOf(side, p)' = TotalOf(side, p) + 0
      BY <2>1
    <3>. QED  BY <1>8, <3>1
  <2>3. TotalOf(side, price)' =
           TotalOf(side, price) + (ShownOf(id)' - ShownOf(id))
    BY <2>1
  <2>. QED  BY <1>8, <2>2, <2>3
<1>10. /\ AvailableQty(taker_side, limit_price) = SumFunctionOnSet(f, S)
       /\ AvailableQty(taker_side, limit_price)' = SumFunctionOnSet(g, T)
  BY DEF AvailableQty
<1>. HIDE DEF S, T, f, g
<1>11. /\ \A p \in S : f[p] \in Int
       /\ \A p \in T : g[p] \in Int
       /\ \A p \in S \ {price} : f[p] = g[p]
  <2>1. \A p \in Nat : TotalOf(side, p)' \in Int
    BY <1>8, <1>9
  <2>2. \A p \in S \ {price} : p \in T /\ p \in Nat \ {price}
    BY <1>5, <1>6
  <2>3. \A p \in S \ {price} : f[p] = g[p]
    BY <1>7, <1>9, <2>2
  <2>. QED  BY <1>6, <1>7, <1>8, <2>1, <2>3
<1>12. /\ SumFunctionOnSet(g, T) = SumFunctionOnSet(f, S)
               + (IF price \in T THEN g[price] ELSE 0)
               - (IF price \in S THEN f[price] ELSE 0)
       /\ SumFunctionOnSet(f, S) \in Int
  BY <1>4, <1>5, <1>11, SumReplaced
<1>13. /\ (IF price \in T THEN g[price] ELSE 0) = TotalOf(side, price)'
       /\ (IF price \in S THEN f[price] ELSE 0) = TotalOf(side, price)
       /\ TotalOf(side, price) \in Int
       /\ TotalOf(side, price)' =
             TotalOf(side, price) + (ShownOf(id)' - ShownOf(id))
  BY <1>7, <1>8, <1>9
<1>. QED  BY <1>8, <1>10, <1>12, <1>13

\* The steps after which an order is being matched.
LiveStep ==
    \/ \E order \in NewOrders : AcceptOrder(order)
    \/ \E id \in Nat, a \in Amendments : ModifyReplace(id, a)
    \/ /\ phase = "match"
       /\ \E price \in DOMAIN levels[MakerSide] :
             TradeWithHead(price) \/ CancelMaker(price)
    \/ \E i \in DOMAIN stops : ActivateStop(i)
    \/ UNCHANGED vars

LEMMA NextIsLiveStep ==
    ASSUME Inv, [Next]_vars, phase' = "match"
    PROVE  LiveStep
<1>1. KnownIds \subseteq Nat
  BY DEF KnownIds, Inv, CallTypeOK
<1>2. CASE \E order \in NewOrders : SubmitNew(order)
  BY <1>2 DEF SubmitNew, RejectCommand, ParkStop, RefuseOrder, LiveStep
<1>3. CASE \E id \in KnownIds : SubmitCancel(id)
  BY <1>3 DEF SubmitCancel, CancelInBook, CancelStop, CancelUnknown
<1>4. CASE \E id \in KnownIds, a \in Amendments : SubmitModify(id, a)
  BY <1>1, <1>4 DEF SubmitModify, RejectCommand, ModifyUnknown, ModifyInPlace,
                    LiveStep
<1>5. CASE phase = "match" /\ MatchStep
  BY <1>5 DEF MatchStep, CancelTaker, CancelBoth, FinishWith, LiveStep
<1>6. CASE FinishStep
  BY <1>6 DEF FinishStep, FinishFilled, RestRemainder, CancelRemainder,
              FinishWith
<1>7. CASE StopStep
  BY <1>7 DEF StopStep, RefuseStop, TakeTriggered, LiveStep
<1>8. CASE StopsSettled \/ Deliver
  BY <1>8 DEF StopsSettled, Deliver
<1>9. CASE UNCHANGED vars
  BY <1>9 DEF LiveStep
<1>. QED  BY <1>2, <1>3, <1>4, <1>5, <1>6, <1>7, <1>8, <1>9 DEF Next, Run

LEMMA AvailableTyped ==
    ASSUME BookInv, TotalsHold, IsFiniteSet(DOMAIN resting),
           NEW taker_side \in Sides, NEW limit_price
    PROVE  AvailableQty(taker_side, limit_price) \in Int
<1> DEFINE side == Opposite(taker_side)
           S == CrossingLevels(taker_side, limit_price)
<1>1. side \in Sides
  BY OppositeSide
<1>2. S \subseteq Prices(side)
  BY <1>1, LevelsHaveOrders DEF PricesAreLevels, CrossingLevels
<1>3. IsFiniteSet(Prices(side))
  <2> DEFINE price_of == [x \in DOMAIN resting |-> resting[x].price]
             ids == {x \in DOMAIN resting : resting[x].side = side}
  <2>1. IsFiniteSet(ids)
    BY FS_Subset
  <2>2. Prices(side) = {price_of[x] : x \in ids}
    BY DEF Prices
  <2>. HIDE DEF price_of, ids
  <2>. QED  BY <2>1, <2>2, ImageFinite
<1>4. IsFiniteSet(S)
  BY <1>2, <1>3, FS_Subset
<1>5. \A p \in S : Totals(side)[p] \in Int
  <2>1. \A p \in DOMAIN levels[side] : levels[side][p].total_qty \in Int
    BY <1>1, LevelFacts DEF PriceLevel
  <2>. QED  BY <2>1 DEF Totals, CrossingLevels
<1>. QED  BY <1>4, <1>5, SumTyped DEF AvailableQty

\* The precheck compares with the very quantity the property is about.
LEMMA CoveredOnceChecked ==
    ASSUME BookInv, TotalsHold, IsFiniteSet(DOMAIN resting),
           NEW id, NEW o, NEW limit_price, NEW display,
           o.side \in Sides, o.qty \in Nat,
           Precheck(o.side, limit_price, o.qty, o.tif) = Ok,
           live' = LiveOf(id, o, limit_price, display),
           UNCHANGED bookVars, o.tif = "Fok"
    PROVE  AvailableQty(live.side, live.limit_price)' >= live'.qty
<1>1. ~(AvailableQty(o.side, limit_price) < o.qty)
  BY DEF Precheck, Ok
<1>2. AvailableQty(o.side, limit_price) >= o.qty
  BY <1>1, AvailableTyped
<1>3. /\ live'.side = o.side
      /\ live'.limit_price = limit_price
      /\ live'.qty = o.qty
      /\ levels' = levels
  BY DEF LiveOf, bookVars
<1>4. AvailableQty(live.side, live.limit_price)' =
         AvailableQty(o.side, limit_price)
  BY <1>3 DEF AvailableQty, CrossingLevels, Crosses, Totals
<1>. QED  BY <1>2, <1>3, <1>4

\* A trade takes from the volume exactly what it takes from the order.
LEMMA CoveredAfterTrade ==
    ASSUME Inv, Inv', VolumeInv, IsFiniteSet(DOMAIN resting'),
           phase = "match", NEW price \in DOMAIN levels[MakerSide],
           TradeWithHead(price),
           AvailableQty(live.side, live.limit_price) >= live.qty
    PROVE  AvailableQty(live.side, live.limit_price)' >= live'.qty
<1>1. PICK traded \in Nat :
         /\ FillHead(MakerSide, price, traded, live.owner)
         /\ traded <= live.qty
         /\ live'.qty = live.qty - traded
         /\ live'.side = live.side
         /\ live'.limit_price = live.limit_price
         /\ MatchesAt(price)
  BY TradeFacts
<1>2. /\ live.side \in Sides
      /\ live.qty \in Nat
      /\ live.owner \in Owners
      /\ MakerSide \in Sides
      /\ BookInv
      /\ BookInv'
      /\ TotalsHold
      /\ IsFiniteSet(DOMAIN resting)
      /\ OpenCovers
  BY LiveFacts, RestingFinite, VolumesCover
     DEF Inv, VolumeInv, FinitelyMany
<1>a. PICK taker_side \in Sides : taker_side = live.side
  BY <1>2
<1>b. PICK side \in Sides : side = MakerSide
  BY <1>2
<1>c. PICK owner \in Owners : owner = live.owner
  BY <1>2
<1>d. PICK limit_price : limit_price = live.limit_price
  OBVIOUS
<1>e. PICK id : id = Head(FifoOf(MakerSide, price))
  OBVIOUS
<1>3. /\ taker_side = live.side
      /\ limit_price = live.limit_price
      /\ side = MakerSide
      /\ owner = live.owner
      /\ id = Head(FifoOf(MakerSide, price))
  BY <1>a, <1>b, <1>c, <1>d, <1>e
<1>4. price \in Nat /\ price \in DOMAIN levels[side]
  BY <1>2, <1>3, LevelFacts
<1>5. FillHead(side, price, traded, owner)
  BY <1>1, <1>3
<1>6. /\ id \in DOMAIN resting
      /\ OneMove(id, side, price, resting[id].owner)
      /\ ShownOf(id)' >= ShownOf(id) - traded
  BY <1>2, <1>3, <1>4, <1>5, FillMoves
<1>7. PICK maker_owner : OneOrder(id, side, price, maker_owner)
  BY <1>6 DEF OneMove
<1>8. /\ side = Opposite(taker_side)
      /\ Crosses(taker_side, limit_price, price)
  BY <1>1, <1>3 DEF MakerSide, MatchesAt
<1>9. /\ AvailableQty(taker_side, limit_price)' =
            AvailableQty(taker_side, limit_price)
               + (ShownOf(id)' - ShownOf(id))
      /\ AvailableQty(taker_side, limit_price) \in Int
      /\ ShownOf(id) \in Int
      /\ ShownOf(id)' \in Int
  BY <1>2, <1>4, <1>7, <1>8, AvailableMoves
<1>10. AvailableQty(taker_side, limit_price) =
          AvailableQty(live.side, live.limit_price)
  BY <1>3
<1>11. AvailableQty(live.side, live.limit_price)' =
          AvailableQty(taker_side, limit_price)'
  <2>1. live'.side = taker_side /\ live'.limit_price = limit_price
    BY <1>1, <1>3
  <2>. QED  BY <2>1 DEF AvailableQty, CrossingLevels, Crosses, Totals
<1>. QED  BY <1>1, <1>2, <1>6, <1>9, <1>10, <1>11

LEMMA FokKept ==
    Inv /\ VolumeInv /\ FokCovered /\ [Next]_vars => FokCovered'
<1>1. Inv /\ [Next]_vars => Inv'
  BY NextKeeps DEF StepKeeps
<1>2. Inv' => FinitelyMany'
  BY RestingFinite, PTL
<1>. SUFFICES ASSUME Inv, VolumeInv, FokCovered, [Next]_vars,
                     phase' = "match", live'.tif = "Fok", live'.stp = "Off"
              PROVE  AvailableQty(live.side, live.limit_price)' >= live'.qty
  BY DEF FokCovered
<1>3. Inv' /\ IsFiniteSet(DOMAIN resting')
  BY <1>1, <1>2 DEF FinitelyMany
<1>4. /\ BookInv
      /\ TotalsHold
      /\ IsFiniteSet(DOMAIN resting)
  BY RestingFinite DEF Inv, VolumeInv, FinitelyMany
<1>5. CASE \E order \in NewOrders : AcceptOrder(order)
  <2>1. PICK order \in NewOrders : AcceptOrder(order)
    BY <1>5
  <2>2. /\ Precheck(order.side, LimitOf(order), order.qty, order.tif) = Ok
        /\ live' = LiveOf(next_order_id, order, LimitOf(order),
                          DisplayOf(order))
        /\ UNCHANGED bookVars
    BY <2>1 DEF AcceptOrder, EntryCheck
  <2>3. order.tif = "Fok"
    BY <2>2 DEF LiveOf
  <2>4. order.side \in Sides /\ order.qty \in Nat
    BY MenuAssumption DEF NewOrder
  <2>. QED  BY <1>4, <2>2, <2>3, <2>4, CoveredOnceChecked
<1>6. CASE \E id \in Nat, a \in Amendments : ModifyReplace(id, a)
  BY <1>6 DEF ModifyReplace, ReplacementOf
<1>7. CASE /\ phase = "match"
           /\ \E price \in DOMAIN levels[MakerSide] :
                 TradeWithHead(price) \/ CancelMaker(price)
  <2>1. PICK price \in DOMAIN levels[MakerSide] :
           TradeWithHead(price) \/ CancelMaker(price)
    BY <1>7
  <2>2. live \in LiveOrder
    BY <1>7, LiveFacts
  <2>3. live'.tif = live.tif /\ live'.stp = live.stp
    BY <2>1, <2>2 DEF TradeWithHead, CancelMaker, LiveOrder
  <2>4. ~CancelMaker(price)
    BY <2>3 DEF CancelMaker, SelfTrade
  <2>5. AvailableQty(live.side, live.limit_price) >= live.qty
    BY <1>7, <2>3 DEF FokCovered
  <2>. QED  BY <1>3, <1>7, <2>1, <2>4, <2>5, CoveredAfterTrade
<1>8. CASE \E i \in DOMAIN stops : ActivateStop(i)
  <2>1. PICK i \in DOMAIN stops : ActivateStop(i)
    BY <1>8
  <2>2. /\ Precheck(stops[i].side, stops[i].limit_price, stops[i].qty,
                    stops[i].tif) = Ok
        /\ live' = LiveOf(stops[i].id, stops[i], stops[i].limit_price, 0)
        /\ UNCHANGED bookVars
    BY <2>1 DEF ActivateStop, StopCheck
  <2>3. stops[i].tif = "Fok"
    BY <2>2 DEF LiveOf
  <2>4. stops[i] \in PendingStop
    BY DEF Inv, CallTypeOK
  <2>5. stops[i].side \in Sides /\ stops[i].qty \in Nat
    BY <2>4 DEF PendingStop
  <2>. QED  BY <1>4, <2>2, <2>3, <2>5, CoveredOnceChecked
<1>9. CASE UNCHANGED vars
  <2>1. AvailableQty(live.side, live.limit_price) >= live.qty
    BY <1>9 DEF FokCovered, vars, engineVars
  <2>2. live' = live /\ levels' = levels
    BY <1>9 DEF vars, engineVars, bookVars
  <2>. QED  BY <2>1, <2>2 DEF AvailableQty, CrossingLevels, Crosses, Totals
<1>. QED  BY <1>5, <1>6, <1>7, <1>8, <1>9, NextIsLiveStep DEF LiveStep

\* A fill-or-kill order without self-trade prevention is never left with a
\* part executed, however many icebergs and levels it takes.
THEOREM FokIsCovered == Spec => []FokCovered
<1>1. Init => FokCovered
  BY DEF Init, FokCovered
<1>2. Inv /\ VolumeInv /\ FokCovered /\ [Next]_vars => FokCovered'
  BY FokKept
<1>. QED  BY <1>1, <1>2, VolumeInvariance, PTL DEF Spec

----------------------------------------------------------------------------
(* The positions balance when every order has an owner                      *)

\* A stop that is dormant was dormant before or has just been submitted.
LEMMA StopSources ==
    ASSUME Inv, [Next]_vars, NEW j \in DOMAIN stops'
    PROVE  \/ \E k \in DOMAIN stops : stops'[j] = stops[k]
           \/ \E order \in NewOrders : stops'[j] = PendingStopOf(order)
<1>1. ASSUME stops' = stops
      PROVE  \E k \in DOMAIN stops : stops'[j] = stops[k]
  BY <1>1
<1>2. ASSUME NEW i \in DOMAIN stops, stops' = WithoutStop(i)
      PROVE  \E k \in DOMAIN stops : stops'[j] = stops[k]
  BY <1>2, StopLeaves DEF Inv
<1>3. ASSUME NEW order \in NewOrders, ParkStop(order)
      PROVE  \/ \E k \in DOMAIN stops : stops'[j] = stops[k]
             \/ stops'[j] = PendingStopOf(order)
  <2> DEFINE stop == PendingStopOf(order)
  <2>1. stops' = Append(stops, stop) /\ stops \in Seq(PendingStop)
    BY <1>3 DEF ParkStop, Inv, CallTypeOK
  <2>. HIDE DEF stop
  <2>2. /\ DOMAIN stops = 1..Len(stops)
        /\ DOMAIN stops' = 1..(Len(stops) + 1)
        /\ \A i \in 1..Len(stops) : stops'[i] = stops[i]
        /\ stops'[Len(stops) + 1] = stop
        /\ Len(stops) \in Nat
    BY <2>1
  <2>3. j \in 1..Len(stops) \/ j = Len(stops) + 1
    BY <2>2
  <2>. QED  BY <2>2, <2>3 DEF stop
<1>4. CASE \E order \in NewOrders : SubmitNew(order)
  BY <1>1, <1>3, <1>4 DEF SubmitNew, RejectCommand, RefuseOrder, AcceptOrder
<1>5. CASE \E id \in KnownIds : SubmitCancel(id)
  BY <1>1, <1>2, <1>5 DEF SubmitCancel, CancelInBook, CancelStop, CancelUnknown
<1>6. CASE \E id \in KnownIds, a \in Amendments : SubmitModify(id, a)
  BY <1>1, <1>6 DEF SubmitModify, RejectCommand, ModifyUnknown, ModifyInPlace,
                    ModifyReplace
<1>7. CASE phase = "match" /\ MatchStep
  BY <1>1, <1>7 DEF MatchStep, TradeWithHead, CancelMaker, CancelTaker,
                    CancelBoth, FinishWith
<1>8. CASE FinishStep
  BY <1>1, <1>8 DEF FinishStep, FinishFilled, RestRemainder, CancelRemainder,
                    FinishWith
<1>9. CASE StopStep
  BY <1>2, <1>9 DEF StopStep, ActivateStop, RefuseStop, TakeTriggered
<1>10. CASE StopsSettled \/ Deliver
  BY <1>1, <1>10 DEF StopsSettled, Deliver
<1>11. CASE UNCHANGED vars
  BY <1>1, <1>11 DEF vars, engineVars
<1>. QED  BY <1>4, <1>5, <1>6, <1>7, <1>8, <1>9, <1>10, <1>11 DEF Next, Run

\* There are finitely many accounts, and clients submit no anonymous order.
EveryOrderOwned ==
    /\ IsFiniteSet(Accounts)
    /\ \A order \in NewOrders : order.owner # Anonymous

\* Whatever is in the venue has an owner.
AllOwned ==
    /\ \A id \in DOMAIN resting : resting[id].owner \in Accounts
    /\ \A i \in DOMAIN stops : stops[i].owner \in Accounts
    /\ phase = "match" => live.owner \in Accounts

LEMMA MoveKeepsOwned ==
    ASSUME \A x \in DOMAIN resting : resting[x].owner \in Accounts,
           NEW id, NEW side, NEW price, NEW owner \in Accounts,
           OneOrder(id, side, price, owner)
    PROVE  \A x \in DOMAIN resting' : resting'[x].owner \in Accounts
BY DEF OneOrder, RestsAs

LEMMA StopsStayOwned ==
    ASSUME Inv, [Next]_vars, EveryOrderOwned, AllOwned
    PROVE  \A i \in DOMAIN stops' : stops'[i].owner \in Accounts
<1> SUFFICES ASSUME NEW i \in DOMAIN stops'
             PROVE  stops'[i].owner \in Accounts
  OBVIOUS
<1>1. CASE \E k \in DOMAIN stops : stops'[i] = stops[k]
  BY <1>1 DEF AllOwned
<1>2. CASE \E order \in NewOrders : stops'[i] = PendingStopOf(order)
  <2>1. PICK order \in NewOrders : stops'[i] = PendingStopOf(order)
    BY <1>2
  <2>2. order.owner \in Owners /\ order.owner # Anonymous
    BY MenuAssumption DEF NewOrder, EveryOrderOwned
  <2>. QED  BY <2>1, <2>2 DEF PendingStopOf, Owners
<1>. QED  BY <1>1, <1>2, StopSources

LEMMA LiveStaysOwned ==
    ASSUME Inv, [Next]_vars, EveryOrderOwned, AllOwned, phase' = "match"
    PROVE  live'.owner \in Accounts
<1>1. ASSUME NEW order \in NewOrders, AcceptOrder(order)
      PROVE  live'.owner \in Accounts
  <2>1. order.owner \in Owners /\ order.owner # Anonymous
    BY MenuAssumption DEF NewOrder, EveryOrderOwned
  <2>. QED  BY <1>1, <2>1 DEF AcceptOrder, LiveOf, Owners
<1>2. ASSUME NEW id \in Nat, NEW a \in Amendments, ModifyReplace(id, a)
      PROVE  live'.owner \in Accounts
  BY <1>2 DEF ModifyReplace, ReplacementOf, AllOwned
<1>3. ASSUME phase = "match", NEW price \in DOMAIN levels[MakerSide],
             TradeWithHead(price) \/ CancelMaker(price)
      PROVE  live'.owner \in Accounts
  <2>1. live \in LiveOrder
    BY <1>3, LiveFacts
  <2>2. live'.owner = live.owner
    BY <1>3, <2>1 DEF TradeWithHead, CancelMaker, LiveOrder
  <2>. QED  BY <1>3, <2>2 DEF AllOwned
<1>4. ASSUME NEW i \in DOMAIN stops, ActivateStop(i)
      PROVE  live'.owner \in Accounts
  BY <1>4 DEF ActivateStop, LiveOf, AllOwned
<1>5. ASSUME UNCHANGED vars
      PROVE  live'.owner \in Accounts
  BY <1>5 DEF vars, engineVars, AllOwned
<1>. QED  BY <1>1, <1>2, <1>3, <1>4, <1>5, NextIsLiveStep DEF LiveStep

LEMMA SamePositionsBalance ==
    ASSUME EveryOrderOwned, NetsBalance, NetsSame
    PROVE  NetsBalance'
<1>1. \A o \in Accounts : NetPositions[o] = NetPositions'[o]
  BY DEF NetPositions, NetsSame
<1>2. SumFunctionOnSet(NetPositions, Accounts) =
         SumFunctionOnSet(NetPositions', Accounts)
  BY <1>1, SumAgree DEF EveryOrderOwned
<1>. QED  BY <1>2 DEF NetsBalance

\* What one of the two gets the other gives, also when they are the same.
LEMMA TradedPositionsBalance ==
    ASSUME EveryOrderOwned, NetsBalance,
           accounts \in [Accounts -> AccountState],
           NEW taker \in Accounts, NEW maker \in Accounts,
           NEW side \in Sides, NEW traded \in Nat,
           NetsMove(taker, maker, side, traded)
    PROVE  NetsBalance'
<1> DEFINE given == Signed(Opposite(side), traded)
           got   == Signed(side, traded)
           f     == NetPositions
           once  == [o \in Accounts |-> f[o] + IF o = taker THEN given ELSE 0]
           twice == [o \in Accounts |-> once[o] + IF o = maker THEN got ELSE 0]
<1>1. given \in Int /\ got \in Int /\ given + got = 0
  BY DEF Signed, Opposite, Sides
<1>2. \A o \in Accounts : f[o] \in Int
  BY DEF NetPositions, AccountState
<1>. HIDE DEF given, got, f
<1>3. /\ \A o \in Accounts : once[o] \in Int
      /\ \A o \in Accounts \ {taker} : f[o] = once[o]
      /\ once[taker] = f[taker] + given
  BY <1>1, <1>2
<1>. HIDE DEF once
<1>4. /\ \A o \in Accounts : twice[o] \in Int
      /\ \A o \in Accounts \ {maker} : once[o] = twice[o]
      /\ twice[maker] = once[maker] + got
  BY <1>1, <1>3
<1>. HIDE DEF twice
<1>5. IsFiniteSet(Accounts)
  BY DEF EveryOrderOwned
<1>6. /\ SumFunctionOnSet(once, Accounts) =
            SumFunctionOnSet(f, Accounts) + once[taker] - f[taker]
      /\ SumFunctionOnSet(f, Accounts) \in Int
  BY <1>2, <1>3, <1>5, SumReplaced
<1>7. /\ SumFunctionOnSet(twice, Accounts) =
            SumFunctionOnSet(once, Accounts) + twice[maker] - once[maker]
      /\ SumFunctionOnSet(once, Accounts) \in Int
  BY <1>3, <1>4, <1>5, SumReplaced
<1>8. SumFunctionOnSet(f, Accounts) = 0
  BY DEF NetsBalance, f
<1>9. SumFunctionOnSet(twice, Accounts) = 0
  BY <1>1, <1>2, <1>3, <1>4, <1>6, <1>7, <1>8
<1>10. \A o \in Accounts : NetPositions'[o] = twice[o]
  BY DEF NetPositions, NetsMove, f, once, twice, given, got
<1>11. SumFunctionOnSet(NetPositions', Accounts) =
          SumFunctionOnSet(twice, Accounts)
  BY <1>5, <1>10, SumAgree
<1>. QED  BY <1>9, <1>11 DEF NetsBalance

BalanceInv == EveryOrderOwned /\ AllOwned /\ NetsBalance

LEMMA BalanceKept ==
    Inv /\ VolumeInv /\ BalanceInv /\ [Next]_vars => BalanceInv'
<1>. SUFFICES ASSUME Inv, VolumeInv, BalanceInv, [Next]_vars
              PROVE  AllOwned' /\ NetsBalance'
  BY DEF BalanceInv, EveryOrderOwned
<1>. DEFINE Kept == /\ \A x \in DOMAIN resting' : resting'[x].owner \in Accounts
                    /\ NetsBalance'
<1>1. /\ BookInv
      /\ OpenCovers
      /\ EveryOrderOwned
      /\ AllOwned
      /\ NetsBalance
      /\ \A x \in DOMAIN resting : resting[x].owner \in Accounts
      /\ accounts \in [Accounts -> AccountState]
  BY RestingFinite, VolumesCover
     DEF Inv, VolumeInv, FinitelyMany, BalanceInv, AllOwned, BookInv,
         BookTypeOK
<1>2. ASSUME UNCHANGED bookVars
      PROVE  Kept
  <2>1. NetsSame
    BY <1>2 DEF NetsSame, bookVars
  <2>. QED  BY <1>1, <1>2, <2>1, SamePositionsBalance DEF bookVars
<1>3. ASSUME NEW id \in DOMAIN resting, CancelResting(id)
      PROVE  Kept
  BY <1>1, <1>3, CancelMoves, MoveKeepsOwned, SamePositionsBalance DEF OneMove
<1>4. ASSUME NEW id \in DOMAIN resting, NEW qty \in Nat \ {0}, Reduce(id, qty)
      PROVE  Kept
  BY <1>1, <1>4, ReduceMoves, MoveKeepsOwned, SamePositionsBalance DEF OneMove
<1>5. ASSUME NEW side \in Sides, NEW price \in DOMAIN levels[side],
             Detach(side, price)
      PROVE  Kept
  <2>1. Head(FifoOf(side, price)) \in DOMAIN resting
    BY <1>1, HeadFacts
  <2>. QED  BY <1>1, <1>5, <2>1, DetachMoves, MoveKeepsOwned,
               SamePositionsBalance DEF OneMove
<1>6. ASSUME phase = "match", NEW side \in Sides,
             NEW price \in DOMAIN levels[side], NEW traded \in Nat,
             FillHead(side, price, traded, live.owner)
      PROVE  Kept
  <2>1. PICK taker \in Accounts : taker = live.owner
    BY <1>1, <1>6 DEF AllOwned
  <2>2. PICK id : id = Head(FifoOf(side, price))
    OBVIOUS
  <2>3. taker \in Owners /\ FillHead(side, price, traded, taker)
    BY <1>6, <2>1 DEF Owners
  <2>4. /\ id \in DOMAIN resting
        /\ OneMove(id, side, price, resting[id].owner)
        /\ NetsMove(taker, resting[id].owner, side, traded)
    BY <1>1, <2>2, <2>3, FillMoves
  <2>5. PICK maker \in Accounts : maker = resting[id].owner
    BY <1>1, <2>4
  <2>6. /\ OneOrder(id, side, price, maker)
        /\ NetsMove(taker, maker, side, traded)
    BY <2>4, <2>5 DEF OneMove
  <2>. QED  BY <1>1, <2>6, MoveKeepsOwned, TradedPositionsBalance
<1>7. ASSUME phase = "match", NEW id \in Nat \ DOMAIN resting,
             NEW order \in RestingOrder, NEW display \in Nat,
             NEW hidden \in Nat, order.owner = live.owner,
             Insert(id, order, display, hidden)
      PROVE  Kept
  <2>1. order.owner \in Accounts
    BY <1>1, <1>7 DEF AllOwned
  <2>. QED  BY <1>1, <1>7, <2>1, InsertMoves, MoveKeepsOwned,
               SamePositionsBalance DEF OneMove
<1>8. Kept
  <2>1. BookStep
    BY NextIsBookStep
  <2>. QED  BY <1>1, <1>2, <1>3, <1>4, <1>5, <1>6, <1>7, <2>1
               DEF BookStep, bookVars
<1>. QED  BY <1>1, <1>8, StopsStayOwned, LiveStaysOwned DEF AllOwned

LEMMA BalanceInit == EveryOrderOwned /\ Init => BalanceInv
<1>. SUFFICES ASSUME EveryOrderOwned, Init
              PROVE  AllOwned /\ NetsBalance
  BY DEF BalanceInv
<1>1. /\ DOMAIN resting = {}
      /\ DOMAIN stops = {}
      /\ phase = "idle"
      /\ accounts = [owner \in Accounts |-> NoAccount]
  BY DEF Init, BookInit
<1>2. AllOwned
  BY <1>1 DEF AllOwned
<1>3. \A o \in Accounts : NetPositions[o] = 0
  BY <1>1 DEF NetPositions, NoAccount
<1>4. SumFunctionOnSet(NetPositions, Accounts) = 0
  BY <1>3, SumOfZeros DEF EveryOrderOwned
<1>. QED  BY <1>2, <1>4 DEF NetsBalance

\* When no order is anonymous the positions of all accounts sum to zero,
\* self-trades included.
THEOREM PositionsBalance == EveryOrderOwned => (Spec => []NetsBalance)
<1>1. BalanceInv => NetsBalance
  BY DEF BalanceInv
<1>. QED  BY <1>1, BalanceInit, BalanceKept, VolumeInvariance, PTL DEF Spec

----------------------------------------------------------------------------
(* The position limit: what an account has, and what it would have if all   *)
(* of it were filled on one side.                                           *)

Exposed(owner, side) ==
    Signed(side, accounts[owner].net) + accounts[owner].open[side]
        + LiveExposure(owner, side)

\* Nobody gets nearer to the limit, or else what the step gave a way into the
\* market was checked.
ExposureKept ==
    \A owner \in Accounts, side \in Sides :
        \/ Exposed(owner, side)' <= Exposed(owner, side)
        \/ PositionLimit > 0 => Exposed(owner, side)' <= PositionLimit

\* The book changes, if at all, so that accounts have less in it.
BookReleases ==
    /\ NetsSame
    /\ \A o \in Accounts, s \in Sides :
          accounts'[o].open[s] <= accounts[o].open[s]

ExposuresTyped ==
    \A owner \in Accounts, side \in Sides :
        /\ accounts[owner].net \in Int
        /\ accounts[owner].open[side] \in Nat
        /\ LiveExposure(owner, side) \in Nat
        /\ Exposed(owner, side) \in Int

LEMMA ExposureTyped == Inv => ExposuresTyped
<1>. SUFFICES ASSUME Inv, NEW owner \in Accounts, NEW side \in Sides
              PROVE  /\ accounts[owner].net \in Int
                     /\ accounts[owner].open[side] \in Nat
                     /\ LiveExposure(owner, side) \in Nat
                     /\ Exposed(owner, side) \in Int
  BY DEF ExposuresTyped
<1>1. accounts[owner].net \in Int /\ accounts[owner].open[side] \in Nat
  BY DEF Inv, BookInv, BookTypeOK, AccountState
<1>2. LiveExposure(owner, side) \in Nat
  <2>1. phase = "match" => live.qty \in Nat
    BY LiveFacts
  <2>. QED  BY <2>1 DEF LiveExposure
<1>. QED  BY <1>1, <1>2 DEF Exposed, Signed

LEMMA QuietExposure ==
    ASSUME ExposuresTyped, ExposuresTyped', BookReleases,
           \A o \in Accounts, s \in Sides :
               LiveExposure(o, s)' <= LiveExposure(o, s)
    PROVE  ExposureKept
<1>. SUFFICES ASSUME NEW o \in Accounts, NEW s \in Sides
              PROVE  Exposed(o, s)' <= Exposed(o, s)
  BY DEF ExposureKept
<1>1. /\ accounts'[o].net = accounts[o].net
      /\ accounts'[o].open[s] <= accounts[o].open[s]
      /\ LiveExposure(o, s)' <= LiveExposure(o, s)
  BY DEF BookReleases, NetsSame
<1>2. /\ accounts[o].net \in Int
      /\ accounts[o].open[s] \in Nat
      /\ accounts'[o].open[s] \in Nat
      /\ LiveExposure(o, s) \in Nat
      /\ LiveExposure(o, s)' \in Nat
  BY DEF ExposuresTyped
<1>. QED  BY <1>1, <1>2 DEF Exposed, Signed

LEMMA MoveReleases ==
    ASSUME ExposuresTyped, NetsSame,
           NEW owner, NEW side, NEW delta \in Nat,
           OpenMoves(owner, side, -delta)
    PROVE  BookReleases
<1>1. ASSUME NEW o \in Accounts, NEW s \in Sides
      PROVE  accounts'[o].open[s] <= accounts[o].open[s]
  <2>1. accounts[o].open[s] \in Nat
    BY DEF ExposuresTyped
  <2>2. accounts'[o].open[s] = accounts[o].open[s] +
            IF o = owner /\ s = side THEN -delta ELSE 0
    BY DEF OpenMoves
  <2>. QED  BY <2>1, <2>2
<1>. QED  BY <1>1 DEF BookReleases

\* Cancels, reductions and self-trade cancels only release.
LEMMA RemovalsRelease ==
    ASSUME Inv, VolumeInv,
           \/ UNCHANGED bookVars
           \/ \E id \in DOMAIN resting : CancelResting(id)
           \/ \E id \in DOMAIN resting, qty \in Nat : Reduce(id, qty)
           \/ \E side \in Sides : \E price \in DOMAIN levels[side] :
                 Detach(side, price)
    PROVE  BookReleases
<1>1. BookInv /\ OpenCovers /\ ExposuresTyped
  BY RestingFinite, VolumesCover, ExposureTyped
     DEF Inv, VolumeInv, FinitelyMany
<1>2. CASE UNCHANGED bookVars
  BY <1>1, <1>2 DEF BookReleases, NetsSame, bookVars, ExposuresTyped
<1>3. ASSUME NEW id \in DOMAIN resting, CancelResting(id)
      PROVE  BookReleases
  <2>1. PICK gone : gone = VolumeOf(id)
    OBVIOUS
  <2>2. gone \in Nat /\ VolumeOf(id)' - VolumeOf(id) = -gone
    BY <1>1, <1>3, <2>1, CancelMoves, OrderVolume
  <2>3. PICK owner : owner = resting[id].owner
    OBVIOUS
  <2>4. PICK side : side = resting[id].side
    OBVIOUS
  <2>5. OpenMoves(owner, side, -gone) /\ NetsSame
    BY <1>1, <1>3, <2>2, <2>3, <2>4, CancelMoves DEF OneMove
  <2>. QED  BY <1>1, <2>2, <2>5, MoveReleases
<1>4. ASSUME NEW id \in DOMAIN resting, NEW qty \in Nat, Reduce(id, qty)
      PROVE  BookReleases
  <2>1. PICK gone \in Nat : VolumeOf(id)' = VolumeOf(id) - gone
    BY <1>1, <1>4, ReduceMoves
  <2>2. VolumeOf(id) \in Nat
    BY <1>1, OrderVolume
  <2>3. PICK owner : owner = resting[id].owner
    OBVIOUS
  <2>4. PICK side : side = resting[id].side
    OBVIOUS
  <2>5. OpenMoves(owner, side, VolumeOf(id)' - VolumeOf(id)) /\ NetsSame
    BY <1>1, <1>4, <2>3, <2>4, ReduceMoves DEF OneMove
  <2>6. VolumeOf(id)' - VolumeOf(id) = -gone
    BY <2>1, <2>2
  <2>. QED  BY <1>1, <2>5, <2>6, MoveReleases
<1>5. ASSUME NEW side \in Sides, NEW price \in DOMAIN levels[side],
             Detach(side, price)
      PROVE  BookReleases
  <2>1. PICK id : id = Head(FifoOf(side, price))
    OBVIOUS
  <2>2. id \in DOMAIN resting
    BY <1>1, <2>1, HeadFacts
  <2>3. PICK gone : gone = VolumeOf(id)
    OBVIOUS
  <2>4. gone \in Nat /\ VolumeOf(id)' - VolumeOf(id) = -gone
    BY <1>1, <1>5, <2>1, <2>2, <2>3, DetachMoves, OrderVolume
  <2>5. PICK owner : owner = resting[id].owner
    OBVIOUS
  <2>6. OpenMoves(owner, side, -gone) /\ NetsSame
    BY <1>1, <1>5, <2>1, <2>4, <2>5, DetachMoves DEF OneMove
  <2>. QED  BY <1>1, <2>4, <2>6, MoveReleases
<1>. QED  BY <1>2, <1>3, <1>4, <1>5

\* A command that passed the gateway starts to match: it alone adds to what
\* its owner has in the market.
LEMMA CheckedExposure ==
    ASSUME ExposuresTyped, ExposuresTyped', BookReleases,
           phase # "match", phase' = "match",
           PositionLimit > 0 /\ live'.owner \in Accounts =>
               Signed(live'.side, accounts'[live'.owner].net)
                   + accounts'[live'.owner].open[live'.side] + live'.qty
                 <= PositionLimit
    PROVE  ExposureKept
<1>. SUFFICES ASSUME NEW o \in Accounts, NEW s \in Sides, PositionLimit > 0
              PROVE  \/ Exposed(o, s)' <= Exposed(o, s)
                     \/ Exposed(o, s)' <= PositionLimit
  BY RiskAssumption DEF ExposureKept
<1>1. CASE live'.owner = o /\ live'.side = s
  <2>1. LiveExposure(o, s)' = live'.qty
    BY <1>1 DEF LiveExposure
  <2>. QED  BY <1>1, <2>1 DEF Exposed
<1>2. CASE ~(live'.owner = o /\ live'.side = s)
  <2>1. LiveExposure(o, s)' = 0
    BY <1>2 DEF LiveExposure
  <2>2. /\ accounts'[o].net = accounts[o].net
        /\ accounts'[o].open[s] <= accounts[o].open[s]
    BY DEF BookReleases, NetsSame
  <2>3. /\ accounts[o].net \in Int
        /\ accounts[o].open[s] \in Nat
        /\ accounts'[o].open[s] \in Nat
        /\ LiveExposure(o, s) \in Nat
    BY DEF ExposuresTyped
  <2>. QED  BY <2>1, <2>2, <2>3 DEF Exposed, Signed
<1>. QED  BY <1>1, <1>2

LEMMA PositionIsOk ==
    ASSUME NEW net, NEW open, NEW side \in Sides, NEW qty, PositionLimit > 0,
           PositionOk(net, open, side, qty)
    PROVE  Signed(side, net) + open + qty <= PositionLimit
BY RiskAssumption DEF PositionOk, Signed

LEMMA AcceptedExposure ==
    ASSUME Inv, Inv', NEW order \in NewOrder, AcceptOrder(order)
    PROVE  ExposureKept
<1>1. ExposuresTyped
  BY ExposureTyped
<1>2. Inv' => ExposuresTyped'
  BY ExposureTyped, PTL
<1>3. /\ Validate(New(order)) = Ok
      /\ phase # "match"
      /\ phase' = "match"
      /\ live'.owner = order.owner
      /\ live'.side = order.side
      /\ live'.qty = order.qty
      /\ accounts' = accounts
      /\ UNCHANGED bookVars
  BY DEF AcceptOrder, Admit, Submit, LiveOf, bookVars
<1>4. order.side \in Sides
  BY DEF NewOrder
<1>5. BookReleases
  BY <1>1, <1>3 DEF BookReleases, NetsSame, ExposuresTyped
<1>6. ASSUME PositionLimit > 0, order.owner \in Accounts
      PROVE  Signed(order.side, accounts[order.owner].net)
                 + accounts[order.owner].open[order.side] + order.qty
               <= PositionLimit
  <2> DEFINE ctx == RiskContext(New(order))
  <2>1. order.owner # Anonymous
    BY <1>6, AccountsAssumption DEF Anonymous
  <2>2. RiskActive
    BY <1>6 DEF RiskActive
  <2>3. RiskNew(order, ctx) = Ok
    BY <1>3, <2>2 DEF Validate, RiskVerdict, New, Ok
  <2>4. /\ ctx.net = accounts[order.owner].net
        /\ ctx.open = accounts[order.owner].open[order.side]
    BY <2>1 DEF RiskContext, New, Net, Open
  <2>. HIDE DEF ctx
  <2>5. PositionOk(ctx.net, ctx.open, order.side, order.qty)
    BY <2>1, <2>3 DEF RiskNew, Ok
  <2>6. Signed(order.side, ctx.net) + ctx.open + order.qty <= PositionLimit
    BY <1>4, <1>6, <2>5, PositionIsOk
  <2>. QED  BY <2>4, <2>6
<1>. QED  BY <1>1, <1>2, <1>3, <1>5, <1>6, CheckedExposure

\* An amendment is checked against the open volume without the order it
\* amends, which has left the book when the rest of it is matched.
LEMMA AmendedExposure ==
    ASSUME Inv, Inv', VolumeInv, NEW id \in Nat, NEW a \in Amendments,
           ModifyReplace(id, a)
    PROVE  ExposureKept
<1>1. /\ ExposuresTyped
      /\ BookInv
      /\ OpenCovers
  BY ExposureTyped, RestingFinite, VolumesCover
     DEF Inv, VolumeInv, FinitelyMany
<1>2. Inv' => ExposuresTyped'
  BY ExposureTyped, PTL
<1>3. /\ Validate(Modify(id, a)) = Ok
      /\ id \in DOMAIN resting
      /\ phase # "match"
      /\ phase' = "match"
      /\ live'.owner = resting[id].owner
      /\ live'.side = resting[id].side
      /\ live'.qty = a.qty
      /\ CancelResting(id)
  BY DEF ModifyReplace, Admit, Submit, ReplacementOf
<1>4. BookReleases
  BY <1>3, RemovalsRelease
<1>5. PICK owner : owner = resting[id].owner
  OBVIOUS
<1>6. PICK side : side = resting[id].side
  OBVIOUS
<1>7. PICK own : own = VolumeOf(id)
  OBVIOUS
<1>8. /\ side \in Sides
      /\ own \in Nat
      /\ own = resting[id].qty + Hidden(id)
      /\ a.qty \in Nat
  BY <1>1, <1>3, <1>6, <1>7, OrderFacts, OrderVolume, AmendmentHasQty
     DEF OpenVolume
<1>9. ASSUME PositionLimit > 0, owner \in Accounts
      PROVE  Signed(side, accounts'[owner].net)
                 + accounts'[owner].open[side] + a.qty <= PositionLimit
  <2> DEFINE ctx == RiskContext(Modify(id, a))
  <2>1. owner # Anonymous
    BY <1>9, AccountsAssumption DEF Anonymous
  <2>2. RiskActive
    BY <1>9 DEF RiskActive
  <2>3. RiskModify(Modify(id, a), ctx) = Ok
    BY <1>3, <2>2 DEF Validate, RiskVerdict, Modify, Ok
  <2>4. accounts[owner].open[side] \in Nat /\ own <= accounts[owner].open[side]
    BY <1>1, <1>3, <1>5, <1>6, <1>7, <1>8, <1>9 DEF OpenCovers, ExposuresTyped
  <2>5. /\ ctx.owner = owner
        /\ ctx.side = side
        /\ ctx.net = accounts[owner].net
        /\ ctx.open = IF accounts[owner].open[side] > own
                      THEN accounts[owner].open[side] - own ELSE 0
    BY <1>3, <1>5, <1>6, <1>8, <2>1 DEF RiskContext, Modify, Net, Open
  <2>6. PositionOk(ctx.net, ctx.open, ctx.side, a.qty)
    <3>. HIDE DEF ctx
    <3>1. Modify(id, a).qty = a.qty
      BY DEF Modify
    <3>. QED  BY <2>1, <2>3, <2>5, <3>1 DEF RiskModify, Ok
  <2>. HIDE DEF ctx
  <2>7. Signed(side, accounts[owner].net) + ctx.open + a.qty <= PositionLimit
    BY <1>8, <1>9, <2>5, <2>6, PositionIsOk
  <2>8. ctx.open = accounts[owner].open[side] - own
    BY <1>8, <2>4, <2>5
  <2>9. VolumeOf(id)' - VolumeOf(id) = 0 - own
    BY <1>1, <1>3, <1>7, CancelMoves
  <2>10. OpenMoves(owner, side, 0 - own)
    BY <1>1, <1>3, <1>5, <1>6, <2>9, CancelMoves DEF OneMove
  <2>11. accounts'[owner].open[side] = accounts[owner].open[side] - own
    BY <1>8, <1>9, <2>4, <2>10 DEF OpenMoves
  <2>12. accounts'[owner].net = accounts[owner].net
    BY <1>4, <1>9 DEF BookReleases, NetsSame
  <2>. QED  BY <2>7, <2>8, <2>11, <2>12
<1>. QED  BY <1>1, <1>2, <1>3, <1>4, <1>5, <1>6, <1>9, CheckedExposure

\* What the taker may still fill becomes its position, and the open volume of
\* the maker becomes the position of the maker, also when the two are one.
LEMMA TradedExposure ==
    ASSUME Inv, Inv', VolumeInv, phase = "match",
           NEW price \in DOMAIN levels[MakerSide], TradeWithHead(price)
    PROVE  ExposureKept
<1>1. /\ ExposuresTyped
      /\ BookInv
      /\ OpenCovers
  BY ExposureTyped, RestingFinite, VolumesCover
     DEF Inv, VolumeInv, FinitelyMany
<1>2. Inv' => ExposuresTyped'
  BY ExposureTyped, PTL
<1>3. PICK traded \in Nat :
         /\ FillHead(MakerSide, price, traded, live.owner)
         /\ traded <= live.qty
         /\ live'.qty = live.qty - traded
         /\ live'.side = live.side
         /\ live'.owner = live.owner
         /\ phase' = phase
  BY TradeFacts
<1>4. PICK taker : taker = live.owner
  OBVIOUS
<1>5. PICK side : side = live.side
  OBVIOUS
<1>6. PICK maker_side : maker_side = MakerSide
  OBVIOUS
<1>7. PICK id : id = Head(FifoOf(maker_side, price))
  OBVIOUS
<1>8. PICK maker : maker = resting[id].owner
  OBVIOUS
<1>9. PICK left : left = live.qty
  OBVIOUS
<1>10. /\ taker \in Owners
       /\ side \in Sides
       /\ maker_side = Opposite(side)
       /\ maker_side \in Sides
       /\ side = Opposite(maker_side)
       /\ left \in Nat
       /\ traded <= left
       /\ price \in DOMAIN levels[maker_side]
       /\ FillHead(maker_side, price, traded, taker)
  BY <1>3, <1>4, <1>5, <1>6, <1>9, LiveFacts DEF MakerSide, Opposite, Sides
<1>11. /\ OneMove(id, maker_side, price, maker)
       /\ VolumeOf(id)' = VolumeOf(id) - traded
       /\ NetsMove(taker, maker, maker_side, traded)
       /\ id \in DOMAIN resting
  BY <1>1, <1>7, <1>8, <1>10, FillMoves
<1>12. VolumeOf(id)' - VolumeOf(id) = -traded
  <2>1. VolumeOf(id) \in Nat
    BY <1>1, <1>11, OrderVolume
  <2>. QED  BY <1>11, <2>1
<1>13. OpenMoves(maker, maker_side, -traded)
  BY <1>11, <1>12 DEF OneMove
<1>. SUFFICES ASSUME NEW o \in Accounts, NEW s \in Sides
              PROVE  Exposed(o, s)' <= Exposed(o, s)
  BY DEF ExposureKept
<1>14. /\ LiveExposure(o, s) = IF o = taker /\ s = side THEN left ELSE 0
       /\ LiveExposure(o, s)' =
             IF o = taker /\ s = side THEN left - traded ELSE 0
  BY <1>3, <1>4, <1>5, <1>9 DEF LiveExposure
<1>15. /\ accounts[o].net \in Int
       /\ accounts[o].open[s] \in Nat
  BY <1>1 DEF ExposuresTyped
<1>16. accounts'[o].open[s] = accounts[o].open[s] +
           IF o = maker /\ s = maker_side THEN -traded ELSE 0
  BY <1>13 DEF OpenMoves
<1>17. accounts'[o].net = accounts[o].net
           + (IF o = taker THEN Signed(side, traded) ELSE 0)
           + (IF o = maker THEN Signed(maker_side, traded) ELSE 0)
  BY <1>10, <1>11 DEF NetsMove
<1>18. \/ s = "Buy" /\ side = "Buy" /\ maker_side = "Sell"
       \/ s = "Sell" /\ side = "Buy" /\ maker_side = "Sell"
       \/ s = "Buy" /\ side = "Sell" /\ maker_side = "Buy"
       \/ s = "Sell" /\ side = "Sell" /\ maker_side = "Buy"
  BY <1>10 DEF Opposite, Sides
<1>19. traded \in Nat /\ left \in Nat /\ traded <= left
  BY <1>10
<1>20. Signed("Buy", traded) = traded /\ Signed("Sell", traded) = -traded
  BY DEF Signed
<1>21. /\ Exposed(o, s) = Signed(s, accounts[o].net) + accounts[o].open[s]
                             + LiveExposure(o, s)
       /\ Exposed(o, s)' = Signed(s, accounts'[o].net) + accounts'[o].open[s]
                              + LiveExposure(o, s)'
  BY DEF Exposed
<1>22. PICK net, open : net = accounts[o].net /\ open = accounts[o].open[s]
  OBVIOUS
<1>23. PICK net1, open1 :
          net1 = accounts'[o].net /\ open1 = accounts'[o].open[s]
  OBVIOUS
<1>24. PICK before, after :
          before = LiveExposure(o, s) /\ after = LiveExposure(o, s)'
  OBVIOUS
<1>25. /\ net \in Int
       /\ open \in Nat
       /\ before = IF o = taker /\ s = side THEN left ELSE 0
       /\ after = IF o = taker /\ s = side THEN left - traded ELSE 0
       /\ open1 = open + IF o = maker /\ s = maker_side THEN -traded ELSE 0
       /\ net1 = net + (IF o = taker THEN Signed(side, traded) ELSE 0)
                     + (IF o = maker THEN Signed(maker_side, traded) ELSE 0)
  BY <1>14, <1>15, <1>16, <1>17, <1>22, <1>23, <1>24
<1>26. Signed(s, net1) + open1 + after <= Signed(s, net) + open + before
  <2>1. /\ Signed(s, net) = IF s = "Buy" THEN net ELSE -net
        /\ Signed(s, net1) = IF s = "Buy" THEN net1 ELSE -net1
    BY DEF Signed
  <2>2. CASE side = "Buy"
    BY <1>18, <1>19, <1>20, <1>25, <2>1, <2>2
  <2>3. CASE side = "Sell"
    BY <1>18, <1>19, <1>20, <1>25, <2>1, <2>3
  <2>. QED  BY <1>18, <2>2, <2>3
<1>. QED  BY <1>21, <1>22, <1>23, <1>24, <1>26

\* What rests was a way into the market before, and is one now.
LEMMA RestedExposure ==
    ASSUME Inv, Inv', VolumeInv, RestRemainder
    PROVE  ExposureKept
<1>1. ExposuresTyped /\ BookInv
  BY ExposureTyped DEF Inv
<1>2. /\ phase = "match"
      /\ phase' = "stops"
  BY DEF RestRemainder, FinishWith, Matching
<1>3. PICK order \in RestingOrder, hidden \in Nat :
         /\ Insert(live.order_id, order, live.display, hidden)
         /\ order.side = live.side
         /\ order.owner = live.owner
         /\ order.qty + hidden = live.qty
         /\ live.order_id \in Nat \ DOMAIN resting
         /\ live.display \in Nat
  BY RestFacts
<1>4. PICK id : id = live.order_id
  OBVIOUS
<1>5. PICK display : display = live.display
  OBVIOUS
<1>6. /\ OneMove(id, order.side, order.price, order.owner)
      /\ VolumeOf(id) = 0
      /\ VolumeOf(id)' = order.qty + hidden
      /\ NetsSame
  BY <1>1, <1>3, <1>4, <1>5, InsertMoves
<1>7. order.qty + hidden \in Nat
  BY <1>3 DEF RestingOrder
<1>8. VolumeOf(id)' - VolumeOf(id) = order.qty + hidden
  BY <1>6, <1>7
<1>9. OpenMoves(order.owner, order.side, order.qty + hidden)
  BY <1>6, <1>8 DEF OneMove
<1>. SUFFICES ASSUME NEW o \in Accounts, NEW s \in Sides
              PROVE  Exposed(o, s)' <= Exposed(o, s)
  BY DEF ExposureKept
<1>10. /\ LiveExposure(o, s)' = 0
       /\ LiveExposure(o, s) = IF o = order.owner /\ s = order.side
                               THEN order.qty + hidden ELSE 0
  BY <1>2, <1>3 DEF LiveExposure
<1>11. /\ accounts[o].net \in Int
       /\ accounts[o].open[s] \in Nat
  BY <1>1 DEF ExposuresTyped
<1>12. /\ accounts'[o].net = accounts[o].net
       /\ accounts'[o].open[s] = accounts[o].open[s] +
             IF o = order.owner /\ s = order.side
             THEN order.qty + hidden ELSE 0
  BY <1>6, <1>9 DEF NetsSame, OpenMoves
<1>. QED  BY <1>7, <1>10, <1>11, <1>12 DEF Exposed, Signed

\* Only a stop that is activated adds what no check has seen.
LEMMA NextExposure ==
    ASSUME Inv, Inv', VolumeInv, [Next]_vars
    PROVE  ExposureKept \/ \E i \in DOMAIN stops : ActivateStop(i)
<1>1. ExposuresTyped
  BY ExposureTyped
<1>2. Inv' => ExposuresTyped'
  BY ExposureTyped, PTL
<1> DEFINE Lower == \A o \in Accounts, s \in Sides :
                        LiveExposure(o, s)' <= LiveExposure(o, s)
<1>3. ASSUME BookReleases, Lower
      PROVE  ExposureKept
  BY <1>1, <1>2, <1>3, QuietExposure
<1>4. ASSUME phase' # "match" \/ UNCHANGED <<phase, live>>
      PROVE  Lower
  <2>. SUFFICES ASSUME NEW o \in Accounts, NEW s \in Sides
                PROVE  LiveExposure(o, s)' <= LiveExposure(o, s)
    OBVIOUS
  <2>1. LiveExposure(o, s) \in Nat
    BY <1>1 DEF ExposuresTyped
  <2>2. LiveExposure(o, s)' \in {0, LiveExposure(o, s)}
    BY <1>4 DEF LiveExposure
  <2>. QED  BY <2>1, <2>2
<1>5. KnownIds \subseteq Nat
  BY DEF KnownIds, Inv, CallTypeOK
<1>6. ASSUME NEW order \in NewOrders, SubmitNew(order)
      PROVE  ExposureKept
  <2>1. order \in NewOrder
    BY MenuAssumption
  <2>2. CASE AcceptOrder(order)
    BY <2>1, <2>2, AcceptedExposure
  <2>3. CASE RejectCommand(New(order)) \/ ParkStop(order) \/ RefuseOrder(order)
    <3>1. UNCHANGED bookVars /\ phase' # "match"
      BY <2>3 DEF RejectCommand, ParkStop, RefuseOrder
    <3>. QED  BY <1>3, <1>4, <3>1, RemovalsRelease
  <2>. QED  BY <1>6, <2>2, <2>3 DEF SubmitNew
<1>7. ASSUME NEW id \in KnownIds, SubmitCancel(id)
      PROVE  ExposureKept
  <2>1. /\ phase' # "match"
        /\ UNCHANGED bookVars \/ (id \in DOMAIN resting /\ CancelResting(id))
    BY <1>7 DEF SubmitCancel, CancelInBook, CancelStop, CancelUnknown
  <2>. QED  BY <1>3, <1>4, <2>1, RemovalsRelease
<1>8. ASSUME NEW id \in KnownIds, NEW a \in Amendments, SubmitModify(id, a)
      PROVE  ExposureKept
  <2>1. CASE ModifyReplace(id, a)
    BY <1>5, <2>1, AmendedExposure
  <2>2. CASE ModifyInPlace(id, a)
    <3>1. a.qty \in Nat
      BY MenuAssumption DEF Amendment
    <3>2. /\ phase' # "match"
          /\ \/ UNCHANGED bookVars
             \/ id \in DOMAIN resting /\ Reduce(id, a.qty)
      BY <2>2 DEF ModifyInPlace
    <3>. QED  BY <1>3, <1>4, <3>1, <3>2, RemovalsRelease
  <2>3. CASE RejectCommand(Modify(id, a)) \/ ModifyUnknown(id, a)
    <3>1. UNCHANGED bookVars /\ phase' # "match"
      BY <2>3 DEF RejectCommand, ModifyUnknown
    <3>. QED  BY <1>3, <1>4, <3>1, RemovalsRelease
  <2>. QED  BY <1>8, <2>1, <2>2, <2>3 DEF SubmitModify
<1>9. ASSUME phase = "match", MatchStep
      PROVE  ExposureKept
  <2>1. PICK price \in DOMAIN levels[MakerSide] :
           \/ TradeWithHead(price)
           \/ CancelMaker(price)
           \/ CancelTaker(price)
           \/ CancelBoth(price)
    BY <1>9 DEF MatchStep
  <2>2. MakerSide \in Sides /\ live \in LiveOrder
    BY <1>9, LiveFacts
  <2>3. CASE TradeWithHead(price)
    BY <1>9, <2>3, TradedExposure
  <2>4. CASE CancelMaker(price)
    <3>1. /\ Detach(MakerSide, price)
          /\ phase' = phase
          /\ live'.qty = live.qty
          /\ live'.side = live.side
          /\ live'.owner = live.owner
      BY <2>2, <2>4 DEF CancelMaker, LiveOrder
    <3>2. ASSUME NEW o \in Accounts, NEW s \in Sides
          PROVE  LiveExposure(o, s)' <= LiveExposure(o, s)
      <4>1. LiveExposure(o, s) \in Nat
        BY <1>1 DEF ExposuresTyped
      <4>2. LiveExposure(o, s)' = LiveExposure(o, s)
        BY <3>1 DEF LiveExposure
      <4>. QED  BY <4>1, <4>2
    <3>. QED  BY <1>3, <2>2, <3>1, <3>2, RemovalsRelease
  <2>5. CASE CancelTaker(price) \/ CancelBoth(price)
    <3>1. /\ phase' # "match"
          /\ UNCHANGED bookVars \/ Detach(MakerSide, price)
      BY <2>5 DEF CancelTaker, CancelBoth, FinishWith
    <3>. QED  BY <1>3, <1>4, <2>2, <3>1, RemovalsRelease
  <2>. QED  BY <2>1, <2>3, <2>4, <2>5
<1>10. ASSUME FinishStep
       PROVE  ExposureKept
  <2>1. CASE RestRemainder
    BY <2>1, RestedExposure
  <2>2. CASE FinishFilled \/ CancelRemainder
    <3>1. UNCHANGED bookVars /\ phase' # "match"
      BY <2>2 DEF FinishFilled, CancelRemainder, FinishWith
    <3>. QED  BY <1>3, <1>4, <3>1, RemovalsRelease
  <2>. QED  BY <1>10, <2>1, <2>2 DEF FinishStep
<1>11. ASSUME NEW i \in DOMAIN stops, RefuseStop(i)
       PROVE  ExposureKept
  <2>1. UNCHANGED <<bookVars, phase, live>>
    BY <1>11 DEF RefuseStop
  <2>. QED  BY <1>3, <1>4, <2>1, RemovalsRelease
<1>12. ASSUME StopsSettled \/ Deliver \/ UNCHANGED vars
       PROVE  ExposureKept
  <2>1. UNCHANGED bookVars /\ (phase' # "match" \/ UNCHANGED <<phase, live>>)
    BY <1>12 DEF StopsSettled, Deliver, vars, engineVars
  <2>. QED  BY <1>3, <1>4, <2>1, RemovalsRelease
<1>. QED  BY <1>6, <1>7, <1>8, <1>9, <1>10, <1>11, <1>12
             DEF Next, Run, StopStep

LEMMA OnlyStopsActivate ==
    ASSUME Inv, [Next]_vars, Activates
    PROVE  \E i \in DOMAIN stops : ActivateStop(i)
<1>1. /\ phase = "stops"
      /\ phase' = "match"
  BY DEF Activates
<1>2. LiveStep
  BY <1>1, NextIsLiveStep
<1>. QED  BY <1>1, <1>2 DEF LiveStep, AcceptOrder, ModifyReplace, Admit,
                            Submit, vars, engineVars

LimitInv ==
    /\ activated \in [Accounts -> [Sides -> Nat]]
    /\ WithinPositionLimit

LEMMA LimitReads ==
    WithinPositionLimit <=>
        (PositionLimit > 0 =>
            \A owner \in Accounts, side \in Sides :
                Exposed(owner, side) <= PositionLimit + activated[owner][side])
BY DEF WithinPositionLimit, Exposed, Signed

\* A stop is not checked when it is activated, and its volume is on record.
LEMMA ActivatedExposure ==
    ASSUME Inv, Inv', LimitInv, RiskNext,
           NEW i \in DOMAIN stops, ActivateStop(i)
    PROVE  LimitInv'
<1>1. ExposuresTyped
  BY ExposureTyped
<1>2. PICK qty : qty = live'.qty
  OBVIOUS
<1>3. PICK owner : owner = live'.owner
  OBVIOUS
<1>4. PICK side : side = live'.side
  OBVIOUS
<1>5. /\ phase = "stops"
      /\ phase' = "match"
      /\ accounts' = accounts
  BY DEF ActivateStop, TakeTriggered, bookVars
<1>6. qty \in Nat /\ owner \in Owners /\ side \in Sides
  <2>1. stops[i] \in PendingStop
    BY DEF Inv, CallTypeOK
  <2>2. /\ stops[i].qty \in Nat
        /\ stops[i].owner \in Owners
        /\ stops[i].side \in Sides
    BY <2>1 DEF PendingStop
  <2>. QED  BY <1>2, <1>3, <1>4, <2>2 DEF ActivateStop, LiveOf
<1>7. activated' = IF owner # Anonymous
                   THEN [activated EXCEPT ![owner][side] = @ + qty]
                   ELSE activated
  BY <1>2, <1>3, <1>4, <1>5 DEF RiskNext, Activates
<1>8. activated \in [Accounts -> [Sides -> Nat]]
  BY DEF LimitInv
<1>9. activated' \in [Accounts -> [Sides -> Nat]]
  <2>1. CASE owner = Anonymous
    BY <1>7, <1>8, <2>1
  <2>2. CASE owner # Anonymous
    <3>1. owner \in Accounts
      BY <1>6, <2>2 DEF Owners
    <3>2. activated[owner][side] + qty \in Nat
      BY <1>6, <1>8, <3>1
    <3>. QED  BY <1>7, <1>8, <2>2, <3>1, <3>2
  <2>. QED  BY <2>1, <2>2
<1>10. ASSUME PositionLimit > 0, NEW o \in Accounts, NEW s \in Sides
       PROVE  Exposed(o, s)' <= PositionLimit + activated'[o][s]
  <2>1. /\ LiveExposure(o, s) = 0
        /\ LiveExposure(o, s)' = IF owner = o /\ side = s THEN qty ELSE 0
    BY <1>2, <1>3, <1>4, <1>5 DEF LiveExposure
  <2>2. /\ accounts[o].net \in Int
        /\ accounts[o].open[s] \in Nat
    BY <1>1 DEF ExposuresTyped
  <2>3. Exposed(o, s) <= PositionLimit + activated[o][s]
    BY <1>10, LimitReads DEF LimitInv
  <2>4. o # Anonymous
    BY AccountsAssumption DEF Anonymous
  <2>5. activated[o][s] \in Nat
    BY <1>8
  <2>6. activated'[o][s] =
            activated[o][s] + IF owner = o /\ side = s THEN qty ELSE 0
    BY <1>6, <1>7, <1>8, <2>4, <2>5 DEF Owners
  <2>. QED  BY <1>5, <1>6, <2>1, <2>2, <2>3, <2>5, <2>6, RiskAssumption
               DEF Exposed, Signed
<1>11. PositionLimit > 0 =>
          \A o \in Accounts, s \in Sides :
              Exposed(o, s)' <= PositionLimit + activated'[o][s]
  BY <1>10
<1>. QED  BY <1>9, <1>11 DEF LimitInv, WithinPositionLimit, Exposed, Signed

LEMMA LimitKept ==
    Inv /\ VolumeInv /\ LimitInv /\ [RiskNext]_riskVars => LimitInv'
<1>1. Inv /\ [Next]_vars => Inv'
  BY NextKeeps DEF StepKeeps
<1>. SUFFICES ASSUME Inv, VolumeInv, LimitInv, [RiskNext]_riskVars
              PROVE  LimitInv'
  OBVIOUS
<1>2. [Next]_vars
  BY DEF RiskNext, riskVars
<1>3. Inv'
  BY <1>1, <1>2
<1>4. Inv' => ExposuresTyped'
  BY ExposureTyped, PTL
<1>5. CASE \E i \in DOMAIN stops : ActivateStop(i)
  <2>1. PICK i \in DOMAIN stops : ActivateStop(i)
    BY <1>5
  <2>2. CASE RiskNext
    BY <1>3, <2>1, <2>2, ActivatedExposure
  <2>3. CASE UNCHANGED riskVars
    BY <2>1, <2>3 DEF ActivateStop, TakeTriggered, riskVars, vars, engineVars
  <2>. QED  BY <2>2, <2>3
<1>6. CASE ExposureKept /\ ~\E i \in DOMAIN stops : ActivateStop(i)
  <2>1. ~Activates
    BY <1>2, <1>6, OnlyStopsActivate
  <2>2. activated' = activated
    BY <2>1 DEF RiskNext, riskVars
  <2>3. activated \in [Accounts -> [Sides -> Nat]]
    BY DEF LimitInv
  <2>4. ASSUME PositionLimit > 0, NEW o \in Accounts, NEW s \in Sides
        PROVE  Exposed(o, s)' <= PositionLimit + activated[o][s]
    <3>1. \/ Exposed(o, s)' <= Exposed(o, s)
          \/ Exposed(o, s)' <= PositionLimit
      BY <1>6, <2>4 DEF ExposureKept
    <3>2. Exposed(o, s) <= PositionLimit + activated[o][s]
      BY <2>4, LimitReads DEF LimitInv
    <3>3. Exposed(o, s) \in Int
      BY ExposureTyped DEF ExposuresTyped
    <3>4. Exposed(o, s)' \in Int
      BY <1>3, <1>4 DEF ExposuresTyped
    <3>5. activated[o][s] \in Nat
      BY <2>3
    <3>. QED  BY <3>1, <3>2, <3>3, <3>4, <3>5, RiskAssumption
  <2>5. PositionLimit > 0 =>
           \A o \in Accounts, s \in Sides :
               Exposed(o, s)' <= PositionLimit + activated'[o][s]
    BY <2>2, <2>4
  <2>. QED  BY <2>2, <2>3, <2>5
               DEF LimitInv, WithinPositionLimit, Exposed, Signed
<1>. QED  BY <1>2, <1>3, <1>5, <1>6, NextExposure

LEMMA LimitInit == RiskInit => LimitInv
<1>. SUFFICES ASSUME RiskInit
              PROVE  LimitInv
  OBVIOUS
<1>1. /\ activated = [owner \in Accounts |-> [side \in Sides |-> 0]]
      /\ accounts = [owner \in Accounts |-> NoAccount]
      /\ phase = "idle"
  BY DEF RiskInit, Init, BookInit
<1>2. activated \in [Accounts -> [Sides -> Nat]]
  BY <1>1
<1>3. ASSUME NEW o \in Accounts, NEW s \in Sides
      PROVE  /\ accounts[o].net = 0
             /\ accounts[o].open[s] = 0
             /\ LiveExposure(o, s) = 0
             /\ activated[o][s] = 0
  BY <1>1 DEF NoAccount, LiveExposure
<1>. QED  BY <1>2, <1>3, RiskAssumption DEF LimitInv, WithinPositionLimit

\* Whatever fills, amendments, refills and self-trade cancels there are, an
\* account gets past the position limit by no more than the volume of its
\* stops that were activated.
THEOREM PositionLimited == RiskSpec => []WithinPositionLimit
<1>1. RiskInit => Inv /\ VolumeInv
  BY InitInv, VolumeInit DEF RiskInit
<1>2. [RiskNext]_riskVars => [Next]_vars
  BY DEF RiskNext, riskVars
<1>3. Inv /\ VolumeInv /\ [Next]_vars => (Inv /\ VolumeInv)'
  BY NextKeeps, VolumesKept DEF StepKeeps
<1>4. LimitInv => WithinPositionLimit
  BY DEF LimitInv
<1>. QED  BY <1>1, <1>2, <1>3, <1>4, LimitInit, LimitKept, PTL DEF RiskSpec
==============================================================================
