--------------------------- MODULE EngineProperties ---------------------------
(***************************************************************************)
(* What must hold of the matching engine at every step of a call, and what *)
(* a step may never do.                                                    *)
(***************************************************************************)
EXTENDS MatchingEngine

RestingOrder == [side : Sides, price : Nat, qty : Nat, seq : Nat,
                 owner : Owners]
PriceLevel == [total_qty : Int, fifo : Seq(Nat)]
Reserve == [display : Nat, hidden : Nat]
AccountState == [net : Int, open : [Sides -> Nat]]

\* f maps some of the keys to values.
IsMap(f, Keys, Values) ==
    /\ DOMAIN f \subseteq Keys
    /\ f \in [DOMAIN f -> Values]

LevelsTypeOK ==
    /\ levels = [side \in Sides |-> levels[side]]
    /\ \A side \in Sides : IsMap(levels[side], Nat, PriceLevel)

BookTypeOK ==
    /\ LevelsTypeOK
    /\ IsMap(resting, Nat, RestingOrder)
    /\ IsMap(reserves, Nat, Reserve)
    /\ accounts \in [Accounts -> AccountState]

CallTypeOK ==
    /\ seq \in Nat
    /\ next_order_id \in Nat
    /\ stops \in Seq(PendingStop)
    /\ last_trade_price \in Nat \cup {None}
    /\ phase \in {"idle", "match", "stops", "done"}
    /\ command \in IF phase = "idle" THEN {None} ELSE Command
    /\ live \in IF phase = "match" THEN LiveOrder ELSE {None}
    /\ out \in Seq(Event)

\* Every variable has its type; there is a live order exactly while one is
\* being matched, and a command exactly while a call is under way.
TypeOK == BookTypeOK /\ CallTypeOK

----------------------------------------------------------------------------
(* The book *)

FifoOf(side, price) == levels[side][price].fifo

\* The index and the price levels agree: every order of a level's queue is
\* an order of the index with that side and price, and stands in no queue
\* twice; every order of the index stands in the queue of its level; no
\* level is empty (an empty one would be taken for the best price).
IndexMatchesQueues ==
    /\ \A side \in Sides : \A price \in DOMAIN levels[side] :
          /\ FifoOf(side, price) # <<>>
          /\ IsInjective(FifoOf(side, price))
          /\ \A i \in DOMAIN FifoOf(side, price) :
                LET id == FifoOf(side, price)[i]
                IN  /\ id \in DOMAIN resting
                    /\ resting[id].side = side
                    /\ resting[id].price = price
    /\ \A id \in DOMAIN resting :
          /\ resting[id].price \in DOMAIN levels[resting[id].side]
          /\ id \in ToSet(FifoOf(resting[id].side, resting[id].price))

\* A resting order shows something, and an order with a reserve hides
\* something and has a peak to refill from it: the refill of a consumed
\* iceberg never puts an order of quantity 0 into a queue.
NothingEmptyRests ==
    /\ \A id \in DOMAIN resting : resting[id].qty > 0
    /\ \A id \in DOMAIN reserves :
          /\ id \in DOMAIN resting
          /\ reserves[id].display > 0
          /\ reserves[id].hidden > 0

Shown == [id \in DOMAIN resting |-> resting[id].qty]

\* The cached aggregate of a level is the sum of what its orders show, the
\* quantity FOK checks, depth and the L2 feed read.
LevelTotals ==
    \A side \in Sides : \A price \in DOMAIN levels[side] :
        levels[side][price].total_qty =
            SumFunctionOnSet(Shown, ToSet(FifoOf(side, price)))

\* No bid is at or above an ask: what could trade has traded, also after an
\* amendment, a refused stop or a self-trade cancel.
NotCrossed ==
    \A bid \in DOMAIN levels["Buy"], ask \in DOMAIN levels["Sell"] : bid < ask

\* No trade through: an order trades with a level only when it has taken all
\* of what was better, the hidden parts of icebergs included, which come back
\* at the same price in the middle of the sweep.
NoTradeThrough ==
    phase = "match" /\ live.last_px # None =>
        \A price \in DOMAIN levels[MakerSide] :
            IF live.side = "Buy" THEN price >= live.last_px
                                 ELSE price <= live.last_px

StopIds == {stops[i].id : i \in DOMAIN stops}
LiveIds == IF phase = "match" THEN {live.order_id} ELSE {}

\* An order is in one place: the book, the dormant stops or the order being
\* matched; and no place holds an id that was not handed out yet.
OneHome ==
    /\ \A i, j \in DOMAIN stops : stops[i].id = stops[j].id => i = j
    /\ StopIds \cap DOMAIN resting = {}
    /\ LiveIds \cap (StopIds \cup DOMAIN resting) = {}
    /\ \A id \in StopIds \cup DOMAIN resting \cup LiveIds : id < next_order_id

\* x stands before y in a queue.
Before(fifo, x, y) ==
    \E i, j \in DOMAIN fifo : i < j /\ fifo[i] = x /\ fifo[j] = y

\* The step consumed what the iceberg showed.
PeakConsumed(id) ==
    /\ id \in DOMAIN reserves
    /\ phase = "match" /\ phase' = "match"
    /\ live.qty - live'.qty = resting[id].qty

KeepsPlaceStep ==
    \A side \in Sides :
    \A price \in DOMAIN levels[side] \cap DOMAIN levels'[side] :
        LET before == FifoOf(side, price)
            after  == levels'[side][price].fifo
        IN  \A i, j \in DOMAIN after :
                /\ i < j
                /\ after[j] \in ToSet(before)
                /\ ~Before(before, after[i], after[j])
                => PeakConsumed(after[j])

\* Time priority: an order loses its place to another, one that was behind
\* it or one that enters, only as an iceberg whose shown peak was consumed
\* by this very step.  Cancels, reductions, amendments and partial fills of
\* an order leave the others where they are.
KeepsPlace == [][KeepsPlaceStep]_vars

----------------------------------------------------------------------------
(* Execution conditions and stops *)

\* A dormant stop whose condition the last trade price meets exists only
\* inside a call: the cascade of drive_stops leaves none behind, and the
\* paths that skip drive_stops (cancel, in-place amendment, rejection) do
\* not need it.
StopsDormant ==
    phase \in {"idle", "done"} => \A i \in DOMAIN stops : ~IsTriggered(i)

\* What is left of a fill-or-kill order without self-trade prevention is
\* covered by the visible volume it may trade with, so it never ends
\* canceled with a part executed.
FokCovered ==
    phase = "match" /\ live.tif = "Fok" /\ live.stp = "Off"
        => AvailableQty(live.side, live.limit_price) >= live.qty

\* A post-only order never takes liquidity, be it new or a triggered stop.
PostOnlyNeverTakes ==
    phase = "match" /\ live.tif = "PostOnly"
        => /\ NothingToMatch
           /\ live.last_px = None

----------------------------------------------------------------------------
(* Accounts and risk *)

OrdersOf(owner, side) ==
    {id \in DOMAIN resting :
        resting[id].owner = owner /\ resting[id].side = side}

Volumes == [id \in DOMAIN resting |-> resting[id].qty + Hidden(id)]

\* The open volume of an account, which the position limit is checked with,
\* is what its resting orders show and hide: fills, refills, cancels,
\* reductions and self-trade cancels release exactly what they take.
OpenVolumeIsBook ==
    \A owner \in Accounts, side \in Sides :
        accounts[owner].open[side] =
            SumFunctionOnSet(Volumes, OrdersOf(owner, side))

NetPositions == [owner \in Accounts |-> accounts[owner].net]

\* Every trade moves as much into one account as out of another, when no
\* anonymous order takes part.
NetsBalance == SumFunctionOnSet(NetPositions, Accounts) = 0

\* Everything in the book lies on the price and the quantity grid, the
\* peaks an iceberg will show later included.
OnGrid ==
    /\ \A id \in DOMAIN resting :
          TickOk(resting[id].price) /\ LotOk(resting[id].qty)
    /\ \A id \in DOMAIN reserves :
          LotOk(reserves[id].display) /\ LotOk(reserves[id].hidden)

----------------------------------------------------------------------------
\* A call returns: the matching loop and the cascade of stops end.
CallReturns == phase # "idle" ~> phase = "idle"
==============================================================================
