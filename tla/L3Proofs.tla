------------------------------ MODULE L3Proofs ------------------------------
(***************************************************************************)
(* The L3 feed, for every menu of orders and amendments, every size of a   *)
(* batch and of the channel, as long as no order is amended to a better    *)
(* price: it knows the level of every order, and a consumer of its deltas  *)
(* has the queues of the book.                                             *)
(***************************************************************************)
EXTENDS FeedProofs

----------------------------------------------------------------------------
(* What a step of the engine does to a place in the book                    *)

\* An order of the book stays at its level, or it was the one being matched;
\* and that comes from the book or was not in it.
Enters(id) ==
    /\ id \in LiveIds
    /\ live.limit_price \in Nat
    /\ resting'[id].side = live.side
    /\ resting'[id].price = live.limit_price

BookMoves ==
    \A id \in DOMAIN resting' :
        \/ id \in DOMAIN resting /\ LevelOf(id)' = LevelOf(id)
        \/ Enters(id)

Amended(id) ==
    /\ id \in DOMAIN resting
    /\ live'.side = resting[id].side
    /\ \E a \in Amendments :
          ModifyReplace(id, a) /\ live'.limit_price = a.price

LiveMoves ==
    \A id \in LiveIds' :
        \/ /\ id \in LiveIds
           /\ live'.side = live.side
           /\ live'.limit_price = live.limit_price
        \/ Amended(id)
        \/ id \in StopIds \cup {next_order_id}

LEMMA QuietBook ==
    ASSUME UNCHANGED bookVars
    PROVE  BookMoves
BY DEF BookMoves, bookVars, LevelOf

LEMMA ShrunkBook ==
    ASSUME NEW id, resting' = Drop(resting, id)
    PROVE  BookMoves
BY OthersInBook DEF BookMoves, LevelOf

LEMMA NoneLive ==
    ASSUME phase' # "match"
    PROVE  LiveMoves
BY DEF LiveMoves, LiveIds

LEMMA EntriesMove ==
    ASSUME Inv, NEW order \in NewOrders, SubmitNew(order)
    PROVE  BookMoves /\ LiveMoves
<1>1. UNCHANGED bookVars
  BY DEF SubmitNew, RejectCommand, ParkStop, RefuseOrder, AcceptOrder
<1>2. CASE phase' # "match"
  BY <1>1, <1>2, QuietBook, NoneLive
<1>3. CASE phase' = "match"
  <2>1. live'.order_id = next_order_id
    BY <1>3 DEF SubmitNew, RejectCommand, ParkStop, RefuseOrder, AcceptOrder,
                LiveOf
  <2>. QED  BY <1>1, <2>1, QuietBook DEF LiveMoves, LiveIds
<1>. QED  BY <1>2, <1>3

LEMMA CancelsMove ==
    ASSUME Inv, NEW id \in Nat, SubmitCancel(id)
    PROVE  BookMoves /\ LiveMoves
<1>1. phase' # "match"
  BY DEF SubmitCancel, CancelInBook, CancelStop, CancelUnknown
<1>2. UNCHANGED bookVars \/ resting' = Drop(resting, id)
  BY DEF SubmitCancel, CancelInBook, CancelStop, CancelUnknown, CancelResting
<1>. QED  BY <1>1, <1>2, NoneLive, QuietBook, ShrunkBook

LEMMA ModifiesMove ==
    ASSUME Inv, NEW id \in Nat, NEW a \in Amendments, SubmitModify(id, a)
    PROVE  BookMoves /\ LiveMoves
<1>1. CASE RejectCommand(Modify(id, a)) \/ ModifyUnknown(id, a)
  <2>1. UNCHANGED bookVars /\ phase' # "match"
    BY <1>1 DEF RejectCommand, ModifyUnknown
  <2>. QED  BY <2>1, QuietBook, NoneLive
<1>2. CASE ModifyInPlace(id, a)
  <2>1. /\ id \in DOMAIN resting
        /\ UNCHANGED bookVars \/ \E qty : Reduce(id, qty)
        /\ phase' # "match"
    BY <1>2 DEF ModifyInPlace
  <2>2. BookMoves
    BY <2>1, ReducedInBook DEF BookMoves, LevelOf
  <2>. QED  BY <2>1, <2>2, NoneLive
<1>3. CASE ModifyReplace(id, a)
  <2>1. /\ id \in DOMAIN resting
        /\ resting' = Drop(resting, id)
        /\ live'.order_id = id
        /\ live'.side = resting[id].side
        /\ live'.limit_price = a.price
    BY <1>3 DEF ModifyReplace, CancelResting, ReplacementOf
  <2>2. Amended(id)
    BY <1>3, <2>1 DEF Amended
  <2>. QED  BY <2>1, <2>2, ShrunkBook DEF LiveMoves, LiveIds
<1>. QED  BY <1>1, <1>2, <1>3 DEF SubmitModify

LEMMA MakersMove ==
    ASSUME Inv, VolumeInv, phase = "match",
           NEW price \in DOMAIN levels[MakerSide], TradeWithHead(price)
    PROVE  BookMoves /\ LiveMoves
<1>1. PICK traded \in Nat :
         /\ FillHead(MakerSide, price, traded, live.owner)
         /\ live'.side = live.side
         /\ live'.limit_price = live.limit_price
  BY TradeFacts
<1>2. PICK id : id = HeadOf(price)
  OBVIOUS
<1>3. PICK side \in Sides : side = MakerSide
  BY LiveFacts
<1>4. /\ id \in DOMAIN resting
      /\ id \in Nat
      /\ id = Head(FifoOf(MakerSide, price))
      /\ price \in Nat
      /\ live.owner \in Owners
      /\ BookInv
  BY <1>2, LiveFacts, MakerFacts DEF Inv
<1>5. OneOrder(id, side, price, resting[id].owner)
  <2>1. OpenCovers
    BY RestingFinite, VolumesCover DEF Inv, VolumeInv, FinitelyMany
  <2>. QED  BY <1>1, <1>3, <1>4, <2>1, FillMoves DEF OneMove
<1>6. DOMAIN resting' \subseteq DOMAIN resting
  BY <1>1, <1>3, <1>4, FillHeadKeepsBook
<1>7. BookMoves
  <2>1. ASSUME NEW x \in DOMAIN resting'
        PROVE  x \in DOMAIN resting /\ LevelOf(x)' = LevelOf(x)
    <3>1. CASE x = id
      BY <1>4, <1>5, <2>1, <3>1 DEF OneOrder, RestsAs, LevelOf
    <3>2. CASE x # id
      BY <1>5, <1>6, <2>1, <3>2 DEF OneOrder, LevelOf
    <3>. QED  BY <3>1, <3>2
  <2>. QED  BY <2>1 DEF BookMoves
<1>8. LiveIds' = LiveIds
  <2>1. live'.order_id = live.order_id /\ phase' = phase
    BY LiveFacts DEF TradeWithHead, LiveOrder
  <2>. QED  BY <2>1 DEF LiveIds
<1>. QED  BY <1>1, <1>7, <1>8 DEF LiveMoves

LEMMA MatchesMove ==
    ASSUME Inv, VolumeInv, phase = "match", MatchStep
    PROVE  BookMoves /\ LiveMoves
<1>1. PICK price \in DOMAIN levels[MakerSide] :
         \/ TradeWithHead(price)
         \/ CancelMaker(price)
         \/ CancelTaker(price)
         \/ CancelBoth(price)
  BY DEF MatchStep
<1>2. CASE TradeWithHead(price)
  BY <1>2, MakersMove
<1>3. CASE CancelMaker(price)
  <2>1. resting' = Drop(resting, HeadOf(price))
    BY <1>3 DEF CancelMaker, Detach, HeadOf
  <2>2. /\ live'.order_id = live.order_id
        /\ live'.side = live.side
        /\ live'.limit_price = live.limit_price
        /\ phase' = phase
    BY <1>3, LiveFacts DEF CancelMaker, LiveOrder
  <2>. QED  BY <2>1, <2>2, ShrunkBook DEF LiveMoves, LiveIds
<1>4. CASE CancelTaker(price)
  <2>1. UNCHANGED bookVars /\ phase' # "match"
    BY <1>4 DEF CancelTaker, FinishWith
  <2>. QED  BY <2>1, QuietBook, NoneLive
<1>5. CASE CancelBoth(price)
  <2>1. resting' = Drop(resting, HeadOf(price)) /\ phase' # "match"
    BY <1>5 DEF CancelBoth, Detach, HeadOf, FinishWith
  <2>. QED  BY <2>1, ShrunkBook, NoneLive
<1>. QED  BY <1>1, <1>2, <1>3, <1>4, <1>5

LEMMA FinishesMove ==
    ASSUME Inv, phase = "match", FinishStep
    PROVE  BookMoves /\ LiveMoves
<1>1. phase' # "match"
  BY DEF FinishStep, FinishFilled, RestRemainder, CancelRemainder, FinishWith
<1>2. UNCHANGED bookVars => BookMoves
  BY QuietBook
<1>3. CASE RestRemainder
  <2>1. PICK id, order :
           /\ id = live.order_id
           /\ resting' = Put(resting, id, order)
           /\ order.side = live.side
           /\ order.price = live.limit_price
    BY <1>3 DEF RestRemainder, Insert
  <2>2. live.limit_price \in Nat
    BY <1>3, LiveFacts DEF RestRemainder, Rests
  <2>3. /\ DOMAIN resting' = DOMAIN resting \cup {id}
        /\ resting'[id] = order
        /\ \A x \in DOMAIN resting \ {id} : resting'[x] = resting[x]
    BY <2>1 DEF Put
  <2>4. ASSUME NEW x \in DOMAIN resting', x # id
        PROVE  x \in DOMAIN resting /\ LevelOf(x)' = LevelOf(x)
    BY <2>4, <2>3 DEF LevelOf
  <2>5. ASSUME NEW x \in DOMAIN resting', x = id
        PROVE  Enters(x)
    BY <2>1, <2>2, <2>5, <2>3 DEF Enters, LiveIds
  <2>6. BookMoves
    BY <2>4, <2>5 DEF BookMoves
  <2>. QED  BY <1>1, <2>6, NoneLive
<1>. QED  BY <1>1, <1>2, <1>3, NoneLive
          DEF FinishStep, FinishFilled, CancelRemainder

LEMMA StopsMove ==
    ASSUME Inv, StopStep
    PROVE  BookMoves /\ LiveMoves
<1>1. PICK i \in DOMAIN stops : ActivateStop(i) \/ RefuseStop(i)
  BY DEF StopStep
<1>2. UNCHANGED bookVars
  BY <1>1 DEF ActivateStop, RefuseStop
<1>3. CASE ActivateStop(i)
  <2>1. live'.order_id \in StopIds
    BY <1>3 DEF ActivateStop, LiveOf, StopIds
  <2>. QED  BY <1>2, <2>1, QuietBook DEF LiveMoves, LiveIds
<1>4. CASE RefuseStop(i)
  <2>1. phase' # "match"
    BY <1>4 DEF RefuseStop, TakeTriggered
  <2>. QED  BY <1>2, <2>1, QuietBook, NoneLive
<1>. QED  BY <1>1, <1>3, <1>4

LEMMA StepMoves ==
    ASSUME Inv, VolumeInv, Next
    PROVE  BookMoves /\ LiveMoves
<1>1. KnownIds \subseteq Nat
  BY DEF KnownIds, Inv, CallTypeOK
<1>2. StopsSettled \/ Deliver => UNCHANGED bookVars /\ phase' # "match"
  BY DEF StopsSettled, Deliver
<1>. QED  BY <1>1, <1>2, EntriesMove, CancelsMove, ModifiesMove, MatchesMove,
             FinishesMove, StopsMove, QuietBook, NoneLive DEF Next, Run

\* An iceberg that was consumed may go to the tail, and a trade tells of it.
Requeued(id) ==
    /\ phase = "match"
    /\ \E price \in DOMAIN levels[MakerSide] :
          TradeWithHead(price) /\ id = HeadOf(price)

LEMMA StepPlaces ==
    ASSUME Inv, Next, NEW side \in Sides,
           NEW price \in DOMAIN levels[side] \cap DOMAIN levels'[side],
           NEW x, NEW y \in ToSet(FifoOf(side, price)),
           Before(levels'[side][price].fifo, x, y), ~Requeued(y)
    PROVE  Before(FifoOf(side, price), x, y)
<1>1. SUFFICES ASSUME ~Before(FifoOf(side, price), x, y)
               PROVE  FALSE
  OBVIOUS
<1>2. PICK i \in DOMAIN levels'[side][price].fifo,
           j \in DOMAIN levels'[side][price].fifo :
         /\ i < j
         /\ levels'[side][price].fifo[i] = x
         /\ levels'[side][price].fifo[j] = y
  BY DEF Before
<1>3. PeakConsumed(y)
  <2>1. KeepsPlaceStep
    BY NextKeeps DEF StepKeeps
  <2>. QED  BY <1>1, <1>2, <2>1 DEF KeepsPlaceStep
<1>4. /\ phase = "match" /\ phase' = "match"
      /\ live.qty - live'.qty = resting[y].qty
      /\ resting[y].qty \in Nat \ {0}
  <2>1. y \in DOMAIN resting
    BY LevelFacts DEF Inv
  <2>. QED  BY <1>3, <2>1, OrderFacts DEF PeakConsumed, Inv
<1>5. PICK p \in DOMAIN levels[MakerSide] : TradeWithHead(p) \/ CancelMaker(p)
  BY <1>4 DEF Next, SubmitNew, RejectCommand, ParkStop, RefuseOrder,
              AcceptOrder, SubmitCancel, CancelInBook, CancelStop,
              CancelUnknown, SubmitModify, ModifyUnknown, ModifyInPlace,
              ModifyReplace, Admit, Submit, Run, MatchStep, CancelTaker,
              CancelBoth, FinishStep, FinishFilled, RestRemainder,
              CancelRemainder, FinishWith, StopStep, ActivateStop, RefuseStop,
              TakeTriggered, StopsSettled, Deliver
<1>6. CASE CancelMaker(p)
  <2>1. live'.qty = live.qty /\ live.qty \in Nat
    BY <1>4, <1>6, LiveFacts DEF CancelMaker, LiveOrder
  <2>. QED  BY <1>4, <2>1
<1>7. CASE TradeWithHead(p)
  <2>1. PICK traded \in Nat : FillHead(MakerSide, p, traded, live.owner)
    BY <1>4, <1>7, TradeFacts
  <2>2. \/ QueuesKept
        \/ QueuesKeptBut(Head(FifoOf(MakerSide, p)))
    BY <1>4, <2>1, LiveFacts, FillHeadKeepsBook DEF Inv
  <2>3. y # Head(FifoOf(MakerSide, p))
    BY <1>4, <1>7, MakerFacts DEF Requeued
  <2>. QED  BY <1>1, <1>2, <2>2, <2>3
            DEF QueuesKept, QueuesKeptBut, SamePlaces, SamePlacesBut
<1>. QED  BY <1>5, <1>6, <1>7

----------------------------------------------------------------------------
(* What the events of a call lead to grows with them                        *)

LEMMA LeadsOnce ==
    ASSUME NEW events \in Seq(Event), NEW id, NEW start, NEW sides,
           NEW s, Leads(events, id, start, sides, s),
           NEW u, Leads(events, id, start, sides, u)
    PROVE  s = u
<1>1. PICK g : IsTrail(g, events, id, start, sides) /\ s = g[Len(events)]
  BY DEF Leads
<1>2. PICK h : IsTrail(h, events, id, start, sides) /\ u = h[Len(events)]
  BY DEF Leads
<1>3. PICK n \in Nat : n = Len(events)
  OBVIOUS
<1> DEFINE Agree == {k \in Nat : k <= n => g[k] = h[k]}
<1>4. 0 \in Agree
  BY <1>1, <1>2 DEF IsTrail
<1>5. ASSUME NEW k \in Agree
      PROVE  k + 1 \in Agree
  <2>1. CASE k + 1 <= n
    <3>1. k + 1 \in 1..n /\ (k + 1) - 1 = k /\ k <= n
      BY <2>1
    <3>2. /\ g[k + 1] = Noted(g[k], events[k + 1], id, sides)
          /\ h[k + 1] = Noted(h[k], events[k + 1], id, sides)
      BY <1>1, <1>2, <1>3, <3>1 DEF IsTrail
    <3>. QED  BY <3>1, <3>2
  <2>. QED  BY <2>1
<1>. HIDE DEF Agree
<1>6. Agree = Nat
  BY <1>4, <1>5, NatInductive DEF Agree
<1>. QED  BY <1>1, <1>2, <1>3, <1>6 DEF Agree

\* Some events, and more of them behind.
Continues(all, events) ==
    /\ Len(events) <= Len(all)
    /\ \A i \in 1..Len(events) : all[i] = events[i]

LEMMA NotedGrows ==
    ASSUME NEW s, NEW event, NEW id, NEW sides
    PROVE  s.touched \subseteq Noted(s, event, id, sides).touched
BY DEF Noted

LEMMA PrefixLeads ==
    ASSUME NEW events \in Seq(Event), NEW all \in Seq(Event),
           Continues(all, events), NEW id, NEW start, NEW sides,
           NEW s, Leads(all, id, start, sides, s)
    PROVE  \E u : /\ Leads(events, id, start, sides, u)
                  /\ u.touched \subseteq s.touched
<1>1. PICK g : IsTrail(g, all, id, start, sides) /\ s = g[Len(all)]
  BY DEF Leads
<1>2. PICK m \in Nat, n \in Nat : m = Len(events) /\ n = Len(all)
  OBVIOUS
<1>3. m <= n /\ \A i \in 1..m : all[i] = events[i]
  BY <1>2 DEF Continues
<1>4. Leads(events, id, start, sides, g[m])
  <2>1. ASSUME NEW i \in 1..m
        PROVE  g[i] = Noted(g[i - 1], events[i], id, sides)
    <3>1. i \in 1..n
      BY <1>3
    <3>. QED  BY <1>1, <1>2, <1>3, <3>1 DEF IsTrail
  <2>2. IsTrail(g, events, id, start, sides)
    BY <1>1, <1>2, <2>1 DEF IsTrail
  <2>. QED  BY <1>2, <2>2 DEF Leads
<1> DEFINE Grown == {k \in Nat : m <= k /\ k <= n
                                   => g[m].touched \subseteq g[k].touched}
<1>5. 0 \in Grown
  BY <1>2
<1>6. ASSUME NEW k \in Grown
      PROVE  k + 1 \in Grown
  <2>1. CASE m <= k /\ k + 1 <= n
    <3>1. k + 1 \in 1..n /\ (k + 1) - 1 = k /\ k <= n
      BY <2>1
    <3>2. g[k + 1] = Noted(g[k], all[k + 1], id, sides)
      BY <1>1, <1>2, <3>1 DEF IsTrail
    <3>3. g[k].touched \subseteq g[k + 1].touched
      BY <3>2, NotedGrows
    <3>. QED  BY <2>1, <3>1, <3>3
  <2>2. CASE m = k + 1
    BY <2>2
  <2>. QED  BY <1>2, <2>1, <2>2
<1>. HIDE DEF Grown
<1>7. Grown = Nat
  BY <1>5, <1>6, NatInductive DEF Grown
<1>8. g[m].touched \subseteq s.touched
  BY <1>1, <1>2, <1>3, <1>7 DEF Grown
<1>. QED  BY <1>4, <1>8

LEMMA ConcatContinues ==
    ASSUME NEW S, NEW a \in Seq(S), NEW b \in Seq(S)
    PROVE  Continues(a \o b, a)
BY DEF Continues

LEMMA AppendContinues ==
    ASSUME NEW S, NEW a \in Seq(S), NEW e
    PROVE  Continues(Append(a, e), a)
<1>1. a \in Seq(S \cup {e}) /\ e \in S \cup {e}
  OBVIOUS
<1>. QED  BY <1>1 DEF Continues

LEMMA FinishContinues ==
    ASSUME Inv, phase = "match", NEW ids \in Seq(Nat), NEW event,
           FinishWith(ids, event)
    PROVE  Continues(out', out)
<1>1. SelfCancels(ids) \in Seq(Event) /\ out \in Seq(Event)
  BY SelfCancelsTyped, LiveFacts
<1>2. PICK a \in Seq(Event) : out' = (out \o a) \o <<event>>
  BY <1>1 DEF FinishWith
<1>3. /\ Len(out \o a) >= Len(out)
      /\ out \o a \in Seq(Event)
      /\ \A i \in 1..Len(out) : (out \o a)[i] = out[i]
  BY <1>1, NewsFacts
<1>4. out' = Append(out \o a, event)
  BY <1>2, <1>3
<1>5. Continues(Append(out \o a, event), out \o a)
  BY <1>3, AppendContinues
<1>. QED  BY <1>1, <1>3, <1>4, <1>5 DEF Continues

LEMMA OutContinues ==
    ASSUME Inv, CallFacts, phase # "done", Next
    PROVE  Continues(out', out)
<1>1. out \in Seq(Event)
  BY DEF Inv, CallTypeOK
<1>2. CASE phase = "idle"
  BY <1>2 DEF CallFacts, Continues
<1>3. CASE out' = out
  BY <1>1, <1>3 DEF Continues
<1>4. CASE phase = "match" /\ MatchStep
  <2>1. PICK price \in DOMAIN levels[MakerSide] :
           \/ TradeWithHead(price)
           \/ CancelMaker(price)
           \/ CancelTaker(price)
           \/ CancelBoth(price)
    BY <1>4 DEF MatchStep
  <2>2. CASE TradeWithHead(price)
    <3>1. PICK e : out' = Append(out, e)
      BY <2>2 DEF TradeWithHead
    <3>. QED  BY <1>1, <3>1, AppendContinues
  <2>3. CASE CancelMaker(price)
    BY <1>3, <2>3 DEF CancelMaker
  <2>4. CASE CancelTaker(price)
    BY <1>4, <2>4, LiveFacts, FinishContinues DEF CancelTaker
  <2>5. CASE CancelBoth(price)
    <3>1. Append(live.self_canceled, HeadOf(price)) \in Seq(Nat)
      BY <1>4, LiveFacts, MakerFacts
    <3>. QED  BY <1>4, <2>5, <3>1, FinishContinues DEF CancelBoth
  <2>. QED  BY <2>1, <2>2, <2>3, <2>4, <2>5
<1>5. CASE phase = "match" /\ FinishStep
  BY <1>5, LiveFacts, FinishContinues
     DEF FinishStep, FinishFilled, RestRemainder, CancelRemainder
<1>6. CASE StopStep
  <2>1. PICK i \in DOMAIN stops : ActivateStop(i) \/ RefuseStop(i)
    BY <1>6 DEF StopStep
  <2>2. CASE ActivateStop(i)
    <3>1. PICK e : out' = Append(out, e)
      BY <2>2 DEF ActivateStop
    <3>. QED  BY <1>1, <3>1, AppendContinues
  <2>3. CASE RefuseStop(i)
    <3>1. PICK d, e : out' = out \o <<d, e>>
      BY <2>3 DEF RefuseStop
    <3>2. PICK S : S = Event \cup {d, e}
      OBVIOUS
    <3>3. out \in Seq(S) /\ <<d, e>> \in Seq(S)
      BY <1>1, <3>2
    <3>. QED  BY <3>1, <3>3, ConcatContinues
  <2>. QED  BY <2>1, <2>2, <2>3
<1>7. CASE StopsSettled
  BY <1>3, <1>7 DEF StopsSettled
<1>8. ~Deliver
  BY DEF Deliver
<1>9. \/ \E order \in NewOrders : SubmitNew(order)
      \/ \E id \in KnownIds : SubmitCancel(id)
      \/ \E id \in KnownIds, a \in Amendments : SubmitModify(id, a)
      => phase = "idle"
  BY DEF SubmitNew, RejectCommand, ParkStop, RefuseOrder, AcceptOrder,
         SubmitCancel, CancelInBook, CancelStop, CancelUnknown, SubmitModify,
         ModifyUnknown, ModifyInPlace, ModifyReplace, Admit, Submit
<1>. QED  BY <1>2, <1>4, <1>5, <1>6, <1>7, <1>8, <1>9 DEF Next, Run

LEMMA NewsContinue ==
    ASSUME Inv, Inv', CallFacts, backlog' = backlog, phase # "done", Next
    PROVE  News \in Seq(Event) /\ News' \in Seq(Event)
           /\ Continues(News', News)
<1>1. /\ out \in Seq(Event) /\ out' \in Seq(Event)
      /\ backlog \in Seq(Event)
  BY DEF Inv, CallTypeOK, CallFacts
<1>2. Continues(out', out)
  BY OutContinues
<1>3. PICK a \in Seq(Event), b \in Seq(Event), c \in Seq(Event) :
         a = backlog /\ b = out /\ c = out'
  BY <1>1
<1>4. News = a \o b /\ News' = a \o c /\ Continues(c, b)
  BY <1>2, <1>3 DEF News
<1>5. Continues(a \o c, a \o b)
  <2>1. PICK n \in Nat, m \in Nat, k \in Nat :
           n = Len(a) /\ m = Len(b) /\ k = Len(c)
    OBVIOUS
  <2>2. m <= k /\ \A j \in 1..m : c[j] = b[j]
    BY <1>4, <2>1 DEF Continues
  <2>3. /\ Len(a \o b) = n + m
        /\ Len(a \o c) = n + k
    BY <2>1
  <2>4. ASSUME NEW i \in 1..(n + m)
        PROVE  (a \o c)[i] = (a \o b)[i]
    <3>1. CASE i <= n
      BY <2>1, <2>2, <3>1
    <3>2. CASE ~(i <= n)
      <4>1. i - n \in 1..m /\ i - n \in 1..k
        BY <2>2, <3>2
      <4>2. (a \o c)[i] = c[i - n] /\ (a \o b)[i] = b[i - n]
        BY <2>1, <2>2, <3>2
      <4>. QED  BY <2>2, <4>1, <4>2
    <3>. QED  BY <3>1, <3>2
  <2>. QED  BY <2>2, <2>3, <2>4 DEF Continues
<1>. QED  BY <1>4, <1>5

\* Every order of the book is at a level of the book.
OrdersPlaced ==
    \A id \in DOMAIN resting :
        /\ resting[id].side \in Sides
        /\ resting[id].price \in DOMAIN levels[resting[id].side]

LEMMA AllPlaced == Inv => OrdersPlaced
BY OrderFacts DEF Inv, OrdersPlaced

LEMMA NextPlaced == Inv' => OrdersPlaced'
BY AllPlaced, PTL

LEMMA NextOrderFacts ==
    ASSUME Inv', NEW id \in DOMAIN resting'
    PROVE  /\ resting'[id].side \in Sides
           /\ resting'[id].price \in DOMAIN levels'[resting'[id].side]
<1>1. OrdersPlaced'
  BY NextPlaced
<1>. QED  BY <1>1 DEF OrdersPlaced

----------------------------------------------------------------------------
(* Orders that a call leaves where they are                                 *)
(*                                                                          *)
(* As in FeedProofs, r are the orders of the book when the feed was last    *)
(* brought up to date.                                                      *)

IdsIn(queue) == [i \in DOMAIN queue |-> Id(queue[i])]

\* The order is at its level of then, and no event has touched that for it.
Stayed(r, id) ==
    /\ id \in DOMAIN r
    /\ id \in DOMAIN resting
    /\ Where(r, id) = LevelOf(id)
    /\ \E s : /\ Leads(News, id, Was(r, id), {resting[id].side}, s)
              /\ LevelOf(id) \notin s.touched

\* Those that stayed are in the order of then.
PlacesKnown(r) ==
    \A x, y :
        /\ Stayed(r, x)
        /\ Stayed(r, y)
        /\ LevelOf(x) = LevelOf(y)
        /\ Before(FifoOf(resting[x].side, resting[x].price), x, y)
        => Before(IdsIn(l3[LevelOf(x)]), x, y)

LEMMA WhoStays ==
    ASSUME Inv, Inv', VolumeInv, CallFacts, NEW r, FollowsAll(r),
           backlog' = backlog, phase # "done", Next,
           NEW id, Stayed(r, id)'
    PROVE  /\ Stayed(r, id)
           /\ LevelOf(id)' = LevelOf(id)
           /\ ~Requeued(id)
<1>1. PICK side : side = resting'[id].side
  OBVIOUS
<1>2. PICK level : level = Where(r, id)
  OBVIOUS
<1>3. /\ id \in DOMAIN r
      /\ id \in DOMAIN resting'
      /\ LevelOf(id)' = level
  BY <1>2 DEF Stayed, Where
<1>4. PICK u : /\ Leads(News', id, Was(r, id), {side}, u)
               /\ level \notin u.touched
  BY <1>1, <1>2 DEF Stayed, Where, Was
<1>5. side \in Sides
  BY <1>1, <1>3, NextOrderFacts
<1>6. {side} \in Ends /\ {side} # {}
  BY <1>5 DEF Ends, Sides
<1>7. PICK s : /\ Leads(News, id, Was(r, id), {side}, s)
               /\ Told(r, id, {side}, s)
  BY <1>6 DEF FollowsAll, Followed
<1>8. News \in Seq(Event) /\ News' \in Seq(Event) /\ Continues(News', News)
  BY NewsContinue
<1>9. level \notin s.touched
  <2>1. PICK v : /\ Leads(News, id, Was(r, id), {side}, v)
                 /\ v.touched \subseteq u.touched
    BY <1>4, <1>8, PrefixLeads
  <2>2. v = s
    BY <1>7, <1>8, <2>1, LeadsOnce
  <2>. QED  BY <1>4, <2>1, <2>2
<1>10. Was(r, id) = {level}
  BY <1>2, <1>3 DEF Was
<1>11. id \in DOMAIN resting /\ LevelOf(id)' = LevelOf(id)
  <2>1. CASE Enters(id)
    <3>1. id \notin DOMAIN resting /\ id \in LiveIds /\ live.side = side
      BY <1>1, <2>1 DEF Enters, Inv, OneHome
    <3>2. ToldLive(r, id, {side}, s)
      BY <1>7, <3>1 DEF Told
    <3>. QED  BY <1>9, <1>10, <3>1, <3>2 DEF ToldLive
  <2>. QED  BY <1>3, <2>1, StepMoves DEF BookMoves
<1>12. resting[id].side = side
  BY <1>1, <1>11 DEF LevelOf
<1>13. Stayed(r, id)
  BY <1>2, <1>3, <1>7, <1>9, <1>11, <1>12 DEF Stayed
<1>14. ~Requeued(id)
  <2>. SUFFICES ASSUME Requeued(id)
                PROVE  FALSE
    OBVIOUS
  <2>1. PICK price \in DOMAIN levels[MakerSide] :
           /\ phase = "match"
           /\ TradeWithHead(price)
           /\ id = HeadOf(price)
    BY DEF Requeued
  <2>2. level = <<MakerSide, price>>
    <3>1. id = Head(FifoOf(MakerSide, price))
      BY <2>1, MakerFacts
    <3>2. MakerSide \in Sides
      BY <2>1, LiveFacts
    <3>. QED  BY <1>3, <1>11, <3>1, <3>2, HeadFacts DEF LevelOf, Inv
  <2>3. PICK event : /\ event.type = "Trade"
                     /\ event.maker_order_id = id
                     /\ event.price = price
                     /\ Opposite(event.taker_side) = MakerSide
                     /\ out' = Append(out, event)
    BY <2>1 DEF TradeWithHead, Trade, MakerSide
  <2>4. /\ Len(News') = Len(News) + 1
        /\ News'[Len(News) + 1] = event
    <3>1. out \in Seq(Event) /\ out' \in Seq(Event) /\ backlog \in Seq(Event)
      BY DEF Inv, CallTypeOK, CallFacts
    <3>2. event \in Event
      BY <2>3, <3>1
    <3>3. News' = Append(News, event)
      BY <2>3, <3>1, <3>2 DEF News
    <3>. QED  BY <1>8, <3>2, <3>3
  <2>5. PICK g : /\ IsTrail(g, News', id, Was(r, id), {side})
                 /\ u = g[Len(News')]
    BY <1>4 DEF Leads
  <2>6. PICK n \in Nat : n = Len(News)
    BY <1>8
  <2>7. u = Noted(g[n], event, id, {side})
    <3>1. /\ n + 1 \in 1..Len(News')
          /\ (n + 1) - 1 = n
          /\ Len(News') = n + 1
      BY <2>4, <2>6
    <3>2. g[n + 1] = Noted(g[(n + 1) - 1], News'[n + 1], id, {side})
      BY <2>5, <3>1 DEF IsTrail
    <3>. QED  BY <2>4, <2>5, <2>6, <3>1, <3>2
  <2>. QED  BY <1>4, <2>2, <2>3, <2>7 DEF Noted
<1>. QED  BY <1>11, <1>13, <1>14

LEMMA PlacesStay ==
    ASSUME Inv, Inv', VolumeInv, CallFacts, NEW r, FollowsAll(r),
           PlacesKnown(r), UNCHANGED <<backlog, l3>>, phase # "done", Next
    PROVE  PlacesKnown(r)'
<1>. SUFFICES ASSUME NEW x, NEW y,
                     Stayed(r, x)', Stayed(r, y)',
                     LevelOf(x)' = LevelOf(y)',
                     Before(FifoOf(resting[x].side, resting[x].price), x, y)'
              PROVE  Before(IdsIn(l3[LevelOf(x)]), x, y)'
  BY DEF PlacesKnown
<1>1. /\ Stayed(r, x) /\ LevelOf(x)' = LevelOf(x)
      /\ Stayed(r, y) /\ LevelOf(y)' = LevelOf(y) /\ ~Requeued(y)
  BY WhoStays
<1>2. PICK side, price : side = resting[x].side /\ price = resting[x].price
  OBVIOUS
<1>3. /\ x \in DOMAIN resting /\ x \in DOMAIN resting'
      /\ y \in DOMAIN resting
      /\ resting'[x].side = side /\ resting'[x].price = price
      /\ resting[y].side = side /\ resting[y].price = price
  BY <1>1, <1>2 DEF LevelOf, Stayed
<1>4. /\ side \in Sides
      /\ price \in DOMAIN levels[side]
      /\ price \in DOMAIN levels'[side]
      /\ y \in ToSet(FifoOf(side, price))
  BY <1>2, <1>3, OrderFacts, NextOrderFacts DEF Inv
<1>5. Before(levels'[side][price].fifo, x, y)
  BY <1>3 DEF FifoOf
<1>6. Before(FifoOf(side, price), x, y)
  BY <1>1, <1>4, <1>5, StepPlaces
<1>7. Before(IdsIn(l3[LevelOf(x)]), x, y)
  BY <1>1, <1>2, <1>6 DEF PlacesKnown
<1>. QED  BY <1>1, <1>7

----------------------------------------------------------------------------
(* Queues: what a part of them has, and in which order                      *)

LEMMA BeforeFacts ==
    ASSUME NEW s, NEW n, DOMAIN s = 1..n
    PROVE  \A x, y : Before(s, x, y) <=>
                 \E i \in 1..n : \E j \in 1..n :
                    i < j /\ s[i] = x /\ s[j] = y
BY DEF Before

LEMMA SeqFacts ==
    ASSUME NEW S, NEW s \in Seq(S), NEW n, n = Len(s)
    PROVE  /\ n \in Nat
           /\ DOMAIN s = 1..n
           /\ \A i \in 1..n : s[i] \in S
           /\ \A x : x \in ToSet(s) <=> \E i \in 1..n : s[i] = x
           /\ \A x, y : Before(s, x, y) <=>
                 \E i \in 1..n : \E j \in 1..n :
                    i < j /\ s[i] = x /\ s[j] = y
<1>1. n \in Nat /\ DOMAIN s = 1..n
  OBVIOUS
<1>2. \A x : x \in ToSet(s) <=> \E i \in 1..n : s[i] = x
  BY <1>1 DEF ToSet
<1>3. \A x, y : Before(s, x, y) <=>
         \E i \in 1..n : \E j \in 1..n : i < j /\ s[i] = x /\ s[j] = y
  BY <1>1, BeforeFacts
<1>. QED  BY <1>1, <1>2, <1>3

LEMMA ConcatFacts ==
    ASSUME NEW S, NEW a \in Seq(S), NEW b \in Seq(S)
    PROVE  /\ a \o b \in Seq(S)
           /\ ToSet(a \o b) = ToSet(a) \cup ToSet(b)
           /\ \A x, y : Before(a \o b, x, y) =>
                 \/ Before(a, x, y)
                 \/ Before(b, x, y)
                 \/ x \in ToSet(a) /\ y \in ToSet(b)
<1>1. PICK m \in Nat, n \in Nat : m = Len(a) /\ n = Len(b)
  OBVIOUS
<1>2. PICK c : c = a \o b
  OBVIOUS
<1>3. /\ c \in Seq(S)
      /\ Len(c) = m + n
      /\ DOMAIN c = 1..(m + n)
      /\ DOMAIN a = 1..m
      /\ DOMAIN b = 1..n
      /\ \A i \in 1..m : c[i] = a[i]
      /\ \A i \in 1..(m + n) : ~(i <= m) => c[i] = b[i - m]
  BY <1>1, <1>2
<1>4. \A i \in 1..n : i + m \in 1..(m + n) /\ c[i + m] = b[i]
  <2>1. ASSUME NEW i \in 1..n
        PROVE  i + m \in 1..(m + n) /\ ~(i + m <= m) /\ (i + m) - m = i
    OBVIOUS
  <2>. QED  BY <2>1, <1>3
<1>5. ASSUME NEW i \in 1..(m + n)
      PROVE  \/ i \in 1..m /\ c[i] = a[i]
             \/ i > m /\ i - m \in 1..n /\ c[i] = b[i - m]
  <2>1. CASE i <= m
    BY <1>3, <2>1
  <2>2. CASE ~(i <= m)
    BY <1>3, <2>2
  <2>. QED  BY <2>1, <2>2
<1>6. /\ \A x : x \in ToSet(a) <=> \E i \in 1..m : a[i] = x
      /\ \A x : x \in ToSet(b) <=> \E i \in 1..n : b[i] = x
      /\ \A x : x \in ToSet(c) <=> \E i \in 1..(m + n) : c[i] = x
  BY <1>1, <1>3, SeqFacts
<1>8. ToSet(c) = ToSet(a) \cup ToSet(b)
  <2>1. ToSet(c) \subseteq ToSet(a) \cup ToSet(b)
    BY <1>5, <1>6
  <2>2. ToSet(a) \subseteq ToSet(c)
    <3>1. \A i \in 1..m : i \in 1..(m + n)
      OBVIOUS
    <3>. QED  BY <1>3, <1>6, <3>1
  <2>3. ToSet(b) \subseteq ToSet(c)
    BY <1>4, <1>6
  <2>. QED  BY <2>1, <2>2, <2>3
<1>7. ASSUME NEW x, NEW y, Before(c, x, y)
      PROVE  \/ Before(a, x, y)
             \/ Before(b, x, y)
             \/ x \in ToSet(a) /\ y \in ToSet(b)
  <2>1. PICK i \in 1..(m + n), j \in 1..(m + n) :
           i < j /\ c[i] = x /\ c[j] = y
    <3>1. \A u, v : Before(c, u, v) <=>
             \E i \in 1..(m + n) : \E j \in 1..(m + n) :
                i < j /\ c[i] = u /\ c[j] = v
      <4>1. DOMAIN c = 1..(m + n)
        BY <1>3
      <4>. QED  BY <4>1, BeforeFacts
    <3>. QED  BY <1>7, <3>1
  <2>2. CASE i \in 1..m /\ j \in 1..m
    BY <1>3, <2>1, <2>2 DEF Before
  <2>3. CASE i \in 1..m /\ j \notin 1..m
    BY <1>5, <1>6, <2>1, <2>3
  <2>4. CASE i \notin 1..m
    <3>1. i - m \in 1..n /\ j - m \in 1..n /\ i - m < j - m
      BY <2>1, <2>4
    <3>2. b[i - m] = x /\ b[j - m] = y
      BY <1>3, <2>1, <2>4
    <3>3. \E k \in 1..n : \E l \in 1..n : k < l /\ b[k] = x /\ b[l] = y
      BY <3>1, <3>2
    <3>. QED  BY <1>3, <3>3 DEF Before
  <2>. QED  BY <2>2, <2>3, <2>4
<1>. QED  BY <1>2, <1>3, <1>7, <1>8

\* Two queues of the same, in the same order.
LEMMA SameOrder ==
    ASSUME NEW S, NEW p \in Seq(S), NEW q \in Seq(S), ToSet(p) = ToSet(q),
           \A x, y : Before(p, x, y) => Before(q, x, y),
           \A x : ~Before(q, x, x)
    PROVE  p = q
<1>1. PICK m \in Nat, n \in Nat : m = Len(p) /\ n = Len(q)
  OBVIOUS
<1>2. DOMAIN p = 1..m /\ DOMAIN q = 1..n
  BY <1>1
<1>3. /\ \A i, j \in 1..m : p[i] = p[j] => i = j
      /\ \A i, j \in 1..n : q[i] = q[j] => i = j
  <2>1. ASSUME NEW i \in 1..m, NEW j \in 1..m, p[i] = p[j], i < j
        PROVE  FALSE
    <3>1. Before(p, p[i], p[i])
      BY <1>1, <2>1, SeqFacts
    <3>. QED  BY <3>1
  <2>2. ASSUME NEW i \in 1..n, NEW j \in 1..n, q[i] = q[j], i < j
        PROVE  FALSE
    <3>1. Before(q, q[i], q[i])
      BY <1>1, <2>2, SeqFacts
    <3>. QED  BY <3>1
  <2>3. ASSUME NEW i \in 1..m, NEW j \in 1..m, p[i] = p[j]
        PROVE  i = j
    BY <2>1, <2>3
  <2>4. ASSUME NEW i \in 1..n, NEW j \in 1..n, q[i] = q[j]
        PROVE  i = j
    BY <2>2, <2>4
  <2>. QED  BY <2>3, <2>4
<1>4. /\ \A i \in 1..m : \E l \in 1..n : q[l] = p[i]
      /\ \A i \in 1..n : \E l \in 1..m : p[l] = q[i]
  <2>1. /\ ToSet(p) = {p[i] : i \in 1..m}
        /\ ToSet(q) = {q[i] : i \in 1..n}
    BY <1>2 DEF ToSet
  <2>2. {p[i] : i \in 1..m} = {q[i] : i \in 1..n}
    BY <2>1
  <2>. QED  BY <2>2
<1> DEFINE Agree == {k \in Nat : \A i \in 1..k :
                        i <= m => i <= n /\ p[i] = q[i]}
<1>5. 0 \in Agree
  OBVIOUS
<1>6. ASSUME NEW k \in Nat, k \in Agree
      PROVE  k + 1 \in Agree
  <2>1. CASE k + 1 <= m
    <3>1. PICK i \in Nat : i = k + 1 /\ i \in 1..m
      BY <2>1
    <3>2. \A h \in 1..k : h \in 1..m /\ h \in 1..n /\ p[h] = q[h]
      BY <1>6, <2>1
    <3>3. PICK l \in 1..n : q[l] = p[i]
      BY <1>4, <3>1
    <3>4. l >= i
      <4>1. CASE l \in 1..k
        <5>1. p[l] = p[i] /\ l \in 1..m
          BY <3>2, <3>3, <4>1
        <5>. QED  BY <1>3, <3>1, <4>1, <5>1
      <4>. QED  BY <3>1, <4>1
    <3>5. i \in 1..n
      BY <3>1, <3>4
    <3>6. l = i
      <4>. SUFFICES ASSUME l > i
                    PROVE  FALSE
        BY <3>4
      <4>1. PICK h \in 1..m : p[h] = q[i]
        BY <1>4, <3>5
      <4>2. h \notin 1..k
        <5>1. CASE h \in 1..k
          <6>1. q[h] = q[i] /\ h \in 1..n
            BY <3>2, <4>1, <5>1
          <6>. QED  BY <1>3, <3>1, <3>5, <5>1, <6>1
        <5>. QED  BY <5>1
      <4>3. h # i
        BY <1>3, <3>3, <3>5, <4>1
      <4>4. i < h
        BY <3>1, <4>2, <4>3
      <4>5. Before(p, p[i], q[i])
        BY <1>1, <3>1, <4>1, <4>4, SeqFacts
      <4>6. PICK a \in 1..n, b \in 1..n : a < b /\ q[a] = p[i] /\ q[b] = q[i]
        <5>1. Before(q, p[i], q[i])
          BY <4>5
        <5>. QED  BY <1>1, <5>1, SeqFacts
      <4>7. a = l /\ b = i
        BY <1>3, <3>3, <3>5, <4>6
      <4>. QED  BY <4>6, <4>7
    <3>7. ASSUME NEW h \in 1..(k + 1), h <= m
          PROVE  h <= n /\ p[h] = q[h]
      <4>1. h \in 1..k \/ h = i
        BY <3>1
      <4>. QED  BY <3>2, <3>3, <3>5, <3>6, <4>1
    <3>. QED  BY <3>7
  <2>2. CASE ~(k + 1 <= m)
    BY <1>6, <2>2
  <2>. QED  BY <2>1, <2>2
<1>7. m \in Agree
  <2>. HIDE DEF Agree
  <2>. QED  BY <1>5, <1>6, NatInductive
<1>8. \A i \in 1..m : i <= n /\ p[i] = q[i]
  BY <1>7
<1>. HIDE DEF Agree
<1>9. m <= n
  <2>1. m # 0 => m \in 1..m
    OBVIOUS
  <2>. QED  BY <1>8, <2>1
<1>10. n <= m
  <2>. SUFFICES ASSUME m < n
                PROVE  FALSE
    OBVIOUS
  <2>1. PICK h \in 1..m : p[h] = q[m + 1]
    BY <1>4
  <2>2. q[h] = q[m + 1] /\ h \in 1..n /\ m + 1 \in 1..n
    BY <1>8, <2>1
  <2>. QED  BY <1>3, <2>2
<1>. QED  BY <1>1, <1>2, <1>8, <1>9, <1>10

\* What Only builds, entry after entry.
NonePicked == <<>>
PickNext(queue, set, i, picked) ==
    IF queue[i] \in set THEN Append(picked, queue[i]) ELSE picked

IsPicking(queue, set, n, g) ==
    g = [i \in 0..n |-> IF i = 0 THEN NonePicked
                        ELSE PickNext(queue, set, i, g[i - 1])]

LEMMA PickingSteps ==
    \A queue, set, g : \A n \in Nat :
        IsPicking(queue, set, n, g) =>
            /\ g[0] = NonePicked
            /\ \A i \in 1..n : g[i] = PickNext(queue, set, i, g[i - 1])
BY DEF IsPicking

LEMMA PickingExists ==
    ASSUME NEW queue, NEW set, NEW n \in Nat
    PROVE  \E g : IsPicking(queue, set, n, g)
<1> DEFINE Lengths == {k \in Nat : \E g : IsPicking(queue, set, k, g)}
<1>1. 0 \in Lengths
  <2> DEFINE g == [i \in 0..0 |-> NonePicked]
  <2>1. g = [i \in 0..0 |-> IF i = 0 THEN NonePicked
                            ELSE PickNext(queue, set, i, g[i - 1])]
    OBVIOUS
  <2>. HIDE DEF g
  <2>. QED  BY <2>1 DEF IsPicking
<1>2. ASSUME NEW k \in Nat, k \in Lengths
      PROVE  k + 1 \in Lengths
  <2>1. PICK g : IsPicking(queue, set, k, g)
    BY <1>2
  <2>2. /\ g[0] = NonePicked
        /\ \A i \in 1..k : g[i] = PickNext(queue, set, i, g[i - 1])
    BY <2>1, PickingSteps
  <2> DEFINE last == PickNext(queue, set, k + 1, g[k])
             h == [i \in 0..(k + 1) |-> IF i = k + 1 THEN last ELSE g[i]]
  <2>3. \A i \in 0..k : h[i] = g[i]
    OBVIOUS
  <2>4. h[k + 1] = PickNext(queue, set, k + 1, h[k])
    <3>1. k \in 0..k /\ h[k + 1] = last
      OBVIOUS
    <3>. QED  BY <2>3, <3>1
  <2>5. h = [i \in 0..(k + 1) |-> h[i]]
    OBVIOUS
  <2>. HIDE DEF h
  <2>6. ASSUME NEW i \in 0..(k + 1)
        PROVE  h[i] = IF i = 0 THEN NonePicked
                      ELSE PickNext(queue, set, i, h[i - 1])
    <3>1. CASE i = 0
      BY <2>2, <2>3, <3>1
    <3>2. CASE i = k + 1
      <4>1. i # 0 /\ i - 1 = k
        BY <3>2
      <4>. QED  BY <2>4, <3>2, <4>1
    <3>3. CASE i \in 1..k
      <4>1. i \in 0..k /\ i - 1 \in 0..k /\ i # 0
        BY <3>3
      <4>. QED  BY <2>2, <2>3, <3>3, <4>1
    <3>. QED  BY <3>1, <3>2, <3>3
  <2>7. IsPicking(queue, set, k + 1, h)
    BY <2>5, <2>6 DEF IsPicking
  <2>. QED  BY <2>7
<1>. HIDE DEF Lengths
<1>3. n \in Lengths
  BY <1>1, <1>2, NatInductive
<1>. QED  BY <1>3 DEF Lengths

LEMMA OnlyIsPicking ==
    ASSUME NEW queue, NEW set, Len(queue) \in Nat
    PROVE  \E g : /\ IsPicking(queue, set, Len(queue), g)
                  /\ Only(queue, set) = g[Len(queue)]
<1> DEFINE g == CHOOSE x : IsPicking(queue, set, Len(queue), x)
<1>1. IsPicking(queue, set, Len(queue), g)
  BY PickingExists
<1>2. Only(queue, set) = g[Len(queue)]
  BY DEF Only, IsPicking, PickNext, NonePicked
<1>. QED  BY <1>1, <1>2

LEMMA SnocFacts ==
    ASSUME NEW S, NEW a \in Seq(S), NEW e \in S
    PROVE  /\ Append(a, e) \in Seq(S)
           /\ ToSet(Append(a, e)) = ToSet(a) \cup {e}
           /\ \A x, y : Before(Append(a, e), x, y) =>
                 Before(a, x, y) \/ (x \in ToSet(a) /\ y = e)
<1>1. Append(a, e) = a \o <<e>> /\ <<e>> \in Seq(S)
  OBVIOUS
<1>2. ToSet(<<e>>) = {e}
  BY DEF ToSet
<1>3. \A x, y : ~Before(<<e>>, x, y)
  BY DEF Before
<1>4. PICK b \in Seq(S) : b = <<e>>
  BY <1>1
<1>5. /\ a \o b \in Seq(S)
      /\ ToSet(a \o b) = ToSet(a) \cup ToSet(b)
      /\ \A x, y : Before(a \o b, x, y) =>
                 \/ Before(a, x, y)
                 \/ Before(b, x, y)
                 \/ x \in ToSet(a) /\ y \in ToSet(b)
  BY ConcatFacts
<1>. QED  BY <1>1, <1>2, <1>3, <1>4, <1>5

LEMMA OnlyFacts ==
    ASSUME NEW S, NEW queue \in Seq(S), NEW set
    PROVE  /\ Only(queue, set) \in Seq(S)
           /\ ToSet(Only(queue, set)) = ToSet(queue) \cap set
           /\ \A x, y : Before(Only(queue, set), x, y) => Before(queue, x, y)
<1>1. PICK n \in Nat : n = Len(queue) /\ DOMAIN queue = 1..n
  OBVIOUS
<1>2. PICK g : IsPicking(queue, set, n, g) /\ Only(queue, set) = g[n]
  BY <1>1, OnlyIsPicking
<1>3. /\ g[0] = <<>>
      /\ \A i \in 1..n : g[i] = PickNext(queue, set, i, g[i - 1])
  BY <1>2, PickingSteps DEF NonePicked
<1> DEFINE Within(k) ==
              /\ g[k] \in Seq(S)
              /\ ToSet(g[k]) = {queue[i] : i \in 1..k} \cap set
              /\ \A x, y : Before(g[k], x, y) =>
                    \E i, j \in 1..k : /\ i < j
                                       /\ queue[i] = x
                                       /\ queue[j] = y
           Good == {k \in Nat : k <= n => Within(k)}
<1>4. 0 \in Good
  <2>1. ToSet(<<>>) = {} /\ \A x, y : ~Before(<<>>, x, y)
    BY DEF ToSet, Before
  <2>2. {queue[i] : i \in 1..0} = {}
    OBVIOUS
  <2>3. <<>> \in Seq(S)
    OBVIOUS
  <2>. QED  BY <1>3, <2>1, <2>2, <2>3
<1>5. ASSUME NEW k \in Nat, k \in Good
      PROVE  k + 1 \in Good
  <2>. SUFFICES ASSUME k + 1 <= n
                PROVE  Within(k + 1)
    OBVIOUS
  <2>1. Within(k)
    BY <1>5
  <2>2. k + 1 \in 1..n /\ (k + 1) - 1 = k /\ 1..(k + 1) = 1..k \cup {k + 1}
    OBVIOUS
  <2>3. PICK e \in S : e = queue[k + 1]
    BY <1>1, <2>2
  <2>4. {queue[i] : i \in 1..(k + 1)} = {queue[i] : i \in 1..k} \cup {e}
    BY <2>2, <2>3
  <2>5. g[k + 1] = IF e \in set THEN Append(g[k], e) ELSE g[k]
    BY <1>3, <2>2, <2>3 DEF PickNext
  <2>6. CASE e \notin set
    <3>1. g[k + 1] = g[k]
      BY <2>5, <2>6
    <3>2. {queue[i] : i \in 1..(k + 1)} \cap set
             = {queue[i] : i \in 1..k} \cap set
      BY <2>4, <2>6
    <3>. QED  BY <2>1, <2>2, <3>1, <3>2
  <2>7. CASE e \in set
    <3>1. PICK a \in Seq(S) : a = g[k]
      BY <2>1
    <3>2. /\ Append(a, e) \in Seq(S)
          /\ ToSet(Append(a, e)) = ToSet(a) \cup {e}
          /\ \A x, y : Before(Append(a, e), x, y) =>
                 Before(a, x, y) \/ (x \in ToSet(a) /\ y = e)
      BY SnocFacts
    <3>3. g[k + 1] = Append(a, e)
      BY <2>5, <2>7, <3>1
    <3>4. ToSet(g[k + 1]) = {queue[i] : i \in 1..(k + 1)} \cap set
      <4>1. ToSet(a) = {queue[i] : i \in 1..k} \cap set
        BY <2>1, <3>1
      <4>2. ToSet(g[k + 1]) = ToSet(a) \cup {e}
        BY <3>2, <3>3
      <4>. QED  BY <2>4, <2>7, <4>1, <4>2
    <3>5. ASSUME NEW x, NEW y, Before(g[k + 1], x, y)
          PROVE  \E i, j \in 1..(k + 1) : /\ i < j
                                          /\ queue[i] = x
                                          /\ queue[j] = y
      <4>1. CASE Before(a, x, y)
        BY <2>1, <2>2, <3>1, <4>1
      <4>2. CASE x \in ToSet(a) /\ y = e
        <5>1. PICK i \in 1..k : queue[i] = x
          BY <2>1, <3>1, <4>2
        <5>2. i \in 1..(k + 1) /\ k + 1 \in 1..(k + 1) /\ i < k + 1
          OBVIOUS
        <5>. QED  BY <2>3, <4>2, <5>1, <5>2
      <4>. QED  BY <3>2, <3>3, <3>5, <4>1, <4>2
    <3>. QED  BY <3>2, <3>3, <3>4, <3>5
  <2>. QED  BY <2>6, <2>7
<1>6. n \in Good
  <2>. HIDE DEF Good
  <2>. QED  BY <1>4, <1>5, NatInductive
<1>7. Within(n)
  BY <1>6
<1>8. ToSet(queue) = {queue[i] : i \in 1..n}
  BY <1>1 DEF ToSet
<1>9. ASSUME NEW x, NEW y, Before(g[n], x, y)
      PROVE  Before(queue, x, y)
  <2>1. PICK i \in 1..n, j \in 1..n : i < j /\ queue[i] = x /\ queue[j] = y
    BY <1>7, <1>9
  <2>. QED  BY <1>1, <2>1, SeqFacts
<1>. QED  BY <1>2, <1>7, <1>8, <1>9

----------------------------------------------------------------------------
(* Orders that are not amended to a better price                            *)

\* No order of the book is taken out to be entered at a better price.  Of an
\* order that is, the feed forgets where it is (the run advance).
NeverAdvances ==
    \A id \in DOMAIN resting : \A a \in Amendments :
        ModifyReplace(id, a)
            => ~Better(resting[id].side, a.price, resting[id].price)

Behind(r, id, side, price) ==
    side = r[id].side /\ ~Better(side, price, r[id].price)

\* No order is, or will be, at a better price than it was.
NotAdvanced(r) ==
    \A id \in DOMAIN r :
        /\ r[id].side \in Sides
        /\ r[id].price \in Nat
        /\ id \in DOMAIN resting
              => Behind(r, id, resting[id].side, resting[id].price)
        /\ id \in LiveIds /\ live.limit_price \in Nat
              => Behind(r, id, live.side, live.limit_price)

LEMMA NotAdvancedKept ==
    ASSUME Inv, Inv', VolumeInv, Next, NeverAdvances,
           NEW r, NotAhead(r), NotAdvanced(r)
    PROVE  NotAdvanced(r)'
<1>. SUFFICES ASSUME NEW id \in DOMAIN r
              PROVE  /\ r[id].side \in Sides
                     /\ r[id].price \in Nat
                     /\ id \in DOMAIN resting'
                          => Behind(r, id, resting'[id].side,
                                    resting'[id].price)
                     /\ id \in LiveIds' /\ live'.limit_price \in Nat
                          => Behind(r, id, live'.side, live'.limit_price)
  BY DEF NotAdvanced, Behind
<1>1. r[id].side \in Sides /\ r[id].price \in Nat
  BY DEF NotAdvanced
<1>2. BookMoves /\ LiveMoves
  BY StepMoves
<1>3. ASSUME id \in DOMAIN resting'
      PROVE  Behind(r, id, resting'[id].side, resting'[id].price)
  <2>1. CASE id \in DOMAIN resting /\ LevelOf(id)' = LevelOf(id)
    BY <2>1 DEF NotAdvanced, LevelOf
  <2>2. CASE Enters(id)
    BY <2>2 DEF NotAdvanced, Enters
  <2>. QED  BY <1>2, <1>3, <2>1, <2>2 DEF BookMoves
<1>4. ASSUME id \in LiveIds', live'.limit_price \in Nat
      PROVE  Behind(r, id, live'.side, live'.limit_price)
  <2>1. CASE /\ id \in LiveIds
             /\ live'.side = live.side
             /\ live'.limit_price = live.limit_price
    BY <1>4, <2>1 DEF NotAdvanced
  <2>2. CASE Amended(id)
    <3>1. PICK a \in Amendments :
             ModifyReplace(id, a) /\ live'.limit_price = a.price
      BY <2>2 DEF Amended
    <3>2. ~Better(resting[id].side, a.price, resting[id].price)
      BY <2>2, <3>1 DEF Amended, NeverAdvances
    <3>3. Behind(r, id, resting[id].side, resting[id].price)
      BY <2>2 DEF Amended, NotAdvanced
    <3>4. live'.side = resting[id].side
      BY <2>2 DEF Amended
    <3>5. resting[id].price \in Nat
      BY <2>2, OrderFacts, LevelFacts DEF Amended, Inv
    <3>. QED  BY <1>1, <1>4, <3>1, <3>2, <3>3, <3>4, <3>5
              DEF Behind, Better, Sides
  <2>3. CASE id \in StopIds \cup {next_order_id}
    <3>1. next_order_id \in Nat
      BY DEF Inv, CallTypeOK
    <3>. QED  BY <2>3, <3>1 DEF NotAhead
  <2>. QED  BY <1>2, <1>4, <2>1, <2>2, <2>3 DEF LiveMoves
<1>. QED  BY <1>1, <1>3, <1>4

----------------------------------------------------------------------------
(* The L3 feed that the orders r make                                       *)

AtLevel(r, level) == {id \in DOMAIN r : Where(r, id) = level}

\* A queue of these orders, whatever their order.
IsQueue(r, level, queue) ==
    /\ queue \in Seq(Nat \X Nat)
    /\ ToSet(queue) = {<<id, r[id].qty>> : id \in AtLevel(r, level)}
    /\ \A x : ~Before(IdsIn(queue), x, x)

L3Seeds(r) ==
    /\ loc = [id \in DOMAIN r |-> Where(r, id)]
    /\ IsFcn(l3)
    /\ DOMAIN l3 = {Where(r, id) : id \in DOMAIN r}
    /\ \A level \in DOMAIN l3 : IsQueue(r, level, l3[level])

\* The queue of a level, of a feed or of the consumer.
QueueAt(queues, level) ==
    IF level \in DOMAIN queues THEN queues[level] ELSE <<>>

LEMMA IdsFacts ==
    ASSUME NEW queue \in Seq(Nat \X Nat)
    PROVE  /\ IdsIn(queue) \in Seq(Nat)
           /\ Len(IdsIn(queue)) = Len(queue)
           /\ ToSet(IdsIn(queue)) = Ids(queue)
           /\ Ids(queue) = {Id(entry) : entry \in ToSet(queue)}
           /\ \A x, y : Before(queue, x, y)
                 => Before(IdsIn(queue), Id(x), Id(y))
<1>1. PICK n \in Nat : n = Len(queue)
  OBVIOUS
<1>2. PICK ids : ids = IdsIn(queue)
  OBVIOUS
<1>3. DOMAIN queue = 1..n /\ ids = [i \in 1..n |-> Id(queue[i])]
  BY <1>1, <1>2 DEF IdsIn
<1>4. \A i \in 1..n : Id(queue[i]) \in Nat
  BY <1>1 DEF Id
<1>5. ids \in Seq(Nat) /\ Len(ids) = n /\ DOMAIN ids = 1..n
  BY <1>3, <1>4
<1>6. \A i \in 1..n : ids[i] = Id(queue[i])
  BY <1>3
<1>7. ToSet(ids) = Ids(queue)
  BY <1>3, <1>5, <1>6 DEF ToSet, Ids
<1>8. Ids(queue) = {Id(entry) : entry \in ToSet(queue)}
  BY <1>3 DEF ToSet, Ids
<1>9. ASSUME NEW x, NEW y, Before(queue, x, y)
      PROVE  Before(ids, Id(x), Id(y))
  <2>1. PICK i \in 1..n, j \in 1..n : i < j /\ queue[i] = x /\ queue[j] = y
    BY <1>3, <1>9 DEF Before
  <2>. QED  BY <1>5, <1>6, <2>1 DEF Before
<1>. QED  BY <1>1, <1>2, <1>5, <1>7, <1>8, <1>9

\* A queue of the book is a queue of its orders, in the order of the level.
LEMMA BookQueue ==
    ASSUME BookInv, NEW side \in Sides, NEW price \in DOMAIN levels[side],
           NEW level, level = <<side, price>>
    PROVE  /\ level \in Levels
           /\ IsQueue(resting, level, LevelOrders(level))
           /\ IdsIn(LevelOrders(level)) = FifoOf(side, price)
           /\ LevelOrders(level) # <<>>
<1>1. PICK fifo \in Seq(Nat) : fifo = FifoOf(side, price)
  BY LevelFacts
<1>2. PICK n \in Nat : n = Len(fifo) /\ DOMAIN fifo = 1..n
  OBVIOUS
<1>3. level \in Levels
  BY DEF Levels
<1>4. /\ level[1] = side
      /\ level[2] = price
  OBVIOUS
<1>5. PICK queue : queue = LevelOrders(level)
  OBVIOUS
<1>6. queue = [i \in 1..n |-> <<fifo[i], resting[fifo[i]].qty>>]
  BY <1>1, <1>2, <1>3, <1>4, <1>5 DEF LevelOrders
<1>7. \A id : (\E i \in 1..n : fifo[i] = id) <=> id \in AtLevel(resting, level)
  <2>1. \A id : id \in ToSet(fifo) <=> /\ id \in DOMAIN resting
                                       /\ resting[id].side = side
                                       /\ resting[id].price = price
    BY <1>1, LevelFacts
  <2>2. \A id : id \in ToSet(fifo) <=> \E i \in 1..n : fifo[i] = id
    BY <1>2, SeqFacts
  <2>. QED  BY <2>1, <2>2 DEF AtLevel, Where
<1>8. \A i \in 1..n : fifo[i] \in Nat /\ resting[fifo[i]].qty \in Nat
  BY <1>2, <1>7, OrderFacts DEF AtLevel
<1>9. queue \in Seq(Nat \X Nat) /\ DOMAIN queue = 1..n /\ Len(queue) = n
  BY <1>6, <1>8
<1>10. \A i \in 1..n : queue[i] = <<fifo[i], resting[fifo[i]].qty>>
  BY <1>6
<1>11. ToSet(queue) = {<<id, resting[id].qty>> :
                          id \in AtLevel(resting, level)}
  <2> DEFINE Shows(entry, id) == entry = <<id, resting[id].qty>>
  <2>1. \A i \in 1..n : Shows(queue[i], fifo[i])
    BY <1>10
  <2>2. \A e1, e2, id : Shows(e1, id) /\ Shows(e2, id) => e1 = e2
    OBVIOUS
  <2>3. ToSet(queue) = {queue[i] : i \in 1..n}
    BY <1>9 DEF ToSet
  <2>. HIDE DEF Shows
  <2>4. ASSUME NEW entry
        PROVE  (\E i \in 1..n : queue[i] = entry)
                  <=> \E id \in AtLevel(resting, level) : Shows(entry, id)
    BY <1>7, <2>1, <2>2
  <2>5. \A entry : entry \in ToSet(queue)
                  <=> \E id \in AtLevel(resting, level) : Shows(entry, id)
    BY <2>3, <2>4
  <2>. QED  BY <2>5 DEF Shows
<1>12. IdsIn(queue) = fifo
  <2>1. IdsIn(queue) = [i \in 1..n |-> fifo[i]]
    BY <1>9, <1>10 DEF IdsIn, Id
  <2>. QED  BY <1>2, <2>1
<1>13. \A x : ~Before(fifo, x, x)
  <2>1. IsInjective(fifo)
    BY <1>1, LevelFacts
  <2>2. \A i, j \in 1..n : fifo[i] = fifo[j] => i = j
    BY <1>2, <2>1 DEF IsInjective
  <2>3. ASSUME NEW x, Before(fifo, x, x)
        PROVE  FALSE
    <3>1. \E i \in 1..n : \E j \in 1..n :
             i < j /\ fifo[i] = x /\ fifo[j] = x
      BY <1>2, <2>3, SeqFacts
    <3>. QED  BY <2>2, <3>1
  <2>. QED  BY <2>3
<1>14. queue # <<>>
  <2>1. n # 0
    BY <1>1, <1>2, LevelFacts
  <2>. QED  BY <1>9, <2>1
<1>. QED  BY <1>1, <1>3, <1>5, <1>9, <1>11, <1>12, <1>13, <1>14 DEF IsQueue

LEMMA LevelPair ==
    ASSUME NEW level \in Levels
    PROVE  \E side \in Sides : \E price \in DOMAIN levels[side] :
              level = <<side, price>>
BY DEF Levels

LEMMA LevelQueue ==
    ASSUME BookInv, NEW level \in Levels
    PROVE  /\ IsQueue(resting, level, LevelOrders(level))
           /\ LevelOrders(level) # <<>>
           /\ IdsIn(LevelOrders(level)) = FifoOf(level[1], level[2])
<1>1. PICK side \in Sides : \E price \in DOMAIN levels[side] :
         level = <<side, price>>
  BY LevelPair
<1>2. PICK price \in DOMAIN levels[side] : level = <<side, price>>
  BY <1>1
<1>. QED  BY <1>2, BookQueue

\* The feed that a restart would seed is one of the orders of the book.
LEMMA BookMakesL3 ==
    ASSUME BookInv, l3 = L3FromBook, loc = LocFromBook,
           NEW q, q = resting
    PROVE  L3Seeds(q) /\ PlacesKnown(q)
<1>1. loc = [id \in DOMAIN q |-> Where(q, id)]
  BY DEF LocFromBook, LevelOf, Where
<1>2. /\ IsFcn(l3)
      /\ DOMAIN l3 = Levels
      /\ \A level \in Levels : l3[level] = LevelOrders(level)
  BY DEF L3FromBook, IsFcn
<1>3. Levels = {Where(q, id) : id \in DOMAIN q}
  BY LevelsAreOrders
<1>4. L3Seeds(q)
  BY <1>1, <1>2, <1>3, LevelQueue DEF L3Seeds
<1>5. ASSUME NEW x, NEW y, Stayed(q, x),
             Before(FifoOf(resting[x].side, resting[x].price), x, y)
      PROVE  Before(IdsIn(l3[LevelOf(x)]), x, y)
  <2>1. x \in DOMAIN resting /\ LevelOf(x) = Where(q, x)
    BY <1>5 DEF Stayed
  <2>2. LevelOf(x) \in Levels
    BY <1>3, <2>1
  <2>3. IdsIn(LevelOrders(LevelOf(x)))
           = FifoOf(resting[x].side, resting[x].price)
    BY <2>2, LevelQueue DEF LevelOf
  <2>. QED  BY <1>2, <1>5, <2>2, <2>3
<1>. QED  BY <1>4, <1>5 DEF PlacesKnown

----------------------------------------------------------------------------
(* The levels that a call touches                                           *)

TouchedBy(events) == UNION {L3Touched(events[i]) : i \in DOMAIN events}

LEMMA TouchesOne ==
    ASSUME BookInv, NEW r, L3Seeds(r), NotAdvanced(r), NEW event \in Event
    PROVE  \/ L3Touched(event) = {}
           \/ \E level \in Sides \X Nat : L3Touched(event) = {level}
<1>1. CASE event.type = "Trade"
  <2>1. event.price \in Nat /\ event.taker_side \in Sides
    BY <1>1 DEF Event
  <2>2. Opposite(event.taker_side) \in Sides
    BY <2>1 DEF Opposite, Sides
  <2>3. L3Touched(event) = {<<Opposite(event.taker_side), event.price>>}
    BY <1>1 DEF L3Touched
  <2>. QED  BY <2>1, <2>2, <2>3
<1>2. CASE event.type = "Resting" /\ event.order_id \in DOMAIN resting
  <2>1. event.price \in Nat
    BY <1>2 DEF Event
  <2>2. resting[event.order_id].side \in Sides
    BY <1>2, OrderFacts
  <2>3. L3Touched(event)
           = {<<resting[event.order_id].side, event.price>>}
    BY <1>2 DEF L3Touched
  <2>. QED  BY <2>1, <2>2, <2>3
<1>3. CASE event.type \in {"Modified", "Canceled", "Filled"}
  <2>1. L3Touched(event) = OldLevel(loc, event.order_id)
    BY <1>3 DEF L3Touched
  <2>2. CASE event.order_id \in DOMAIN loc
    <3>1. OldLevel(loc, event.order_id) = {Where(r, event.order_id)}
      BY <2>2 DEF OldLevel, L3Seeds
    <3>2. Where(r, event.order_id) \in Sides \X Nat
      BY <2>2 DEF L3Seeds, NotAdvanced, Where
    <3>. QED  BY <2>1, <3>1, <3>2
  <2>. QED  BY <2>1, <2>2 DEF OldLevel
<1>. QED  BY <1>1, <1>2, <1>3 DEF L3Touched

LEMMA TouchedTyped ==
    ASSUME BookInv, NEW r, L3Seeds(r), NotAdvanced(r),
           NEW events \in Seq(Event)
    PROVE  /\ IsFiniteSet(TouchedBy(events))
           /\ TouchedBy(events) \subseteq Sides \X Nat
<1>1. PICK n \in Nat : n = Len(events) /\ DOMAIN events = 1..n
  OBVIOUS
<1>2. \A i \in 1..n : events[i] \in Event
  BY <1>1
<1> DEFINE f == [i \in 1..n |-> L3Touched(events[i])]
<1>3. TouchedBy(events) = UNION {f[i] : i \in 1..n}
  BY <1>1 DEF TouchedBy
<1>4. \A i \in 1..n : \/ f[i] = {}
                      \/ \E level \in Sides \X Nat : f[i] = {level}
  BY <1>2, TouchesOne
<1>. HIDE DEF f
<1>5. IsFiniteSet({f[i] : i \in 1..n})
  <2>1. IsFiniteSet(1..n)
    BY FS_Interval
  <2>. QED  BY <2>1, ImageFinite
<1>6. \A S \in {f[i] : i \in 1..n} : IsFiniteSet(S)
  <2>1. ASSUME NEW i \in 1..n
        PROVE  IsFiniteSet(f[i])
    <3>1. f[i] = {} \/ \E level : f[i] = {level}
      BY <1>4
    <3>. QED  BY <3>1, FS_EmptySet, FS_Singleton
  <2>. QED  BY <2>1
<1>7. IsFiniteSet(UNION {f[i] : i \in 1..n})
  BY <1>5, <1>6, FS_UNION
<1>8. UNION {f[i] : i \in 1..n} \subseteq Sides \X Nat
  BY <1>4
<1>. QED  BY <1>3, <1>7, <1>8

\* The L2 feed, which knows more of the orders, touches nothing else.
LEMMA SeesNoMore ==
    ASSUME NEW events \in Seq(Event), loc = order_loc
    PROVE  L2Seen(events).touched \subseteq TouchedBy(events)
<1>1. PICK h : /\ IsSighting(events, Len(events), h)
               /\ L2Seen(events) = h[Len(events)]
  BY SeenIsSighting
<1>2. PICK n \in Nat : n = Len(events) /\ DOMAIN events = 1..n
  OBVIOUS
<1>3. PICK T : T = TouchedBy(events)
  OBVIOUS
<1>4. \A i \in 1..n : L3Touched(events[i]) \subseteq T
  BY <1>2, <1>3 DEF TouchedBy
<1> DEFINE Known(seen) ==
              /\ seen.touched \subseteq T
              /\ \A id :
                    OldLevel(seen.loc, id) \subseteq OldLevel(loc, id) \cup T
           Places == {k \in Nat : k <= n => Known(h[k])}
<1>5. 0 \in Places
  <2>1. h[0] = [touched |-> {}, loc |-> order_loc]
    BY <1>1, <1>2, SightingSteps DEF Unseen
  <2>. QED  BY <2>1
<1>6. ASSUME NEW event \in Event, L3Touched(event) \subseteq T,
             NEW seen, Known(seen)
      PROVE  Known(L2Event(seen, event))
  <2>1. event.type \in {"Accepted", "Filled", "Canceled", "Modified",
                        "Triggered", "Rejected", "Resting", "Trade"}
    BY DEF Event
  <2>2. CASE event.type = "Trade"
    <3>1. L3Touched(event) = {<<Opposite(event.taker_side), event.price>>}
      BY <2>2 DEF L3Touched
    <3>2. L2Event(seen, event) =
             [touched |-> seen.touched
                            \cup {<<Opposite(event.taker_side), event.price>>},
              loc |-> IF event.maker_order_id \in DOMAIN resting THEN seen.loc
                      ELSE Drop(seen.loc, event.maker_order_id)]
      BY <2>2 DEF L2Event
    <3>. QED  BY <1>6, <3>1, <3>2, OldLevelDropped
  <2>3. CASE event.type = "Resting" /\ event.order_id \in DOMAIN resting
    <3>1. PICK level : level = <<resting[event.order_id].side, event.price>>
      OBVIOUS
    <3>2. L3Touched(event) = {level}
      BY <2>3, <3>1 DEF L3Touched
    <3>3. L2Event(seen, event) =
             [touched |-> seen.touched \cup {level},
              loc |-> Put(seen.loc, event.order_id, level)]
      BY <2>3, <3>1 DEF L2Event
    <3>4. level \in T
      BY <1>6, <3>2
    <3>. QED  BY <1>6, <3>3, <3>4, OldLevelPut
  <2>4. CASE event.type = "Resting" /\ event.order_id \notin DOMAIN resting
    <3>1. L2Event(seen, event) = seen
      BY <2>4 DEF L2Event
    <3>. QED  BY <1>6, <3>1
  <2>5. CASE event.type \in {"Modified", "Canceled", "Filled"}
    <3>1. L3Touched(event) = OldLevel(loc, event.order_id)
      BY <2>5 DEF L3Touched
    <3>2. OldLevel(seen.loc, event.order_id) \subseteq T
      BY <1>6, <3>1
    <3>3. CASE event.type = "Modified"
      <4>1. L2Event(seen, event) =
               [seen EXCEPT !.touched =
                    @ \cup OldLevel(seen.loc, event.order_id)]
        BY <3>3 DEF L2Event
      <4>2. /\ L2Event(seen, event).touched
                  \subseteq seen.touched
                               \cup OldLevel(seen.loc, event.order_id)
            /\ L2Event(seen, event).loc = seen.loc
        BY <4>1
      <4>. QED  BY <1>6, <3>2, <4>2
    <3>4. CASE event.type \in {"Canceled", "Filled"}
      <4>1. L2Event(seen, event) =
               [touched |-> seen.touched
                              \cup OldLevel(seen.loc, event.order_id),
                loc |-> Drop(seen.loc, event.order_id)]
        BY <3>4 DEF L2Event
      <4>. QED  BY <1>6, <3>2, <4>1, OldLevelDropped
    <3>. QED  BY <2>5, <3>3, <3>4
  <2>6. CASE event.type \in {"Accepted", "Triggered", "Rejected"}
    <3>1. L2Event(seen, event) = seen
      BY <2>6 DEF L2Event
    <3>. QED  BY <1>6, <3>1
  <2>. QED  BY <2>1, <2>2, <2>3, <2>4, <2>5, <2>6
<1>7. ASSUME NEW k \in Nat, k \in Places
      PROVE  k + 1 \in Places
  <2>. SUFFICES ASSUME k + 1 <= n
                PROVE  Known(h[k + 1])
    OBVIOUS
  <2>1. k + 1 \in 1..n /\ (k + 1) - 1 = k
    OBVIOUS
  <2>2. h[k + 1] = L2Event(h[k], events[k + 1])
    BY <1>1, <1>2, <2>1, SightingSteps
  <2>3. events[k + 1] \in Event /\ L3Touched(events[k + 1]) \subseteq T
    BY <1>2, <1>4, <2>1
  <2>4. Known(h[k])
    BY <1>7
  <2>. HIDE DEF Known
  <2>. QED  BY <1>6, <2>2, <2>3, <2>4
<1>8. n \in Places
  <2>. HIDE DEF Places
  <2>. QED  BY <1>5, <1>7, NatInductive
<1>. QED  BY <1>1, <1>2, <1>3, <1>8

----------------------------------------------------------------------------
(* Levels that the call does not touch                                      *)

LEMMA UntouchedOrders ==
    ASSUME Inv, CallFacts, phase # "match", NEW r, Seeds(r), FollowsAll(r),
           loc = order_loc, NEW id
    PROVE  /\ id \in DOMAIN resting /\ LevelOf(id) \notin TouchedBy(News) =>
                 /\ id \in DOMAIN r
                 /\ Where(r, id) = LevelOf(id)
                 /\ r[id].qty = resting[id].qty
                 /\ Stayed(r, id)
           /\ id \in DOMAIN r /\ Where(r, id) \notin TouchedBy(News) =>
                 /\ id \in DOMAIN resting
                 /\ LevelOf(id) = Where(r, id)
<1>1. BookInv
  BY DEF Inv
<1>2. Followed(r, id) /\ EndOf(id) \in Ends
  BY <1>1, EndIsEnd DEF FollowsAll
<1>3. PICK s : /\ Leads(News, id, Was(r, id), EndOf(id), s)
               /\ Told(r, id, EndOf(id), s)
  BY <1>2 DEF Followed
<1>4. Sees(L2Seen(News), s, id)
  BY <1>3, NewsTyped, OldIsWas, SeesAll
<1>5. s.touched \subseteq TouchedBy(News)
  BY <1>4, NewsTyped, SeesNoMore DEF Sees
<1>6. LiveIds = {} /\ GoneIds = {}
  BY DEF LiveIds, GoneIds
<1>7. CASE id \in DOMAIN resting
  <2>1. EndOf(id) = {resting[id].side}
    BY <1>7 DEF EndOf
  <2>2. \/ /\ id \in DOMAIN r
           /\ Where(r, id) = LevelOf(id)
           /\ r[id].qty = resting[id].qty
        \/ {LevelOf(id)} \cup Was(r, id) \subseteq s.touched
    BY <1>3, <1>7, <2>1 DEF Told, ToldResting
  <2>3. id \in DOMAIN r => Was(r, id) = {Where(r, id)}
    BY DEF Was
  <2>. QED  BY <1>3, <1>5, <1>7, <2>1, <2>2, <2>3 DEF Stayed
<1>8. CASE id \notin DOMAIN resting
  <2>1. Was(r, id) \subseteq s.touched
    BY <1>3, <1>6, <1>8 DEF Told, ToldLeft, EndOf
  <2>2. id \in DOMAIN r => Was(r, id) = {Where(r, id)}
    BY DEF Was
  <2>. QED  BY <1>5, <1>8, <2>1, <2>2
<1>. QED  BY <1>7, <1>8

LEMMA SameQueue ==
    ASSUME NEW p \in Seq(Nat \X Nat), NEW q \in Seq(Nat \X Nat),
           ToSet(p) = ToSet(q),
           \A d, e \in ToSet(q) : Id(d) = Id(e) => d = e,
           \A x, y : Before(IdsIn(p), x, y) => Before(IdsIn(q), x, y),
           \A x : ~Before(IdsIn(q), x, x)
    PROVE  p = q
<1>1. ASSUME NEW d, NEW e, Before(p, d, e)
      PROVE  Before(q, d, e)
  <2>1. d \in ToSet(p) /\ e \in ToSet(p)
    BY <1>1 DEF Before, ToSet
  <2>2. Before(IdsIn(q), Id(d), Id(e))
    BY <1>1, IdsFacts
  <2>3. PICK i \in DOMAIN q, j \in DOMAIN q :
           i < j /\ Id(q[i]) = Id(d) /\ Id(q[j]) = Id(e)
    BY <2>2 DEF Before, IdsIn
  <2>4. q[i] \in ToSet(q) /\ q[j] \in ToSet(q)
    BY DEF ToSet
  <2>5. q[i] = d /\ q[j] = e
    BY <2>1, <2>3, <2>4
  <2>. QED  BY <2>3, <2>5 DEF Before
<1>2. \A x : ~Before(q, x, x)
  BY IdsFacts
<1>. QED  BY <1>1, <1>2, SameOrder

LEMMA QueueFacts ==
    ASSUME NEW r, NEW level, NEW queue, IsQueue(r, level, queue)
    PROVE  /\ queue \in Seq(Nat \X Nat)
           /\ Ids(queue) = AtLevel(r, level)
           /\ \A e \in ToSet(queue) : e = <<Id(e), r[Id(e)].qty>>
           /\ \A d, e \in ToSet(queue) : Id(d) = Id(e) => d = e
<1>1. ToSet(queue) = {<<id, r[id].qty>> : id \in AtLevel(r, level)}
  BY DEF IsQueue
<1>2. \A id \in AtLevel(r, level) : Id(<<id, r[id].qty>>) = id
  BY DEF Id
<1>3. \A e \in ToSet(queue) : /\ e = <<Id(e), r[Id(e)].qty>>
                              /\ Id(e) \in AtLevel(r, level)
  BY <1>1, <1>2
<1>4. \A id \in AtLevel(r, level) : \E e \in ToSet(queue) : Id(e) = id
  BY <1>1, <1>2
<1>5. queue \in Seq(Nat \X Nat)
  BY DEF IsQueue
<1>6. Ids(queue) = {Id(e) : e \in ToSet(queue)}
  BY <1>5, IdsFacts
<1>. QED  BY <1>3, <1>4, <1>5, <1>6

\* Every level has a queue of its orders, if an empty one.
LEMMA OldQueue ==
    ASSUME NEW r, L3Seeds(r), NEW level
    PROVE  IsQueue(r, level, QueueAt(l3, level))
<1>1. CASE level \in DOMAIN l3
  BY <1>1 DEF L3Seeds, QueueAt
<1>2. CASE level \notin DOMAIN l3
  <2>1. AtLevel(r, level) = {}
    BY <1>2 DEF L3Seeds, AtLevel
  <2>2. QueueAt(l3, level) = <<>>
    BY <1>2 DEF QueueAt
  <2>3. <<>> \in Seq(Nat \X Nat) /\ ToSet(<<>>) = {}
    BY DEF ToSet
  <2>4. \A x : ~Before(IdsIn(<<>>), x, x)
    BY DEF IdsIn, Before
  <2>. QED  BY <2>1, <2>2, <2>3, <2>4 DEF IsQueue
<1>. QED  BY <1>1, <1>2

LEMMA NewQueue ==
    ASSUME BookInv, NEW level
    PROVE  /\ IsQueue(resting, level, LevelOrders(level))
           /\ LevelOrders(level) = <<>> <=> level \notin Levels
<1>1. CASE level \in Levels
  BY <1>1, LevelQueue
<1>2. CASE level \notin Levels
  <2>1. AtLevel(resting, level) = {}
    BY <1>2, LevelsAreOrders DEF AtLevel
  <2>2. LevelOrders(level) = <<>>
    BY <1>2 DEF LevelOrders
  <2>3. <<>> \in Seq(Nat \X Nat) /\ ToSet(<<>>) = {}
    BY DEF ToSet
  <2>4. \A x : ~Before(IdsIn(<<>>), x, x)
    BY DEF IdsIn, Before
  <2>. QED  BY <1>2, <2>1, <2>2, <2>3, <2>4 DEF IsQueue
<1>. QED  BY <1>1, <1>2

LEMMA UntouchedQueues ==
    ASSUME Inv, CallFacts, phase # "match", NEW r, Seeds(r), FollowsAll(r),
           L3Seeds(r), PlacesKnown(r),
           NEW level, level \notin TouchedBy(News)
    PROVE  /\ level \in DOMAIN l3 <=> level \in Levels
           /\ QueueAt(l3, level) = LevelOrders(level)
<1>1. BookInv
  BY DEF Inv
<1>2. loc = order_loc
  BY DEF Seeds, L3Seeds
<1>3. ASSUME NEW id
      PROVE  /\ id \in AtLevel(r, level) <=> id \in AtLevel(resting, level)
             /\ id \in AtLevel(resting, level) =>
                   r[id].qty = resting[id].qty /\ Stayed(r, id)
  <2>1. LevelOf(id) = Where(resting, id)
    BY DEF LevelOf, Where
  <2>. QED  BY <1>2, <2>1, UntouchedOrders DEF AtLevel
<1>4. level \in DOMAIN l3 <=> level \in Levels
  <2>1. level \in DOMAIN l3 <=> AtLevel(r, level) # {}
    BY DEF L3Seeds, AtLevel
  <2>2. level \in Levels <=> AtLevel(resting, level) # {}
    BY <1>1, LevelsAreOrders DEF AtLevel
  <2>. QED  BY <1>3, <2>1, <2>2
<1>5. CASE level \notin Levels
  <2>1. LevelOrders(level) = <<>> /\ QueueAt(l3, level) = <<>>
    BY <1>4, <1>5 DEF LevelOrders, QueueAt
  <2>. QED  BY <1>4, <2>1
<1>6. CASE level \in Levels
  <2>1. PICK p, q : p = LevelOrders(level) /\ q = QueueAt(l3, level)
    OBVIOUS
  <2>2. /\ IsQueue(resting, level, p)
        /\ IsQueue(r, level, q)
        /\ IdsIn(p) = FifoOf(level[1], level[2])
        /\ q = l3[level]
    BY <1>1, <1>4, <1>6, <2>1, OldQueue, LevelQueue DEF QueueAt
  <2>3. ToSet(p) = ToSet(q)
    <3>1. /\ ToSet(p) = {<<id, resting[id].qty>> :
                            id \in AtLevel(resting, level)}
          /\ ToSet(q) = {<<id, r[id].qty>> : id \in AtLevel(r, level)}
      BY <2>2 DEF IsQueue
    <3>. QED  BY <1>3, <3>1
  <2>4. ASSUME NEW x, NEW y, Before(IdsIn(p), x, y)
        PROVE  Before(IdsIn(q), x, y)
    <3>1. x \in ToSet(IdsIn(p)) /\ y \in ToSet(IdsIn(p))
      BY <2>4 DEF Before, ToSet
    <3>2. x \in AtLevel(resting, level) /\ y \in AtLevel(resting, level)
      BY <2>2, <3>1, QueueFacts, IdsFacts
    <3>3. /\ Stayed(r, x)
          /\ Stayed(r, y)
          /\ LevelOf(x) = level
          /\ LevelOf(y) = level
      BY <1>3, <3>2 DEF AtLevel, LevelOf, Where
    <3>4. resting[x].side = level[1] /\ resting[x].price = level[2]
      BY <3>3 DEF LevelOf
    <3>. QED  BY <2>2, <2>4, <3>3, <3>4 DEF PlacesKnown
  <2>5. p = q
    <3>1. p \in Seq(Nat \X Nat) /\ q \in Seq(Nat \X Nat)
      BY <2>2, QueueFacts
    <3>2. \A d, e \in ToSet(q) : Id(d) = Id(e) => d = e
      BY <2>2, QueueFacts
    <3>3. \A x : ~Before(IdsIn(q), x, x)
      BY <2>2 DEF IsQueue
    <3>. QED  BY <2>3, <2>4, <3>1, <3>2, <3>3, SameQueue
  <2>. QED  BY <1>4, <2>1, <2>5
<1>. QED  BY <1>5, <1>6

----------------------------------------------------------------------------
(* The order in which levels are compared with the book                     *)

LEMMA DiffedOrder ==
    ASSUME NEW k \in Sides \X Nat, NEW l \in Sides \X Nat
    PROVE  /\ k = l \/ DiffedBefore(k, l) \/ DiffedBefore(l, k)
           /\ DiffedBefore(k, l) => k # l /\ ~DiffedBefore(l, k)
           /\ \A m \in Sides \X Nat :
                 DiffedBefore(k, l) /\ DiffedBefore(l, m) => DiffedBefore(k, m)
<1>1. PICK s \in Sides, p \in Nat : k = <<s, p>>
  OBVIOUS
<1>2. PICK t \in Sides, q \in Nat : l = <<t, q>>
  OBVIOUS
<1>3. k[1] = s /\ k[2] = p /\ l[1] = t /\ l[2] = q
  BY <1>1, <1>2
<1>4. k = l <=> s = t /\ p = q
  BY <1>1, <1>2
<1>5. ASSUME NEW m \in Sides \X Nat,
             DiffedBefore(k, l), DiffedBefore(l, m)
      PROVE  DiffedBefore(k, m)
  <2>1. PICK u \in Sides, o \in Nat : m = <<u, o>>
    OBVIOUS
  <2>2. m[1] = u /\ m[2] = o
    BY <2>1
  <2>. QED  BY <1>3, <1>5, <2>2 DEF DiffedBefore, Better, Sides
<1>. QED  BY <1>3, <1>4, <1>5 DEF DiffedBefore, Better, Sides

IsFirst(level, todo) ==
    /\ level \in todo
    /\ \A k \in todo \ {level} : DiffedBefore(level, k)

LEMMA FirstExists ==
    ASSUME NEW todo \in SUBSET (Sides \X Nat), IsFiniteSet(todo), todo # {}
    PROVE  \E level : IsFirst(level, todo)
<1> DEFINE Sizes == {n \in Nat : \A S \in SUBSET todo :
                       Cardinality(S) = n /\ S # {} => \E x : IsFirst(x, S)}
<1>1. 0 \in Sizes
  <2>1. \A S \in SUBSET todo : Cardinality(S) = 0 => S = {}
    BY FS_Subset, FS_EmptySet
  <2>. QED  BY <2>1
<1>2. ASSUME NEW n \in Nat, n \in Sizes
      PROVE  n + 1 \in Sizes
  <2>. SUFFICES ASSUME NEW S \in SUBSET todo, Cardinality(S) = n + 1, S # {}
                PROVE  \E x : IsFirst(x, S)
    OBVIOUS
  <2>1. PICK x \in S : TRUE
    OBVIOUS
  <2>2. /\ IsFiniteSet(S)
        /\ Cardinality(S \ {x}) = n
        /\ S \ {x} \in SUBSET todo
    <3>1. IsFiniteSet(S)
      BY FS_Subset
    <3>2. Cardinality(S \ {x}) = Cardinality(S) - 1
      BY <3>1, FS_RemoveElement
    <3>. QED  BY <3>1, <3>2
  <2>3. CASE S \ {x} = {}
    BY <2>3 DEF IsFirst
  <2>4. CASE S \ {x} # {}
    <3>1. PICK y : IsFirst(y, S \ {x})
      BY <1>2, <2>2, <2>4
    <3>2. x \in Sides \X Nat /\ y \in Sides \X Nat /\ x # y /\ y \in S
      BY <3>1 DEF IsFirst
    <3>3. CASE DiffedBefore(y, x)
      <4>1. \A k \in S \ {y} : DiffedBefore(y, k)
        BY <3>1, <3>3 DEF IsFirst
      <4>. QED  BY <3>2, <4>1 DEF IsFirst
    <3>4. CASE DiffedBefore(x, y)
      <4>1. ASSUME NEW k \in S \ {x}
            PROVE  DiffedBefore(x, k)
        <5>1. k = y \/ DiffedBefore(y, k)
          BY <3>1 DEF IsFirst
        <5>2. k \in Sides \X Nat
          OBVIOUS
        <5>. QED  BY <3>2, <3>4, <5>1, <5>2, DiffedOrder
      <4>. QED  BY <4>1 DEF IsFirst
    <3>. QED  BY <3>2, <3>3, <3>4, DiffedOrder
  <2>. QED  BY <2>3, <2>4
<1>3. Cardinality(todo) \in Nat
  BY FS_CardinalityType
<1>4. Cardinality(todo) \in Sizes
  <2>. HIDE DEF Sizes
  <2>. QED  BY <1>1, <1>2, <1>3, NatInductive
<1>. QED  BY <1>4

LEMMA NextIsFirst ==
    ASSUME NEW todo \in SUBSET (Sides \X Nat), IsFiniteSet(todo), todo # {}
    PROVE  IsFirst(NextLevel(todo), todo)
<1>1. \E level \in todo : \A k \in todo \ {level} : DiffedBefore(level, k)
  BY FirstExists DEF IsFirst
<1>. QED  BY <1>1 DEF NextLevel, IsFirst

----------------------------------------------------------------------------
(* One level compared with the book                                         *)

LEMMA BoundedHasMax ==
    ASSUME NEW n \in Nat, NEW T \in SUBSET (0..n), T # {}
    PROVE  Max(T) \in T /\ \A k \in T : k <= Max(T)
<1> DEFINE U == {n - k : k \in T}
<1>0. \A k \in T : k \in Nat /\ k <= n
  <2>1. \A k \in 0..n : k \in Nat /\ k <= n
    OBVIOUS
  <2>2. T \subseteq 0..n
    OBVIOUS
  <2>. QED  BY <2>1, <2>2
<1>1. U \in SUBSET Nat /\ U # {}
  <2>1. \A k \in T : n - k \in Nat
    BY <1>0
  <2>2. PICK k \in T : TRUE
    OBVIOUS
  <2>3. n - k \in U
    OBVIOUS
  <2>. QED  BY <2>1, <2>3
<1>2. PICK u \in U : \A v \in U : u <= v
  BY <1>1, NatHasMin
<1>3. PICK m \in T : u = n - m
  OBVIOUS
<1>4. \A k \in T : m >= k
  <2>1. \A k \in T : n - m <= n - k
    BY <1>2, <1>3
  <2>. QED  BY <1>0, <1>3, <2>1
<1>5. Max(T) \in T /\ \A k \in T : Max(T) >= k
  BY <1>4 DEF Max
<1>. QED  BY <1>0, <1>5

LEMMA KeptFacts ==
    ASSUME NEW old \in Seq(Nat \X Nat), NEW new \in Seq(Nat \X Nat)
    PROVE  /\ Kept(old, new) \in 0..Len(new)
           /\ \A i \in 1..Kept(old, new) : Id(new[i]) \in Ids(old)
           /\ \A i, j \in 1..Kept(old, new) :
                 i < j => Before(IdsIn(old), Id(new[i]), Id(new[j]))
<1>1. PICK n \in Nat : n = Len(new)
  OBVIOUS
<1> DEFINE place(id) == CHOOSE i \in DOMAIN old : Id(old[i]) = id
           InOld(k) == \A i \in 1..k : Id(new[i]) \in Ids(old)
           InOrder(k) == \A i, j \in 1..k :
                            i < j => place(Id(new[i])) < place(Id(new[j]))
           T == {k \in 0..n : InOld(k) /\ InOrder(k)}
<1>2. Kept(old, new) = Max(T)
  BY <1>1 DEF Kept
<1>3. T \in SUBSET (0..n) /\ 0 \in T
  OBVIOUS
<1>4. PICK k : k = Kept(old, new)
  OBVIOUS
<1>5. k \in T
  <2>. HIDE DEF T
  <2>. QED  BY <1>2, <1>3, <1>4, BoundedHasMax
<1>6. k \in 0..n /\ InOld(k) /\ InOrder(k)
  BY <1>5
<1>7. ASSUME NEW i \in 1..k
      PROVE  /\ place(Id(new[i])) \in DOMAIN old
             /\ Id(old[place(Id(new[i]))]) = Id(new[i])
  <2>1. \E j \in DOMAIN old : Id(old[j]) = Id(new[i])
    BY <1>6 DEF Ids
  <2>. QED  BY <2>1
<1>8. ASSUME NEW i \in 1..k, NEW j \in 1..k, i < j
      PROVE  Before(IdsIn(old), Id(new[i]), Id(new[j]))
  <2>1. place(Id(new[i])) < place(Id(new[j]))
    BY <1>6, <1>8
  <2>. HIDE DEF place
  <2>. QED  BY <1>7, <2>1 DEF Before, IdsIn
<1>. QED  BY <1>1, <1>4, <1>6, <1>8

LEMMA SameItems ==
    ASSUME NEW S, NEW p \in Seq(S), NEW q \in Seq(S), Len(p) = Len(q),
           \A i \in 1..Len(p) : p[i] = q[i]
    PROVE  p = q
OBVIOUS

\* A queue taken apart.
LEMMA SplitFacts ==
    ASSUME NEW S, NEW queue \in Seq(S), NEW k \in 0..Len(queue)
    PROVE  /\ SubSeq(queue, 1, k) \in Seq(S)
           /\ Len(SubSeq(queue, 1, k)) = k
           /\ \A i \in 1..k : SubSeq(queue, 1, k)[i] = queue[i]
           /\ SubSeq(queue, k + 1, Len(queue)) \in Seq(S)
           /\ SubSeq(queue, 1, k) \o SubSeq(queue, k + 1, Len(queue)) = queue
<1>1. PICK n \in Nat : n = Len(queue) /\ DOMAIN queue = 1..n
  OBVIOUS
<1>2. k \in Nat /\ k <= n /\ k + 1 \in Nat /\ n - k \in Nat
  BY <1>1
<1>3. PICK a, b : a = SubSeq(queue, 1, k) /\ b = SubSeq(queue, k + 1, n)
  OBVIOUS
<1>4. /\ a \in Seq(S)
      /\ Len(a) = k
      /\ \A i \in 1..k : a[i] = queue[i]
  BY <1>1, <1>2, <1>3
<1>5. /\ b \in Seq(S)
      /\ Len(b) = n - k
      /\ \A i \in 1..(n - k) : b[i] = queue[i + k]
  BY <1>1, <1>2, <1>3
<1>6. a \o b \in Seq(S) /\ Len(a \o b) = n
  <2>1. Len(a) + Len(b) = n
    BY <1>1, <1>2, <1>4, <1>5
  <2>2. Len(a \o b) = Len(a) + Len(b) /\ a \o b \in Seq(S)
    BY <1>4, <1>5
  <2>. QED  BY <2>1, <2>2
<1>7. ASSUME NEW i \in 1..n
      PROVE  (a \o b)[i] = queue[i]
  <2>1. CASE i <= k
    BY <1>2, <1>4, <1>5, <2>1
  <2>2. CASE ~(i <= k)
    <3>1. i - k \in 1..(n - k) /\ (i - k) + k = i
      BY <1>2, <2>2
    <3>2. (a \o b)[i] = b[i - k]
      BY <1>2, <1>4, <1>5, <2>2
    <3>. QED  BY <1>5, <3>1, <3>2
  <2>. QED  BY <2>1, <2>2
<1>8. a \o b = queue
  <2>1. PICK c \in Seq(S) : c = a \o b
    BY <1>6
  <2>2. Len(c) = Len(queue) /\ \A i \in 1..Len(c) : c[i] = queue[i]
    BY <1>1, <1>6, <1>7, <2>1
  <2>3. c = queue
    BY <2>2, SameItems
  <2>. QED  BY <2>1, <2>3
<1>. QED  BY <1>1, <1>3, <1>4, <1>5, <1>8

\* What stays, leaves and comes at a level.
OldAt(level) == QueueAt(l3, level)
KeptAt(level) == Kept(OldAt(level), LevelOrders(level))
KeepAt(level) == SubSeq(LevelOrders(level), 1, KeptAt(level))
ComeAt(level) ==
    SubSeq(LevelOrders(level), KeptAt(level) + 1, Len(LevelOrders(level)))
GoneAt(level) ==
    Only(OldAt(level),
         {entry \in ToSet(OldAt(level)) : Id(entry) \notin Ids(KeepAt(level))})

LEMMA ConcatIds ==
    ASSUME NEW a \in Seq(Nat \X Nat), NEW b \in Seq(Nat \X Nat)
    PROVE  Ids(a \o b) = Ids(a) \cup Ids(b)
<1>1. /\ a \o b \in Seq(Nat \X Nat)
      /\ ToSet(a \o b) = ToSet(a) \cup ToSet(b)
  BY ConcatFacts
<1>2. PICK c \in Seq(Nat \X Nat) : c = a \o b
  BY <1>1
<1>3. /\ Ids(c) = {Id(e) : e \in ToSet(c)}
      /\ Ids(a) = {Id(e) : e \in ToSet(a)}
      /\ Ids(b) = {Id(e) : e \in ToSet(b)}
  BY IdsFacts
<1>4. ToSet(c) = ToSet(a) \cup ToSet(b)
  BY <1>1, <1>2
<1>. QED  BY <1>2, <1>3, <1>4

LEMMA ConcatBefore ==
    ASSUME NEW S, NEW a \in Seq(S), NEW b \in Seq(S),
           NEW x \in ToSet(a), NEW y \in ToSet(b)
    PROVE  Before(a \o b, x, y)
<1>1. PICK m \in Nat, n \in Nat : m = Len(a) /\ n = Len(b)
  OBVIOUS
<1>2. PICK i \in 1..m, j \in 1..n : a[i] = x /\ b[j] = y
  BY <1>1 DEF ToSet
<1>3. PICK h \in Nat : h = m + j
  BY <1>2
<1>4. /\ i \in 1..(m + n)
      /\ h \in 1..(m + n)
      /\ ~(h <= m)
      /\ h - m = j
      /\ i < h
  BY <1>2, <1>3
<1>5. DOMAIN (a \o b) = 1..(m + n)
  BY <1>1
<1>6. (a \o b)[i] = a[i]
  BY <1>1, <1>2, <1>4
<1>7. (a \o b)[h] = b[h - m]
  BY <1>1, <1>2, <1>4
<1>. QED  BY <1>2, <1>4, <1>5, <1>6, <1>7 DEF Before

LEMMA LevelParts ==
    ASSUME BookInv, NEW r, L3Seeds(r), NEW level
    PROVE  /\ KeepAt(level) \in Seq(Nat \X Nat)
           /\ ComeAt(level) \in Seq(Nat \X Nat)
           /\ GoneAt(level) \in Seq(Nat \X Nat)
           /\ LevelOrders(level) = KeepAt(level) \o ComeAt(level)
           /\ Ids(OldAt(level)) = AtLevel(r, level)
           /\ Ids(KeepAt(level)) \subseteq AtLevel(r, level)
           /\ Ids(KeepAt(level)) \cup Ids(ComeAt(level))
                = AtLevel(resting, level)
           /\ Ids(KeepAt(level)) \cap Ids(ComeAt(level)) = {}
           /\ Ids(GoneAt(level)) = AtLevel(r, level) \ Ids(KeepAt(level))
           /\ \A x, y : Before(IdsIn(KeepAt(level)), x, y)
                           => Before(IdsIn(OldAt(level)), x, y)
<1>1. PICK old, new, k :
         /\ old = OldAt(level)
         /\ new = LevelOrders(level)
         /\ k = KeptAt(level)
  OBVIOUS
<1>2. /\ IsQueue(r, level, old)
      /\ IsQueue(resting, level, new)
  BY <1>1, OldQueue, NewQueue DEF OldAt
<1>3. /\ old \in Seq(Nat \X Nat)
      /\ new \in Seq(Nat \X Nat)
      /\ Ids(old) = AtLevel(r, level)
      /\ Ids(new) = AtLevel(resting, level)
  BY <1>2, QueueFacts
<1>4. /\ k \in 0..Len(new)
      /\ \A i \in 1..k : Id(new[i]) \in Ids(old)
      /\ \A i, j \in 1..k : i < j => Before(IdsIn(old), Id(new[i]), Id(new[j]))
  BY <1>1, <1>3, KeptFacts DEF KeptAt
<1>5. PICK keep, come : keep = KeepAt(level) /\ come = ComeAt(level)
  OBVIOUS
<1>6. /\ keep \in Seq(Nat \X Nat)
      /\ Len(keep) = k
      /\ \A i \in 1..k : keep[i] = new[i]
      /\ come \in Seq(Nat \X Nat)
      /\ keep \o come = new
  BY <1>1, <1>3, <1>4, <1>5, SplitFacts DEF KeepAt, ComeAt
<1>7. DOMAIN keep = 1..k
  BY <1>4, <1>6
<1>8. Ids(keep) \subseteq Ids(old)
  BY <1>4, <1>6, <1>7 DEF Ids
<1>9. Ids(keep) \cup Ids(come) = Ids(new)
  BY <1>6, ConcatIds
<1>10. Ids(keep) \cap Ids(come) = {}
  <2>. SUFFICES ASSUME NEW x \in Ids(keep), x \in Ids(come)
                PROVE  FALSE
    OBVIOUS
  <2>1. PICK d \in ToSet(keep), e \in ToSet(come) : Id(d) = x /\ Id(e) = x
    BY <1>6, IdsFacts
  <2>2. Before(new, d, e)
    BY <1>6, ConcatBefore
  <2>6. Before(IdsIn(new), x, x)
    BY <1>3, <2>1, <2>2, IdsFacts
  <2>. QED  BY <1>2, <2>6 DEF IsQueue
<1>11. PICK gone : gone = GoneAt(level)
  OBVIOUS
<1>12. /\ gone \in Seq(Nat \X Nat)
       /\ ToSet(gone) = {e \in ToSet(old) : Id(e) \notin Ids(keep)}
  <2>1. gone = Only(old, {e \in ToSet(old) : Id(e) \notin Ids(keep)})
    BY <1>1, <1>5, <1>11 DEF GoneAt
  <2>2. /\ gone \in Seq(Nat \X Nat)
        /\ ToSet(gone) = ToSet(old)
              \cap {e \in ToSet(old) : Id(e) \notin Ids(keep)}
    BY <1>3, <2>1, OnlyFacts
  <2>. QED  BY <2>2
<1>13. Ids(gone) = Ids(old) \ Ids(keep)
  <2>1. /\ Ids(gone) = {Id(e) : e \in ToSet(gone)}
        /\ Ids(old) = {Id(e) : e \in ToSet(old)}
    BY <1>3, <1>12, IdsFacts
  <2>. QED  BY <1>12, <2>1
<1>14. ASSUME NEW x, NEW y, Before(IdsIn(keep), x, y)
       PROVE  Before(IdsIn(old), x, y)
  <2>1. PICK i \in 1..k, j \in 1..k :
           i < j /\ Id(keep[i]) = x /\ Id(keep[j]) = y
    BY <1>7, <1>14 DEF Before, IdsIn
  <2>. QED  BY <1>4, <1>6, <2>1
<1>. QED  BY <1>1, <1>3, <1>5, <1>6, <1>8, <1>9, <1>10, <1>11, <1>12, <1>13,
             <1>14

----------------------------------------------------------------------------
(* All touched levels, one after the other                                  *)

\* Where the feed looks for an order when the levels of done are compared.
LocAfter(done, id) ==
    IF id \in DOMAIN resting /\ LevelOf(id) \in done THEN {LevelOf(id)}
    ELSE OldLevel(loc, id) \ done

DiffedTo(touched, feed) ==
    /\ feed.todo \subseteq touched
    /\ \A k \in touched \ feed.todo : \A l \in feed.todo : DiffedBefore(k, l)
    /\ IsFcn(feed.l3)
    /\ \A level :
          /\ level \in touched \ feed.todo =>
                /\ level \in DOMAIN feed.l3 <=> level \in Levels
                /\ QueueAt(feed.l3, level) = LevelOrders(level)
          /\ level \notin touched \ feed.todo =>
                /\ level \in DOMAIN feed.l3 <=> level \in DOMAIN l3
                /\ QueueAt(feed.l3, level) = OldAt(level)
    /\ IsFcn(feed.loc)
    /\ \A id : OldLevel(feed.loc, id) = LocAfter(touched \ feed.todo, id)

\* What the feed holds before any level is compared.
Undiffed(touched) ==
    [todo |-> touched, l3 |-> l3, loc |-> loc,
     removed |-> <<>>, reduced |-> <<>>, added |-> <<>>]

LEMMA UndiffedFacts ==
    ASSUME NEW r, L3Seeds(r), NEW touched
    PROVE  DiffedTo(touched, Undiffed(touched))
<1>1. /\ Undiffed(touched).todo = touched
      /\ Undiffed(touched).l3 = l3
      /\ Undiffed(touched).loc = loc
  BY DEF Undiffed
<1>2. touched \ touched = {}
  OBVIOUS
<1>3. IsFcn(l3) /\ IsFcn(loc)
  BY DEF L3Seeds, IsFcn
<1>4. \A id : OldLevel(loc, id) = LocAfter({}, id)
  BY DEF LocAfter
<1>. QED  BY <1>1, <1>2, <1>3, <1>4 DEF DiffedTo, OldAt

LEMMA DiffedLevel ==
    ASSUME NEW feed, NEW level, QueueAt(feed.l3, level) = OldAt(level)
    PROVE  /\ DiffLevel(feed, level).todo = feed.todo \ {level}
           /\ DiffLevel(feed, level).l3 =
                 IF LevelOrders(level) = <<>> THEN Drop(feed.l3, level)
                 ELSE Put(feed.l3, level, LevelOrders(level))
           /\ DiffLevel(feed, level).loc =
                 Relocated(feed.loc, Ids(GoneAt(level)), Ids(ComeAt(level)),
                           level)
           /\ DiffLevel(feed, level).removed = feed.removed \o GoneAt(level)
           /\ DiffLevel(feed, level).reduced =
                 feed.reduced \o Only(KeepAt(level), ToSet(KeepAt(level))
                                                       \ ToSet(OldAt(level)))
           /\ DiffLevel(feed, level).added =
                 feed.added \o [i \in DOMAIN ComeAt(level) |->
                                   [level |-> level,
                                    entry |-> ComeAt(level)[i]]]
<1>1. PICK old : old = IF level \in DOMAIN feed.l3 THEN feed.l3[level]
                       ELSE <<>>
  OBVIOUS
<1>2. old = OldAt(level)
  BY <1>1 DEF QueueAt
<1>. QED  BY <1>1, <1>2 DEF DiffLevel, GoneAt, KeepAt, ComeAt, KeptAt

LEMMA RelocatedFacts ==
    ASSUME NEW locs, NEW gone, NEW come, NEW level
    PROVE  /\ IsFcn(Relocated(locs, gone, come, level))
           /\ \A id : OldLevel(Relocated(locs, gone, come, level), id) =
                         IF id \in come THEN {level}
                         ELSE IF id \in gone THEN {}
                         ELSE OldLevel(locs, id)
<1>1. PICK f : f = Relocated(locs, gone, come, level)
  OBVIOUS
<1>2. f = [id \in (DOMAIN locs \ gone) \cup come |->
              IF id \in come THEN level ELSE locs[id]]
  BY <1>1 DEF Relocated
<1>3. DOMAIN f = (DOMAIN locs \ gone) \cup come
  BY <1>2
<1>4. \A id \in DOMAIN f : f[id] = IF id \in come THEN level ELSE locs[id]
  BY <1>2, <1>3
<1>5. IsFcn(f)
  BY <1>2 DEF IsFcn
<1>6. \A id : OldLevel(f, id) = IF id \in come THEN {level}
                                ELSE IF id \in gone THEN {}
                                ELSE OldLevel(locs, id)
  BY <1>3, <1>4 DEF OldLevel
<1>. QED  BY <1>1, <1>5, <1>6

\* An order that is not where it was is not at a level that comes earlier.
LEMMA LeavesEarlier ==
    ASSUME BookInv, NEW r, L3Seeds(r), NotAdvanced(r),
           NEW id \in DOMAIN r, id \in DOMAIN resting
    PROVE  /\ OldLevel(loc, id) = {Where(r, id)}
           /\ Where(r, id) \in Sides \X Nat
           /\ LevelOf(id) \in Sides \X Nat
           /\ ~DiffedBefore(LevelOf(id), Where(r, id))
<1>1. OldLevel(loc, id) = {Where(r, id)}
  BY DEF OldLevel, L3Seeds
<1>2. r[id].side \in Sides /\ r[id].price \in Nat
  BY DEF NotAdvanced
<1>3. resting[id].side \in Sides /\ resting[id].price \in Nat
  BY OrderFacts, LevelFacts
<1>4. Behind(r, id, resting[id].side, resting[id].price)
  BY DEF NotAdvanced
<1>5. ~DiffedBefore(LevelOf(id), Where(r, id))
  <2>1. /\ LevelOf(id)[1] = resting[id].side
        /\ LevelOf(id)[2] = resting[id].price
        /\ Where(r, id)[1] = r[id].side
        /\ Where(r, id)[2] = r[id].price
    BY DEF LevelOf, Where
  <2>. QED  BY <1>2, <1>3, <1>4, <2>1
            DEF DiffedBefore, Behind, Better, Sides
<1>. QED  BY <1>1, <1>2, <1>3, <1>5 DEF LevelOf, Where

LEMMA DiffedLocations ==
    ASSUME BookInv, NEW r, L3Seeds(r), NotAdvanced(r),
           NEW done, NEW level \in Sides \X Nat, level \notin done,
           \A k \in done : DiffedBefore(k, level),
           NEW id, NEW locs, OldLevel(locs, id) = LocAfter(done, id)
    PROVE  OldLevel(Relocated(locs, Ids(GoneAt(level)), Ids(ComeAt(level)),
                              level), id)
             = LocAfter(done \cup {level}, id)
<1>1. PICK keep, come, gone : /\ keep = Ids(KeepAt(level))
                              /\ come = Ids(ComeAt(level))
                              /\ gone = Ids(GoneAt(level))
  OBVIOUS
<1>2. /\ keep \subseteq AtLevel(r, level)
      /\ keep \cup come = AtLevel(resting, level)
      /\ keep \cap come = {}
      /\ gone = AtLevel(r, level) \ keep
  BY <1>1, LevelParts
<1>3. /\ id \in AtLevel(r, level) <=> OldLevel(loc, id) = {level}
      /\ OldLevel(loc, id) = {} \/ \E k : OldLevel(loc, id) = {k}
  BY DEF OldLevel, L3Seeds, AtLevel
<1>4. id \in AtLevel(resting, level)
         <=> id \in DOMAIN resting /\ LevelOf(id) = level
  BY DEF AtLevel, LevelOf, Where
<1>5. OldLevel(Relocated(locs, gone, come, level), id) =
         IF id \in come THEN {level}
         ELSE IF id \in gone THEN {}
         ELSE LocAfter(done, id)
  BY RelocatedFacts
<1>6. CASE id \in come
  BY <1>2, <1>4, <1>5, <1>6, <1>1 DEF LocAfter
<1>7. CASE id \in gone /\ id \notin come
  <2>1. OldLevel(loc, id) = {level} /\ id \in DOMAIN r /\ Where(r, id) = level
    BY <1>2, <1>3, <1>7 DEF AtLevel
  <2>2. ~(id \in DOMAIN resting /\ LevelOf(id) = level)
    BY <1>2, <1>4, <1>7
  <2>3. ~(id \in DOMAIN resting /\ LevelOf(id) \in done)
    BY <2>1, LeavesEarlier
  <2>. QED  BY <1>1, <1>5, <1>7, <2>1, <2>2, <2>3 DEF LocAfter
<1>8. CASE id \in keep
  <2>1. OldLevel(loc, id) = {level} /\ id \in DOMAIN resting
        /\ LevelOf(id) = level
    BY <1>2, <1>3, <1>4, <1>8
  <2>. QED  BY <1>1, <1>2, <1>5, <1>8, <2>1 DEF LocAfter
<1>9. CASE id \notin keep \cup gone \cup come
  <2>1. OldLevel(loc, id) # {level}
    BY <1>2, <1>3, <1>9
  <2>2. ~(id \in DOMAIN resting /\ LevelOf(id) = level)
    BY <1>2, <1>4, <1>9
  <2>3. OldLevel(loc, id) \ (done \cup {level}) = OldLevel(loc, id) \ done
    BY <1>3, <2>1
  <2>. QED  BY <1>1, <1>5, <1>9, <2>2, <2>3 DEF LocAfter
<1>. QED  BY <1>6, <1>7, <1>8, <1>9

LEMMA DiffStep ==
    ASSUME BookInv, NEW r, L3Seeds(r), NotAdvanced(r),
           NEW touched \in SUBSET (Sides \X Nat), NEW feed,
           DiffedTo(touched, feed), NEW level, IsFirst(level, feed.todo)
    PROVE  DiffedTo(touched, DiffLevel(feed, level))
<1>1. PICK done : done = touched \ feed.todo
  OBVIOUS
<1>2. PICK next : next = DiffLevel(feed, level)
  OBVIOUS
<1>3. /\ level \in feed.todo
      /\ level \in touched
      /\ level \notin done
      /\ level \in Sides \X Nat
      /\ feed.todo \subseteq touched
  BY <1>1 DEF IsFirst, DiffedTo
<1>4. QueueAt(feed.l3, level) = OldAt(level)
  BY <1>1, <1>3 DEF DiffedTo
<1>5. /\ next.todo = feed.todo \ {level}
      /\ next.l3 = IF LevelOrders(level) = <<>> THEN Drop(feed.l3, level)
                   ELSE Put(feed.l3, level, LevelOrders(level))
      /\ next.loc = Relocated(feed.loc, Ids(GoneAt(level)),
                              Ids(ComeAt(level)), level)
  BY <1>2, <1>4, DiffedLevel
<1>6. touched \ next.todo = done \cup {level}
  BY <1>1, <1>3, <1>5
<1>7. \A k \in done \cup {level} : \A l \in next.todo : DiffedBefore(k, l)
  BY <1>1, <1>5 DEF DiffedTo, IsFirst
<1>8. /\ IsFcn(next.l3)
      /\ level \in DOMAIN next.l3 <=> level \in Levels
      /\ QueueAt(next.l3, level) = LevelOrders(level)
      /\ \A k : k # level =>
            /\ k \in DOMAIN next.l3 <=> k \in DOMAIN feed.l3
            /\ QueueAt(next.l3, k) = QueueAt(feed.l3, k)
  <2>1. LevelOrders(level) = <<>> <=> level \notin Levels
    BY NewQueue
  <2>2. PICK queue, f, h : /\ queue = LevelOrders(level)
                           /\ f = feed.l3
                           /\ h = next.l3
    OBVIOUS
  <2>3. IsFcn(f)
    BY <2>2 DEF DiffedTo
  <2>4. /\ IsFcn(h)
        /\ DOMAIN h = IF queue = <<>> THEN DOMAIN f \ {level}
                      ELSE DOMAIN f \cup {level}
        /\ queue # <<>> => h[level] = queue
        /\ \A k \in DOMAIN f \ {level} : h[k] = f[k]
    <3>1. CASE queue = <<>>
      <4>1. h = Drop(f, level)
        BY <1>5, <2>2, <3>1
      <4>2. /\ DOMAIN h = DOMAIN f \ {level}
            /\ \A k \in DOMAIN f \ {level} : h[k] = f[k]
        BY <2>3, <4>1, DropFacts
      <4>. QED  BY <3>1, <4>1, <4>2, PutDropFcn
    <3>2. CASE queue # <<>>
      <4>1. h = Put(f, level, queue)
        BY <1>5, <2>2, <3>2
      <4>2. /\ DOMAIN h = DOMAIN f \cup {level}
            /\ h[level] = queue
            /\ \A k \in DOMAIN f \ {level} : h[k] = f[k]
        <5>1. /\ DOMAIN Put(f, level, queue) = DOMAIN f \cup {level}
              /\ Put(f, level, queue)[level] = queue
              /\ \A k \in DOMAIN f \ {level} :
                    Put(f, level, queue)[k] = f[k]
          BY PutFacts
        <5>. QED  BY <4>1, <5>1
      <4>. QED  BY <3>2, <4>1, <4>2, PutDropFcn
    <3>. QED  BY <3>1, <3>2
  <2>5. /\ level \in DOMAIN h <=> level \in Levels
        /\ QueueAt(h, level) = queue
    BY <2>1, <2>2, <2>4 DEF QueueAt
  <2>6. ASSUME NEW k, k # level
        PROVE  /\ k \in DOMAIN h <=> k \in DOMAIN f
               /\ QueueAt(h, k) = QueueAt(f, k)
    <3>1. k \in DOMAIN h <=> k \in DOMAIN f
      BY <2>4, <2>6
    <3>2. k \in DOMAIN f => h[k] = f[k]
      BY <2>4, <2>6
    <3>. QED  BY <3>1, <3>2 DEF QueueAt
  <2>. QED  BY <2>2, <2>4, <2>5, <2>6
<1>9. ASSUME NEW k
      PROVE  /\ k \in done \cup {level} =>
                   /\ k \in DOMAIN next.l3 <=> k \in Levels
                   /\ QueueAt(next.l3, k) = LevelOrders(k)
             /\ k \notin done \cup {level} =>
                   /\ k \in DOMAIN next.l3 <=> k \in DOMAIN l3
                   /\ QueueAt(next.l3, k) = OldAt(k)
  <2>1. CASE k = level
    BY <1>8, <2>1
  <2>2. CASE k # level
    <3>1. /\ k \in done =>
                /\ k \in DOMAIN feed.l3 <=> k \in Levels
                /\ QueueAt(feed.l3, k) = LevelOrders(k)
          /\ k \notin done =>
                /\ k \in DOMAIN feed.l3 <=> k \in DOMAIN l3
                /\ QueueAt(feed.l3, k) = OldAt(k)
      BY <1>1 DEF DiffedTo
    <3>2. /\ k \in DOMAIN next.l3 <=> k \in DOMAIN feed.l3
          /\ QueueAt(next.l3, k) = QueueAt(feed.l3, k)
      BY <1>8, <2>2
    <3>. QED  BY <2>2, <3>1, <3>2
  <2>. QED  BY <2>1, <2>2
<1>10. IsFcn(next.loc)
  BY <1>5, RelocatedFacts
<1>11. \A id : OldLevel(next.loc, id) = LocAfter(done \cup {level}, id)
  <2>1. \A id : OldLevel(feed.loc, id) = LocAfter(done, id)
    BY <1>1 DEF DiffedTo
  <2>2. \A k \in done : DiffedBefore(k, level)
    BY <1>1, <1>3 DEF DiffedTo
  <2>. QED  BY <1>3, <1>5, <2>1, <2>2, DiffedLocations
<1>12. next.todo \subseteq touched
  BY <1>3, <1>5
<1>13. DiffedTo(touched, next)
  BY <1>6, <1>7, <1>8, <1>9, <1>10, <1>11, <1>12 DEF DiffedTo
<1>. QED  BY <1>2, <1>13

\* What L3Diffed builds, level after level.
DiffNext(feed) == DiffLevel(feed, NextLevel(feed.todo))

IsDiffing(touched, n, g) ==
    g = [i \in 0..n |-> IF i = 0 THEN Undiffed(touched)
                        ELSE DiffNext(g[i - 1])]

LEMMA DiffingSteps ==
    \A touched, g : \A n \in Nat :
        IsDiffing(touched, n, g) =>
            /\ g[0] = Undiffed(touched)
            /\ \A i \in 1..n : g[i] = DiffNext(g[i - 1])
BY DEF IsDiffing

LEMMA DiffingExists ==
    ASSUME NEW touched, NEW n \in Nat
    PROVE  \E g : IsDiffing(touched, n, g)
<1> DEFINE Lengths == {k \in Nat : \E g : IsDiffing(touched, k, g)}
           start == Undiffed(touched)
<1>1. 0 \in Lengths
  <2> DEFINE g == [i \in 0..0 |-> start]
  <2>1. g = [i \in 0..0 |-> IF i = 0 THEN start ELSE DiffNext(g[i - 1])]
    OBVIOUS
  <2>. HIDE DEF g
  <2>. QED  BY <2>1 DEF IsDiffing
<1>2. ASSUME NEW k \in Nat, k \in Lengths
      PROVE  k + 1 \in Lengths
  <2>1. PICK g : IsDiffing(touched, k, g)
    BY <1>2
  <2>2. /\ g[0] = start
        /\ \A i \in 1..k : g[i] = DiffNext(g[i - 1])
    BY <2>1, DiffingSteps
  <2> DEFINE last == DiffNext(g[k])
             h == [i \in 0..(k + 1) |-> IF i = k + 1 THEN last ELSE g[i]]
  <2>3. \A i \in 0..k : h[i] = g[i]
    OBVIOUS
  <2>4. h[k + 1] = DiffNext(h[k])
    <3>1. k \in 0..k /\ h[k + 1] = last
      OBVIOUS
    <3>. QED  BY <2>3, <3>1
  <2>5. h = [i \in 0..(k + 1) |-> h[i]]
    OBVIOUS
  <2>. HIDE DEF h, start
  <2>6. ASSUME NEW i \in 0..(k + 1)
        PROVE  h[i] = IF i = 0 THEN start ELSE DiffNext(h[i - 1])
    <3>1. CASE i = 0
      BY <2>2, <2>3, <3>1
    <3>2. CASE i = k + 1
      <4>1. i # 0 /\ i - 1 = k
        BY <3>2
      <4>. QED  BY <2>4, <3>2, <4>1
    <3>3. CASE i \in 1..k
      <4>1. i \in 0..k /\ i - 1 \in 0..k /\ i # 0
        BY <3>3
      <4>. QED  BY <2>2, <2>3, <3>3, <4>1
    <3>. QED  BY <3>1, <3>2, <3>3
  <2>7. IsDiffing(touched, k + 1, h)
    BY <2>5, <2>6 DEF IsDiffing, start
  <2>. QED  BY <2>7
<1>. HIDE DEF Lengths
<1>3. n \in Lengths
  BY <1>1, <1>2, NatInductive
<1>. QED  BY <1>3 DEF Lengths

LEMMA DiffedIsDiffing ==
    ASSUME NEW touched, Cardinality(touched) \in Nat
    PROVE  \E g : /\ IsDiffing(touched, Cardinality(touched), g)
                  /\ L3Diffed(touched) = g[Cardinality(touched)]
<1> DEFINE g == CHOOSE x : IsDiffing(touched, Cardinality(touched), x)
<1>1. IsDiffing(touched, Cardinality(touched), g)
  BY DiffingExists
<1>2. L3Diffed(touched) = g[Cardinality(touched)]
  BY DEF L3Diffed, IsDiffing, Undiffed, DiffNext
<1>. QED  BY <1>1, <1>2

----------------------------------------------------------------------------
(* The deltas of the levels that are done                                   *)

Addition == [level : Sides \X Nat, entry : Nat \X Nat]

AddsAt(level) == [i \in DOMAIN ComeAt(level) |->
                     [level |-> level, entry |-> ComeAt(level)[i]]]
ReducesAt(level) == ToSet(KeepAt(level)) \ ToSet(OldAt(level))

Tells(done, feed) ==
    /\ feed.removed \in Seq(Nat \X Nat)
    /\ feed.reduced \in Seq(Nat \X Nat)
    /\ feed.added \in Seq(Addition)
    /\ \A id : id \in Ids(feed.removed)
                  <=> \E level \in done : id \in Ids(GoneAt(level))
    /\ \A e : e \in ToSet(feed.reduced)
                 <=> \E level \in done : e \in ReducesAt(level)
    /\ \A a \in Addition :
          a \in ToSet(feed.added)
             <=> a.level \in done /\ a.entry \in ToSet(ComeAt(a.level))
    /\ \A a, b \in Addition :
          a.level = b.level /\ Before(feed.added, a, b)
             => Before(ComeAt(a.level), a.entry, b.entry)

LEMMA AddsFacts ==
    ASSUME NEW level \in Sides \X Nat, ComeAt(level) \in Seq(Nat \X Nat)
    PROVE  /\ AddsAt(level) \in Seq(Addition)
           /\ \A a \in Addition :
                 a \in ToSet(AddsAt(level))
                    <=> a.level = level /\ a.entry \in ToSet(ComeAt(level))
           /\ \A a, b \in Addition :
                 Before(AddsAt(level), a, b)
                    => Before(ComeAt(level), a.entry, b.entry)
<1>1. PICK come \in Seq(Nat \X Nat) : come = ComeAt(level)
  OBVIOUS
<1>2. PICK n \in Nat : n = Len(come) /\ DOMAIN come = 1..n
  OBVIOUS
<1>3. \A i \in 1..n : come[i] \in Nat \X Nat
  BY <1>2
<1>4. PICK adds : adds = [i \in 1..n |-> [level |-> level, entry |-> come[i]]]
  OBVIOUS
<1>5. adds = AddsAt(level)
  BY <1>1, <1>2, <1>4 DEF AddsAt
<1>6. /\ DOMAIN adds = 1..n
      /\ \A i \in 1..n : /\ adds[i] = [level |-> level, entry |-> come[i]]
                         /\ adds[i] \in Addition
                         /\ adds[i].level = level
                         /\ adds[i].entry = come[i]
  BY <1>3, <1>4 DEF Addition
<1>7. adds \in Seq(Addition)
  BY <1>4, <1>6
<1>8. ASSUME NEW a \in Addition
      PROVE  a \in ToSet(adds)
                <=> a.level = level /\ a.entry \in ToSet(come)
  <2>1. a = [level |-> a.level, entry |-> a.entry]
    BY DEF Addition
  <2>2. a \in ToSet(adds) <=> \E i \in 1..n : adds[i] = a
    BY <1>6 DEF ToSet
  <2>3. a.entry \in ToSet(come) <=> \E i \in 1..n : come[i] = a.entry
    BY <1>2 DEF ToSet
  <2>. QED  BY <1>6, <2>1, <2>2, <2>3
<1>9. ASSUME NEW a \in Addition, NEW b \in Addition, Before(adds, a, b)
      PROVE  Before(come, a.entry, b.entry)
  <2>1. PICK i \in 1..n, j \in 1..n : i < j /\ adds[i] = a /\ adds[j] = b
    BY <1>6, <1>9 DEF Before
  <2>2. come[i] = a.entry /\ come[j] = b.entry
    BY <1>6, <2>1
  <2>. QED  BY <1>2, <2>1, <2>2 DEF Before
<1>. QED  BY <1>1, <1>5, <1>7, <1>8, <1>9

LEMMA TellsNothing ==
    ASSUME NEW touched
    PROVE  Tells({}, Undiffed(touched))
<1>1. /\ Undiffed(touched).removed = <<>>
      /\ Undiffed(touched).reduced = <<>>
      /\ Undiffed(touched).added = <<>>
  BY DEF Undiffed
<1>2. Ids(<<>>) = {} /\ ToSet(<<>>) = {} /\ \A x, y : ~Before(<<>>, x, y)
  BY DEF Ids, ToSet, Before
<1>. QED  BY <1>1, <1>2 DEF Tells

LEMMA TellsNext ==
    ASSUME BookInv, NEW r, L3Seeds(r), NEW done, NEW feed, Tells(done, feed),
           NEW level \in Sides \X Nat, level \notin done,
           QueueAt(feed.l3, level) = OldAt(level)
    PROVE  Tells(done \cup {level}, DiffLevel(feed, level))
<1>1. PICK removed \in Seq(Nat \X Nat), reduced \in Seq(Nat \X Nat),
           added \in Seq(Addition) :
         /\ removed = feed.removed
         /\ reduced = feed.reduced
         /\ added = feed.added
  BY DEF Tells
<1>2. PICK gone \in Seq(Nat \X Nat) : gone = GoneAt(level)
  BY LevelParts
<1>3. PICK keep \in Seq(Nat \X Nat) : keep = KeepAt(level)
  BY LevelParts
<1>4. PICK less : less = Only(keep, ReducesAt(level))
  OBVIOUS
<1>5. less \in Seq(Nat \X Nat) /\ ToSet(less) = ReducesAt(level)
  <2>1. /\ less \in Seq(Nat \X Nat)
        /\ ToSet(less) = ToSet(keep) \cap ReducesAt(level)
    BY <1>4, OnlyFacts
  <2>. QED  BY <1>3, <2>1 DEF ReducesAt
<1>6. PICK adds \in Seq(Addition) : adds = AddsAt(level)
  BY LevelParts, AddsFacts
<1>7. PICK next : next = DiffLevel(feed, level)
  OBVIOUS
<1>8. /\ next.removed = removed \o gone
      /\ next.reduced = reduced \o less
      /\ next.added = added \o adds
  BY <1>1, <1>2, <1>3, <1>4, <1>6, <1>7, DiffedLevel DEF AddsAt, ReducesAt
<1>9. /\ next.removed \in Seq(Nat \X Nat)
      /\ Ids(next.removed) = Ids(removed) \cup Ids(gone)
  BY <1>8, ConcatIds
<1>10. \A id : id \in Ids(next.removed)
                  <=> \E l \in done \cup {level} : id \in Ids(GoneAt(l))
  BY <1>1, <1>2, <1>9 DEF Tells
<1>11. /\ next.reduced \in Seq(Nat \X Nat)
       /\ ToSet(next.reduced) = ToSet(reduced) \cup ToSet(less)
  BY <1>5, <1>8, ConcatFacts
<1>12. \A e : e \in ToSet(next.reduced)
                 <=> \E l \in done \cup {level} : e \in ReducesAt(l)
  BY <1>1, <1>5, <1>11 DEF Tells
<1>13. /\ next.added \in Seq(Addition)
       /\ ToSet(next.added) = ToSet(added) \cup ToSet(adds)
       /\ \A x, y : Before(next.added, x, y) =>
             \/ Before(added, x, y)
             \/ Before(adds, x, y)
             \/ x \in ToSet(added) /\ y \in ToSet(adds)
  BY <1>8, ConcatFacts
<1>14. ComeAt(level) \in Seq(Nat \X Nat)
  BY LevelParts
<1>15. /\ \A a \in Addition :
             a \in ToSet(adds)
                <=> a.level = level /\ a.entry \in ToSet(ComeAt(level))
       /\ \A a, b \in Addition :
             Before(adds, a, b) => Before(ComeAt(level), a.entry, b.entry)
  BY <1>6, <1>14, AddsFacts
<1>16. \A a \in Addition :
          a \in ToSet(added)
             <=> a.level \in done /\ a.entry \in ToSet(ComeAt(a.level))
  BY <1>1 DEF Tells
<1>17. \A a \in Addition :
          a \in ToSet(next.added)
             <=> /\ a.level \in done \cup {level}
                 /\ a.entry \in ToSet(ComeAt(a.level))
  BY <1>13, <1>15, <1>16
<1>18. ASSUME NEW a \in Addition, NEW b \in Addition, a.level = b.level,
              Before(next.added, a, b)
       PROVE  Before(ComeAt(a.level), a.entry, b.entry)
  <2>1. CASE Before(added, a, b)
    BY <1>1, <1>18, <2>1 DEF Tells
  <2>2. CASE Before(adds, a, b)
    <3>1. a \in ToSet(adds)
      BY <2>2 DEF Before, ToSet
    <3>. QED  BY <1>15, <2>2, <3>1
  <2>3. CASE a \in ToSet(added) /\ b \in ToSet(adds)
    BY <1>15, <1>16, <1>18, <2>3
  <2>. QED  BY <1>13, <1>18, <2>1, <2>2, <2>3
<1>19. Tells(done \cup {level}, next)
  BY <1>9, <1>10, <1>11, <1>12, <1>13, <1>17, <1>18 DEF Tells
<1>. QED  BY <1>7, <1>19

LEMMA AllDiffed ==
    ASSUME BookInv, NEW r, L3Seeds(r), NotAdvanced(r),
           NEW touched \in SUBSET (Sides \X Nat), IsFiniteSet(touched)
    PROVE  /\ L3Diffed(touched).todo = {}
           /\ DiffedTo(touched, L3Diffed(touched))
           /\ Tells(touched, L3Diffed(touched))
<1>1. PICK n \in Nat : n = Cardinality(touched)
  BY FS_CardinalityType
<1>2. PICK g : IsDiffing(touched, n, g) /\ L3Diffed(touched) = g[n]
  BY <1>1, DiffedIsDiffing
<1>3. /\ g[0] = Undiffed(touched)
      /\ \A i \in 1..n : g[i] = DiffNext(g[i - 1])
  BY <1>2, DiffingSteps
<1> DEFINE Good(k) == /\ DiffedTo(touched, g[k])
                      /\ Tells(touched \ g[k].todo, g[k])
                      /\ Cardinality(g[k].todo) = n - k
           Places == {k \in Nat : k <= n => Good(k)}
<1>4. 0 \in Places
  <2>1. g[0].todo = touched
    BY <1>3 DEF Undiffed
  <2>2. touched \ g[0].todo = {}
    BY <2>1
  <2>3. Tells({}, g[0])
    BY <1>3, TellsNothing
  <2>. QED  BY <1>1, <1>3, <2>1, <2>2, <2>3, UndiffedFacts
<1>5. ASSUME NEW k \in Nat, k \in Places
      PROVE  k + 1 \in Places
  <2>. SUFFICES ASSUME k + 1 <= n
                PROVE  Good(k + 1)
    OBVIOUS
  <2>1. PICK feed : feed = g[k]
    OBVIOUS
  <2>2. /\ DiffedTo(touched, feed)
        /\ Tells(touched \ feed.todo, feed)
        /\ Cardinality(feed.todo) = n - k
    BY <1>5, <2>1
  <2>3. feed.todo \in SUBSET touched
    BY <2>2 DEF DiffedTo
  <2>4. IsFiniteSet(feed.todo)
    BY <2>3, FS_Subset
  <2>5. feed.todo # {}
    BY <2>2, FS_EmptySet
  <2>6. PICK level : level = NextLevel(feed.todo)
    OBVIOUS
  <2>7. IsFirst(level, feed.todo)
    BY <2>3, <2>4, <2>5, <2>6, NextIsFirst
  <2>8. g[k + 1] = DiffLevel(feed, level)
    <3>1. k + 1 \in 1..n /\ (k + 1) - 1 = k
      OBVIOUS
    <3>. QED  BY <1>3, <2>1, <2>6, <3>1 DEF DiffNext
  <2>9. DiffedTo(touched, g[k + 1])
    BY <2>2, <2>7, <2>8, DiffStep
  <2>10. /\ g[k + 1].todo = feed.todo \ {level}
         /\ Tells(touched \ g[k + 1].todo, g[k + 1])
    <3>1. QueueAt(feed.l3, level) = OldAt(level)
      BY <2>2, <2>7 DEF DiffedTo, IsFirst
    <3>2. g[k + 1].todo = feed.todo \ {level}
      BY <2>8, <3>1, DiffedLevel
    <3>3. PICK done : done = touched \ feed.todo
      OBVIOUS
    <3>4. /\ level \in Sides \X Nat
          /\ level \notin done
          /\ touched \ g[k + 1].todo = done \cup {level}
      BY <2>3, <2>7, <3>2, <3>3 DEF IsFirst
    <3>5. Tells(done \cup {level}, g[k + 1])
      BY <2>2, <2>8, <3>1, <3>3, <3>4, TellsNext
    <3>. QED  BY <3>2, <3>4, <3>5
  <2>11. Cardinality(feed.todo \ {level}) = Cardinality(feed.todo) - 1
    <3>1. PICK todo : todo = feed.todo
      OBVIOUS
    <3>2. IsFiniteSet(todo) /\ level \in todo
      BY <2>4, <2>7, <3>1 DEF IsFirst
    <3>3. Cardinality(todo \ {level}) = Cardinality(todo) - 1
      BY <3>2, FS_RemoveElement
    <3>. QED  BY <3>1, <3>3
  <2>12. Cardinality(g[k + 1].todo) = n - (k + 1)
    BY <2>2, <2>10, <2>11
  <2>. QED  BY <2>9, <2>10, <2>12
<1>6. n \in Places
  <2>. HIDE DEF Places
  <2>. QED  BY <1>4, <1>5, NatInductive
<1>7. Good(n)
  BY <1>6
<1>8. g[n].todo = {}
  <2>1. g[n].todo \in SUBSET touched
    BY <1>7 DEF DiffedTo
  <2>2. IsFiniteSet(g[n].todo) /\ Cardinality(g[n].todo) = 0
    BY <1>7, <2>1, FS_Subset
  <2>. QED  BY <2>2, FS_EmptySet
<1>9. touched \ g[n].todo = touched
  BY <1>8
<1>. QED  BY <1>2, <1>7, <1>8, <1>9

----------------------------------------------------------------------------
(* The invariant of the L3 feed                                             *)

L3Follows(r) ==
    /\ Seeds(r)
    /\ FollowsAll(r)
    /\ L3Seeds(r)
    /\ PlacesKnown(r)
    /\ NotAdvanced(r)

L3Inv == CallFacts /\ \E r : L3Follows(r)

\* What the feed makes of the events of a call is the book.
LEMMA L3Settled ==
    ASSUME Inv, CallFacts, phase # "match", NEW r, L3Follows(r)
    PROVE  /\ L3Diffed(TouchedBy(News)).l3 = L3FromBook
           /\ L3Diffed(TouchedBy(News)).loc = LocFromBook
<1>1. PICK T : T = TouchedBy(News)
  OBVIOUS
<1>2. PICK feed : feed = L3Diffed(T)
  OBVIOUS
<1>3. /\ BookInv
      /\ Seeds(r)
      /\ FollowsAll(r)
      /\ L3Seeds(r)
      /\ PlacesKnown(r)
      /\ NotAdvanced(r)
      /\ loc = order_loc
  BY DEF Inv, L3Follows, Seeds, L3Seeds
<1>4. T \in SUBSET (Sides \X Nat) /\ IsFiniteSet(T)
  BY <1>1, <1>3, NewsTyped, TouchedTyped
<1>5. feed.todo = {} /\ DiffedTo(T, feed)
  BY <1>2, <1>3, <1>4, AllDiffed
<1>6. T \ feed.todo = T
  BY <1>5
<1>7. feed.l3 = L3FromBook
  <2>1. ASSUME NEW level
        PROVE  /\ level \in DOMAIN feed.l3 <=> level \in Levels
               /\ QueueAt(feed.l3, level) = LevelOrders(level)
    <3>1. CASE level \in T
      BY <1>5, <1>6, <3>1 DEF DiffedTo
    <3>2. CASE level \notin T
      <4>1. /\ level \in DOMAIN feed.l3 <=> level \in DOMAIN l3
            /\ QueueAt(feed.l3, level) = OldAt(level)
        BY <1>5, <1>6, <3>2 DEF DiffedTo
      <4>2. /\ level \in DOMAIN l3 <=> level \in Levels
            /\ QueueAt(l3, level) = LevelOrders(level)
        BY <1>1, <1>3, <3>2, UntouchedQueues
      <4>. QED  BY <4>1, <4>2 DEF OldAt
    <3>. QED  BY <3>1, <3>2
  <2>2. PICK f : f = feed.l3
    OBVIOUS
  <2>3. DOMAIN f = Levels /\ IsFcn(f)
    BY <1>5, <2>1, <2>2 DEF DiffedTo
  <2>4. \A level \in Levels : f[level] = LevelOrders(level)
    BY <2>1, <2>2, <2>3 DEF QueueAt
  <2>. QED  BY <2>2, <2>3, <2>4 DEF IsFcn, L3FromBook
<1>8. feed.loc = LocFromBook
  <2>1. ASSUME NEW id
        PROVE  OldLevel(feed.loc, id) =
                  IF id \in DOMAIN resting THEN {LevelOf(id)} ELSE {}
    <3>1. OldLevel(feed.loc, id) = LocAfter(T, id)
      BY <1>5, <1>6 DEF DiffedTo
    <3>2. OldLevel(loc, id) = Was(r, id)
      BY <1>3 DEF L3Seeds, OldLevel, Was
    <3>3. /\ id \in DOMAIN resting /\ LevelOf(id) \notin T =>
                id \in DOMAIN r /\ Where(r, id) = LevelOf(id)
          /\ id \in DOMAIN r /\ Where(r, id) \notin T =>
                id \in DOMAIN resting /\ LevelOf(id) = Where(r, id)
      BY <1>1, <1>3, UntouchedOrders
    <3>4. id \in DOMAIN r => Was(r, id) = {Where(r, id)}
      BY DEF Was
    <3>5. id \notin DOMAIN r => Was(r, id) = {}
      BY DEF Was
    <3>. QED  BY <3>1, <3>2, <3>3, <3>4, <3>5 DEF LocAfter
  <2>2. PICK f : f = feed.loc
    OBVIOUS
  <2>3. \A id : OldLevel(f, id) # {} <=> id \in DOMAIN f
    BY DEF OldLevel
  <2>4. \A id : id \in DOMAIN f <=> id \in DOMAIN resting
    BY <2>1, <2>2, <2>3
  <2>5. DOMAIN f = DOMAIN resting /\ IsFcn(f)
    BY <1>5, <2>2, <2>4 DEF DiffedTo
  <2>6. \A id \in DOMAIN resting : f[id] = LevelOf(id)
    BY <2>1, <2>2, <2>5 DEF OldLevel
  <2>. QED  BY <2>2, <2>5, <2>6 DEF IsFcn, LocFromBook
<1>. QED  BY <1>1, <1>2, <1>7, <1>8

\* Between calls nothing is touched, and the feed is the book.
LEMMA L3InvSuffices ==
    ASSUME Inv, L3Inv, BetweenCalls
    PROVE  l3 = L3FromBook /\ loc = LocFromBook
<1>1. PICK r : L3Follows(r)
  BY DEF L3Inv
<1>2. /\ CallFacts
      /\ phase # "match"
      /\ News = <<>>
  BY DEF L3Inv, BetweenCalls, CallFacts, News
<1>3. TouchedBy(News) = {}
  BY <1>2 DEF TouchedBy
<1>4. /\ Seeds(r)
      /\ FollowsAll(r)
      /\ L3Seeds(r)
      /\ PlacesKnown(r)
      /\ loc = order_loc
  BY <1>1 DEF L3Follows, Seeds, L3Seeds
<1>5. loc = LocFromBook
  <2>1. ASSUME NEW id
        PROVE  /\ id \in DOMAIN resting <=> id \in DOMAIN r
               /\ id \in DOMAIN resting => Where(r, id) = LevelOf(id)
    BY <1>2, <1>3, <1>4, UntouchedOrders
  <2>2. DOMAIN r = DOMAIN resting
    BY <2>1
  <2>. QED  BY <1>4, <2>1, <2>2 DEF L3Seeds, LocFromBook
<1>6. l3 = L3FromBook
  <2>1. ASSUME NEW level
        PROVE  /\ level \in DOMAIN l3 <=> level \in Levels
               /\ QueueAt(l3, level) = LevelOrders(level)
    BY <1>2, <1>3, <1>4, UntouchedQueues
  <2>2. DOMAIN l3 = Levels /\ IsFcn(l3)
    BY <1>4, <2>1 DEF L3Seeds
  <2>3. \A level \in Levels : l3[level] = LevelOrders(level)
    BY <2>1, <2>2 DEF QueueAt
  <2>. QED  BY <2>2, <2>3 DEF IsFcn, L3FromBook
<1>. QED  BY <1>5, <1>6

----------------------------------------------------------------------------
(* The invariant, step by step *)

BookMakes == \A q : q = resting => L3Seeds(q) /\ PlacesKnown(q)

LEMMA BookMakesAll ==
    Inv /\ l3 = L3FromBook /\ loc = LocFromBook => BookMakes
BY BookMakesL3 DEF BookMakes, Inv

LEMMA NextBookMakes ==
    (Inv /\ l3 = L3FromBook /\ loc = LocFromBook)' => BookMakes'
BY BookMakesAll, PTL

LEMMA PublishedL3 ==
    ASSUME Inv, Inv', VolumeInv, L3Inv, Publish
    PROVE  /\ L3Inv'
           /\ l3' = L3FromBook'
<1>1. PICK r : L3Follows(r)
  BY DEF L3Inv
<1>2. PICK q : q = resting
  OBVIOUS
<1>3. CallFacts /\ Seeds(r) /\ FollowsAll(r)
  BY <1>1 DEF L3Inv, L3Follows
<1>4. /\ phase = "done"
      /\ phase' = "idle"
      /\ out' = <<>>
      /\ backlog' = <<>>
      /\ resting' = resting
      /\ levels' = levels
      /\ l2' = L2Diff(L2Seen(News).touched)
      /\ order_loc' = L2Seen(News).loc
  BY DEF Publish, Deliver, ApplyL2, News, bookVars
<1>5. /\ l3' = L3Diffed(TouchedBy(News)).l3
      /\ loc' = L3Diffed(TouchedBy(News)).loc
  BY DEF Publish, ApplyL3, TouchedBy, News
<1>6. /\ l2' = L2FromBook
      /\ order_loc' = LocFromBook
  BY <1>3, <1>4, SettledFeed
<1>7. /\ l3' = L3FromBook
      /\ loc' = LocFromBook
  BY <1>1, <1>3, <1>4, <1>5, L3Settled
<1>8. /\ l3' = L3FromBook'
      /\ loc' = LocFromBook'
  <2>1. Levels' = Levels
    BY <1>4 DEF Levels
  <2>2. \A level : LevelOrders(level)' = LevelOrders(level)
    BY <1>4, <2>1 DEF LevelOrders, FifoOf
  <2>3. L3FromBook' = L3FromBook
    BY <2>1, <2>2 DEF L3FromBook
  <2>4. LocFromBook' = LocFromBook
    BY <1>4 DEF LocFromBook, LevelOf
  <2>. QED  BY <1>7, <2>3, <2>4
<1>9. Seeds(q)'
  <2>1. /\ l2' = [level \in {Where(q, id) : id \in DOMAIN q} |->
                     SumAt(q, level)]
        /\ order_loc' = [id \in DOMAIN q |-> Where(q, id)]
    BY <1>2, <1>6, BookSeeds, LevelsAreOrders DEF Inv
  <2>. QED  BY <2>1 DEF Seeds, SumAt, Where
<1>10. FollowsAll(q)'
  <2>1. News' = <<>>
    BY <1>4 DEF News
  <2>. QED  BY <1>2, <1>4, <2>1, FreshNext DEF Fresh
<1>11. L3Seeds(q)' /\ PlacesKnown(q)'
  BY <1>2, <1>4, <1>8, NextBookMakes DEF BookMakes
<1>12. NotAdvanced(q)'
  <2>1. \A id \in DOMAIN q : q[id].side \in Sides /\ q[id].price \in Nat
    BY <1>2, OrderFacts, LevelFacts DEF Inv
  <2>2. LiveIds' = {}
    BY <1>4 DEF LiveIds
  <2>3. \A id \in DOMAIN q : Behind(q, id, q[id].side, q[id].price)
    BY <2>1 DEF Behind, Better, Sides
  <2>. QED  BY <1>2, <1>4, <2>1, <2>2, <2>3 DEF NotAdvanced, Behind
<1>13. CallFacts'
  BY <1>4 DEF CallFacts, GoneIds
<1>. QED  BY <1>8, <1>9, <1>10, <1>11, <1>12, <1>13 DEF L3Inv, L3Follows

LEMMA BatchedL3 ==
    ASSUME Inv, Inv', L3Inv, NextOfBatch
    PROVE  L3Inv'
<1>1. PICK r : L3Follows(r)
  BY DEF L3Inv
<1>2. /\ CallFacts
      /\ Seeds(r)
      /\ FollowsAll(r)
      /\ L3Seeds(r)
      /\ PlacesKnown(r)
      /\ NotAdvanced(r)
  BY <1>1 DEF L3Inv, L3Follows
<1>3. /\ phase' = "idle"
      /\ backlog' = backlog \o out
      /\ out' = <<>>
      /\ UNCHANGED <<resting, levels, live, l2, order_loc, l3, loc>>
  BY DEF NextOfBatch, Deliver, bookVars
<1>4. CallFacts'
  BY <1>2, <1>3, NewsTyped DEF CallFacts, GoneIds, News
<1>5. FollowsAll(r)'
  BY <1>2, BatchedFollowed
<1>6. Seeds(r)' /\ L3Seeds(r)'
  BY <1>2, <1>3 DEF Seeds, SumAt, Where, L3Seeds, IsQueue, AtLevel, IdsIn
<1>7. News' = News
  <2>1. \A events \in Seq(Event) : events \o <<>> = events
    OBVIOUS
  <2>. QED  BY <1>2, <1>3, <2>1, NewsTyped DEF News
<1>8. PlacesKnown(r)'
  <2>1. \A id : Stayed(r, id)' <=> Stayed(r, id)
    BY <1>3, <1>7 DEF Stayed, Was, Where, LevelOf
  <2>. QED  BY <1>2, <1>3, <2>1 DEF PlacesKnown, LevelOf, FifoOf, IdsIn
<1>9. NotAdvanced(r)'
  <2>1. LiveIds' = {}
    BY <1>3 DEF LiveIds
  <2>. QED  BY <1>2, <1>3, <2>1 DEF NotAdvanced, Behind
<1>. QED  BY <1>4, <1>5, <1>6, <1>8, <1>9 DEF L3Inv, L3Follows

LEMMA WaitingL3 ==
    ASSUME Inv, Inv', VolumeInv, L3Inv, phase # "done", Next, NeverAdvances,
           UNCHANGED <<l2, order_loc, l3, loc, backlog>>
    PROVE  L3Inv'
<1>1. PICK r : L3Follows(r)
  BY DEF L3Inv
<1>2. /\ CallFacts
      /\ Seeds(r)
      /\ FollowsAll(r)
      /\ L3Seeds(r)
      /\ PlacesKnown(r)
      /\ NotAdvanced(r)
  BY <1>1 DEF L3Inv, L3Follows
<1>3. FollowsAll(r)' /\ CallFacts'
  BY <1>2, FeedsWaitFollowed, CallFactsKept
<1>4. PlacesKnown(r)'
  BY <1>2, PlacesStay
<1>5. NotAdvanced(r)'
  BY <1>2, NotAdvancedKept DEF FollowsAll
<1>6. Seeds(r)' /\ L3Seeds(r)'
  BY <1>2 DEF Seeds, SumAt, Where, L3Seeds, IsQueue, AtLevel, IdsIn
<1>. QED  BY <1>3, <1>4, <1>5, <1>6 DEF L3Inv, L3Follows

LEMMA QuietL3 ==
    ASSUME Inv, L3Inv, UNCHANGED <<vars, l2, order_loc, l3, loc, backlog>>
    PROVE  L3Inv'
<1>1. PICK r : L3Follows(r)
  BY DEF L3Inv
<1>2. /\ CallFacts
      /\ Seeds(r)
      /\ FollowsAll(r)
      /\ L3Seeds(r)
      /\ PlacesKnown(r)
      /\ NotAdvanced(r)
  BY <1>1 DEF L3Inv, L3Follows
<1>3. /\ UNCHANGED <<levels, resting, stops, next_order_id, phase, live, out>>
      /\ UNCHANGED <<l2, order_loc, l3, loc, backlog>>
  BY DEF vars, bookVars, engineVars
<1>4. CallFacts'
  BY <1>2, <1>3 DEF CallFacts, GoneIds
<1>5. Seeds(r)' /\ L3Seeds(r)'
  BY <1>2, <1>3 DEF Seeds, SumAt, Where, L3Seeds, IsQueue, AtLevel, IdsIn
<1>6. News' = News
  BY <1>3 DEF News
<1>7. FollowsAll(r)'
  <2>1. NotAhead(r)'
    BY <1>2, <1>3 DEF FollowsAll, NotAhead, StopIds
  <2>2. ASSUME NEW id
        PROVE  Followed(r, id)'
    <3>1. Unmoved(id)
      BY <1>3, QuietUnmoved
    <3>2. Followed(r, id)
      BY <1>2 DEF FollowsAll
    <3>. QED  BY <1>6, <3>1, <3>2, UnmovedTold, SilentFollowed
  <2>. QED  BY <2>1, <2>2 DEF FollowsAll
<1>8. PlacesKnown(r)'
  <2>1. \A id : Stayed(r, id)' <=> Stayed(r, id)
    BY <1>3, <1>6 DEF Stayed, Was, Where, LevelOf
  <2>. QED  BY <1>2, <1>3, <2>1 DEF PlacesKnown, LevelOf, FifoOf, IdsIn
<1>9. NotAdvanced(r)'
  BY <1>2, <1>3 DEF NotAdvanced, Behind, LiveIds
<1>. QED  BY <1>4, <1>5, <1>7, <1>8, <1>9 DEF L3Inv, L3Follows

\* A step of the engine under the hypothesis, or none of it.
Orderly == [FeedNext]_<<vars, feedVars>> /\ [NeverAdvances]_vars

LEMMA FeedKeepsL3 ==
    ASSUME Inv, Inv', VolumeInv, L3Inv, Orderly
    PROVE  L3Inv'
<1>1. CASE phase # "done" /\ Next /\ UNCHANGED feedVars
  <2>1. UNCHANGED <<l2, order_loc, l3, loc, backlog>>
    BY <1>1 DEF feedVars
  <2>2. CASE UNCHANGED vars
    BY <2>1, <2>2, QuietL3
  <2>3. CASE NeverAdvances
    BY <1>1, <2>1, <2>3, WaitingL3
  <2>. QED  BY <2>2, <2>3 DEF Orderly
<1>2. Join => UNCHANGED <<vars, l2, order_loc, l3, loc, backlog>>
  BY DEF Join
<1>3. Receive => UNCHANGED <<vars, l2, order_loc, l3, loc, backlog>>
  BY DEF Receive
<1>4. UNCHANGED <<vars, feedVars>>
         => UNCHANGED <<vars, l2, order_loc, l3, loc, backlog>>
  BY DEF feedVars
<1>. QED  BY <1>1, <1>2, <1>3, <1>4, QuietL3, BatchedL3, PublishedL3
          DEF FeedNext, Orderly

LEMMA FeedInitL3 ==
    ASSUME FeedInit, Inv
    PROVE  L3Inv
<1>1. PICK q : q = resting
  OBVIOUS
<1>2. /\ resting = <<>>
      /\ phase = "idle"
      /\ News = <<>>
      /\ backlog = <<>>
      /\ out = <<>>
      /\ l2 = <<>>
      /\ order_loc = <<>>
      /\ l3 = <<>>
      /\ loc = <<>>
  BY DEF FeedInit, Init, BookInit, News
<1>3. FollowsAll(q)
  BY <1>1, <1>2, FreshFollowed DEF Fresh
<1>4. Seeds(q) /\ L3Seeds(q)
  BY <1>1, <1>2 DEF Seeds, L3Seeds, IsFcn
<1>5. CallFacts
  BY <1>2 DEF CallFacts, GoneIds
<1>6. PlacesKnown(q) /\ NotAdvanced(q)
  BY <1>1, <1>2 DEF PlacesKnown, Stayed, NotAdvanced
<1>. QED  BY <1>3, <1>4, <1>5, <1>6 DEF L3Inv, L3Follows

L3FeedInv == FeedInv /\ L3Inv

LEMMA L3Invariance == FeedSpec /\ [][NeverAdvances]_vars => []L3FeedInv
<1>1. FeedInit => L3Inv
  BY InitInv, FeedInitL3 DEF FeedInit
<1>2. FeedInv /\ FeedInv' /\ L3Inv /\ Orderly => L3Inv'
  BY FeedKeepsL3 DEF FeedInv
<1>. QED  BY <1>1, <1>2, FeedInvariance, PTL DEF FeedSpec, Orderly, L3FeedInv

\* After every call the L3 feed knows for every order of the book the level the
\* book has it at, provided that no order is amended to a better price.
THEOREM L3LocationsExact ==
    FeedSpec /\ [][NeverAdvances]_vars => []L3KnowsOrders
<1>1. L3FeedInv => L3KnowsOrders
  BY L3InvSuffices DEF L3FeedInv, FeedInv, L3KnowsOrders
<1>. QED  BY <1>1, L3Invariance, PTL

----------------------------------------------------------------------------
(* What the consumer makes of one queue                                     *)

RemovedAt(queue, ids) ==
    Only(queue, {e \in ToSet(queue) : Id(e) \notin ids})

NowOf(entry, entries) ==
    IF Id(entry) \notin Ids(entries) THEN entry
    ELSE CHOOSE e \in ToSet(entries) : Id(e) = Id(entry)

NowAt(queue, entries) == [i \in DOMAIN queue |-> NowOf(queue[i], entries)]

EnteredAt(adds, level) ==
    LET at == Only(adds, {a \in ToSet(adds) : a.level = level})
    IN  [i \in DOMAIN at |-> at[i].entry]

LEMMA NoneInside ==
    ASSUME NEW S, NEW s \in Seq(S), ToSet(s) = {}
    PROVE  s = <<>>
<1>1. PICK n \in Nat : n = Len(s) /\ DOMAIN s = 1..n
  OBVIOUS
<1>2. n = 0
  <2>. SUFFICES ASSUME n # 0
                PROVE  FALSE
    OBVIOUS
  <2>1. 1 \in 1..n
    OBVIOUS
  <2>. QED  BY <1>1, <2>1 DEF ToSet
<1>. QED  BY <1>1, <1>2

LEMMA RemovedFromNone == \A ids : RemovedAt(<<>>, ids) = <<>>
<1>. SUFFICES ASSUME NEW ids
              PROVE  RemovedAt(<<>>, ids) = <<>>
  OBVIOUS
<1>1. PICK none \in Seq(Nat) : none = <<>>
  <2>1. <<>> \in Seq(Nat)
    OBVIOUS
  <2>. QED  BY <2>1
<1>2. ToSet(none) = {}
  BY <1>1 DEF ToSet
<1>3. PICK set : set = {e \in ToSet(none) : Id(e) \notin ids}
  OBVIOUS
<1>4. PICK left : left = Only(none, set)
  OBVIOUS
<1>5. left \in Seq(Nat) /\ ToSet(left) = {}
  BY <1>2, <1>4, OnlyFacts
<1>6. left = <<>>
  BY <1>5, NoneInside
<1>. QED  BY <1>1, <1>3, <1>4, <1>6 DEF RemovedAt

LEMMA RemovedQueue ==
    ASSUME NEW queues, NEW entries, NEW level
    PROVE  /\ QueueAt(Removed(queues, entries), level)
                = RemovedAt(QueueAt(queues, level), Ids(entries))
           /\ level \in DOMAIN Removed(queues, entries)
                <=> RemovedAt(QueueAt(queues, level), Ids(entries)) # <<>>
<1>1. PICK ids : ids = Ids(entries)
  OBVIOUS
<1> DEFINE Left(l) == RemovedAt(queues[l], ids)
<1>2. Removed(queues, entries)
         = [l \in {k \in DOMAIN queues : Left(k) # <<>>} |-> Left(l)]
  BY <1>1 DEF Removed, RemovedAt
<1>3. level \in DOMAIN queues
         => Left(level) = RemovedAt(QueueAt(queues, level), ids)
  BY DEF QueueAt
<1>4. level \notin DOMAIN queues
         => RemovedAt(QueueAt(queues, level), ids) = <<>>
  BY RemovedFromNone DEF QueueAt
<1>. HIDE DEF Left
<1>5. level \in DOMAIN Removed(queues, entries)
         <=> level \in DOMAIN queues /\ Left(level) # <<>>
  BY <1>2
<1>6. level \in DOMAIN Removed(queues, entries)
         => Removed(queues, entries)[level] = Left(level)
  BY <1>2
<1>. QED  BY <1>1, <1>3, <1>4, <1>5, <1>6 DEF QueueAt

LEMMA ReducedQueue ==
    ASSUME NEW queues, NEW entries, NEW level
    PROVE  /\ QueueAt(Reduced(queues, entries), level)
                = NowAt(QueueAt(queues, level), entries)
           /\ DOMAIN Reduced(queues, entries) = DOMAIN queues
<1>1. Reduced(queues, entries)
         = [l \in DOMAIN queues |-> NowAt(queues[l], entries)]
  BY DEF Reduced, NowAt, NowOf
<1>2. NowAt(<<>>, entries) = <<>>
  BY DEF NowAt
<1>. QED  BY <1>1, <1>2 DEF QueueAt

LEMMA EnteredFacts ==
    ASSUME NEW adds \in Seq(Addition), NEW level
    PROVE  /\ EnteredAt(adds, level) \in Seq(Nat \X Nat)
           /\ \A e \in Nat \X Nat :
                 e \in ToSet(EnteredAt(adds, level))
                    <=> \E a \in ToSet(adds) : a.level = level /\ a.entry = e
           /\ \A d, e : Before(EnteredAt(adds, level), d, e) =>
                 \E a, b \in Addition :
                    /\ a.level = level
                    /\ b.level = level
                    /\ a.entry = d
                    /\ b.entry = e
                    /\ Before(adds, a, b)
<1>1. PICK set : set = {a \in ToSet(adds) : a.level = level}
  OBVIOUS
<1>2. PICK at \in Seq(Addition) : at = Only(adds, set)
  BY OnlyFacts
<1>3. /\ ToSet(at) = {a \in ToSet(adds) : a.level = level}
      /\ \A a, b : Before(at, a, b) => Before(adds, a, b)
  <2>1. /\ ToSet(at) = ToSet(adds) \cap set
        /\ \A a, b : Before(at, a, b) => Before(adds, a, b)
    BY <1>2, OnlyFacts
  <2>. QED  BY <1>1, <2>1
<1>4. PICK n \in Nat : n = Len(at) /\ DOMAIN at = 1..n
  OBVIOUS
<1>5. PICK entered : entered = [i \in 1..n |-> at[i].entry]
  OBVIOUS
<1>6. entered = EnteredAt(adds, level)
  BY <1>1, <1>2, <1>4, <1>5 DEF EnteredAt
<1>7. \A i \in 1..n : at[i] \in Addition /\ at[i] \in ToSet(at)
  BY <1>4 DEF ToSet
<1>8. /\ DOMAIN entered = 1..n
      /\ \A i \in 1..n : entered[i] = at[i].entry /\ entered[i] \in Nat \X Nat
  BY <1>5, <1>7 DEF Addition
<1>9. entered \in Seq(Nat \X Nat)
  BY <1>5, <1>8
<1>10. ASSUME NEW e \in Nat \X Nat
       PROVE  e \in ToSet(entered)
                 <=> \E a \in ToSet(adds) : a.level = level /\ a.entry = e
  <2>1. e \in ToSet(entered) <=> \E i \in 1..n : at[i].entry = e
    BY <1>8 DEF ToSet
  <2>2. (\E i \in 1..n : at[i].entry = e) <=> \E a \in ToSet(at) : a.entry = e
    BY <1>4, <1>7 DEF ToSet
  <2>. QED  BY <1>3, <2>1, <2>2
<1>11. ASSUME NEW d, NEW e, Before(entered, d, e)
       PROVE  \E a, b \in Addition :
                 /\ a.level = level
                 /\ b.level = level
                 /\ a.entry = d
                 /\ b.entry = e
                 /\ Before(adds, a, b)
  <2>1. PICK i \in 1..n, j \in 1..n :
           i < j /\ at[i].entry = d /\ at[j].entry = e
    BY <1>8, <1>11 DEF Before
  <2>2. Before(at, at[i], at[j])
    BY <1>4, <2>1 DEF Before
  <2>3. at[i].level = level /\ at[j].level = level
    BY <1>3, <1>7
  <2>. QED  BY <1>3, <1>7, <2>1, <2>2, <2>3
<1>. QED  BY <1>6, <1>9, <1>10, <1>11

LEMMA AddedQueue ==
    ASSUME NEW queues, NEW adds \in Seq(Addition), NEW level
    PROVE  /\ QueueAt(Added(queues, adds), level)
                = QueueAt(queues, level) \o EnteredAt(adds, level)
           /\ level \in DOMAIN Added(queues, adds)
                <=> \/ level \in DOMAIN queues
                    \/ EnteredAt(adds, level) # <<>>
<1>1. PICK entered \in Seq(Nat \X Nat) : entered = EnteredAt(adds, level)
  BY EnteredFacts
<1>2. PICK n \in Nat : n = Len(adds) /\ DOMAIN adds = 1..n
  OBVIOUS
<1>3. \A i \in 1..n : adds[i] \in Addition /\ adds[i] \in ToSet(adds)
  BY <1>2 DEF ToSet
<1>4. entered = <<>> <=> level \notin {adds[i].level : i \in DOMAIN adds}
  <2>1. ASSUME entered = <<>>, NEW i \in 1..n, adds[i].level = level
        PROVE  FALSE
    <3>1. adds[i].entry \in Nat \X Nat
      BY <1>3 DEF Addition
    <3>2. adds[i].entry \in ToSet(entered)
      BY <1>1, <1>3, <2>1, <3>1, EnteredFacts
    <3>. QED  BY <2>1, <3>2 DEF ToSet
  <2>2. ASSUME \A i \in 1..n : adds[i].level # level
        PROVE  entered = <<>>
    <3>1. \A e \in Nat \X Nat : e \notin ToSet(entered)
      <4>1. \A a \in ToSet(adds) : a.level # level
        BY <1>2, <2>2 DEF ToSet
      <4>. QED  BY <1>1, <4>1, EnteredFacts
    <3>2. ToSet(entered) \subseteq Nat \X Nat
      BY DEF ToSet
    <3>3. ToSet(entered) = {}
      BY <3>1, <3>2
    <3>. QED  BY <3>3, NoneInside
  <2>. QED  BY <1>2, <2>1, <2>2
<1>5. PICK added : added = Added(queues, adds)
  OBVIOUS
<1>6. added = [l \in DOMAIN queues \cup {adds[i].level : i \in DOMAIN adds} |->
                  QueueAt(queues, l) \o EnteredAt(adds, l)]
  BY <1>5 DEF Added, QueueAt, EnteredAt
<1>7. /\ level \in DOMAIN added
            <=> \/ level \in DOMAIN queues
                \/ level \in {adds[i].level : i \in DOMAIN adds}
      /\ level \in DOMAIN added
            => added[level] = QueueAt(queues, level) \o EnteredAt(adds, level)
  BY <1>6
<1>8. CASE level \in DOMAIN added
  BY <1>1, <1>4, <1>5, <1>7, <1>8 DEF QueueAt
<1>9. CASE level \notin DOMAIN added
  <2>1. entered = <<>> /\ QueueAt(queues, level) = <<>>
    BY <1>4, <1>7, <1>9 DEF QueueAt
  <2>2. QueueAt(queues, level) \o entered = <<>>
    BY <2>1
  <2>. QED  BY <1>1, <1>5, <1>7, <1>9, <2>1, <2>2 DEF QueueAt
<1>. QED  BY <1>8, <1>9

----------------------------------------------------------------------------
(* The queue of a level, updated                                            *)

LEMMA NotBothBefore ==
    ASSUME NEW s, \A x : ~Before(s, x, x), DOMAIN s \subseteq Nat,
           NEW x, NEW y, Before(s, x, y)
    PROVE  ~Before(s, y, x)
<1>. SUFFICES ASSUME Before(s, y, x)
              PROVE  FALSE
  OBVIOUS
<1>1. PICK i \in DOMAIN s, j \in DOMAIN s : i < j /\ s[i] = x /\ s[j] = y
  BY DEF Before
<1>2. PICK k \in DOMAIN s, l \in DOMAIN s : k < l /\ s[k] = y /\ s[l] = x
  BY DEF Before
<1>3. CASE i < l
  BY <1>1, <1>2, <1>3 DEF Before
<1>4. CASE l < i
  BY <1>1, <1>2, <1>4 DEF Before
<1>5. CASE i = l
  <2>1. k < j
    BY <1>1, <1>2, <1>5
  <2>. QED  BY <1>1, <1>2, <2>1 DEF Before
<1>. QED  BY <1>3, <1>4, <1>5

\* The deltas say what became of the queue old, of which keep stays.
Explain(old, keep, removed, reduced) ==
    /\ \A x : ~Before(IdsIn(old), x, x)
    /\ \A d, e \in ToSet(old) : Id(d) = Id(e) => d = e
    /\ \A d, e \in ToSet(keep) : Id(d) = Id(e) => d = e
    /\ Ids(keep) \subseteq Ids(old)
    /\ \A x, y : Before(IdsIn(keep), x, y) => Before(IdsIn(old), x, y)
    /\ \A e \in ToSet(old) : Id(e) \notin removed <=> Id(e) \in Ids(keep)
    /\ \A e \in ToSet(reduced) : Id(e) \in Ids(old) => e \in ToSet(keep)
    /\ ToSet(keep) \ ToSet(old) \subseteq ToSet(reduced)

LEMMA QueueUpdated ==
    ASSUME NEW old \in Seq(Nat \X Nat), NEW keep \in Seq(Nat \X Nat),
           NEW reduced \in Seq(Nat \X Nat), NEW removed,
           Explain(old, keep, removed, reduced)
    PROVE  NowAt(RemovedAt(old, removed), reduced) = keep
<1>. USE DEF Explain
<1>1. PICK set : set = {e \in ToSet(old) : Id(e) \notin removed}
  OBVIOUS
<1>2. PICK left \in Seq(Nat \X Nat) : left = Only(old, set)
  BY OnlyFacts
<1>3. left = RemovedAt(old, removed)
  BY <1>1, <1>2 DEF RemovedAt
<1>4. /\ ToSet(left) = {e \in ToSet(old) : Id(e) \notin removed}
      /\ \A x, y : Before(left, x, y) => Before(old, x, y)
  <2>1. /\ ToSet(left) = ToSet(old) \cap set
        /\ \A x, y : Before(left, x, y) => Before(old, x, y)
    BY <1>2, OnlyFacts
  <2>. QED  BY <1>1, <2>1
<1>5. PICK n \in Nat : n = Len(left) /\ DOMAIN left = 1..n
  OBVIOUS
<1>6. PICK now : now = [i \in 1..n |-> NowOf(left[i], reduced)]
  OBVIOUS
<1>7. now = NowAt(left, reduced)
  BY <1>5, <1>6 DEF NowAt
<1>8. /\ Ids(keep) = {Id(e) : e \in ToSet(keep)}
      /\ Ids(old) = {Id(e) : e \in ToSet(old)}
      /\ Ids(reduced) = {Id(e) : e \in ToSet(reduced)}
  BY IdsFacts
<1>9. ASSUME NEW e \in ToSet(left)
      PROVE  /\ NowOf(e, reduced) \in ToSet(keep)
             /\ Id(NowOf(e, reduced)) = Id(e)
  <2>1. e \in ToSet(old) /\ Id(e) \in Ids(keep)
    BY <1>4, <1>9
  <2>2. PICK k \in ToSet(keep) : Id(k) = Id(e)
    BY <1>8, <2>1
  <2>3. CASE Id(e) \in Ids(reduced)
    <3>1. \E m \in ToSet(reduced) : Id(m) = Id(e)
      BY <1>8, <2>3
    <3>2. PICK m : m = CHOOSE d \in ToSet(reduced) : Id(d) = Id(e)
      OBVIOUS
    <3>3. m \in ToSet(reduced) /\ Id(m) = Id(e)
      BY <3>1, <3>2
    <3>4. NowOf(e, reduced) = m
      BY <2>3, <3>2 DEF NowOf
    <3>5. Id(e) \in Ids(old)
      BY <1>8, <2>1
    <3>. QED  BY <3>3, <3>4, <3>5
  <2>4. CASE Id(e) \notin Ids(reduced)
    <3>1. NowOf(e, reduced) = e
      BY <2>4 DEF NowOf
    <3>2. k \notin ToSet(reduced)
      BY <1>8, <2>2, <2>4
    <3>3. k \in ToSet(old)
      BY <3>2
    <3>4. k = e
      BY <2>1, <2>2, <3>3
    <3>. QED  BY <3>1, <3>4
  <2>. QED  BY <2>3, <2>4
<1>10. /\ DOMAIN now = 1..n
       /\ \A i \in 1..n : /\ now[i] \in ToSet(keep)
                          /\ Id(now[i]) = Id(left[i])
  <2>1. \A i \in 1..n : /\ left[i] \in ToSet(left)
                        /\ now[i] = NowOf(left[i], reduced)
    BY <1>5, <1>6 DEF ToSet
  <2>. QED  BY <1>6, <1>9, <2>1
<1>11. now \in Seq(Nat \X Nat)
  <2>1. ToSet(keep) \subseteq Nat \X Nat
    BY DEF ToSet
  <2>. QED  BY <1>6, <1>10, <2>1
<1>12. ToSet(now) = ToSet(keep)
  <2>1. ToSet(now) \subseteq ToSet(keep)
    BY <1>10 DEF ToSet
  <2>2. ASSUME NEW k \in ToSet(keep)
        PROVE  k \in ToSet(now)
    <3>1. Id(k) \in Ids(keep) /\ Id(k) \in Ids(old)
      BY <1>8
    <3>2. PICK e \in ToSet(old) : Id(e) = Id(k)
      BY <1>8, <3>1
    <3>3. e \in ToSet(left)
      BY <1>4, <3>1, <3>2
    <3>4. PICK i \in 1..n : left[i] = e
      BY <1>5, <3>3 DEF ToSet
    <3>5. now[i] = k
      BY <1>10, <3>2, <3>4
    <3>. QED  BY <1>10, <3>5 DEF ToSet
  <2>. QED  BY <2>1, <2>2
<1>13. \A x : ~Before(IdsIn(keep), x, x)
  OBVIOUS
<1>14. ASSUME NEW x, NEW y, Before(IdsIn(now), x, y)
       PROVE  Before(IdsIn(keep), x, y)
  <2>1. PICK i \in 1..n, j \in 1..n :
           i < j /\ Id(now[i]) = x /\ Id(now[j]) = y
    BY <1>10, <1>14 DEF Before, IdsIn
  <2>2. Before(left, left[i], left[j])
    BY <1>5, <2>1 DEF Before
  <2>3. Id(left[i]) = x /\ Id(left[j]) = y
    BY <1>10, <2>1
  <2>4. Before(IdsIn(old), x, y)
    BY <1>4, <2>2, <2>3, IdsFacts
  <2>5. PICK m \in Nat : m = Len(keep) /\ DOMAIN keep = 1..m
    OBVIOUS
  <2>6. PICK k \in 1..m, l \in 1..m : Id(keep[k]) = x /\ Id(keep[l]) = y
    <3>1. \A e \in ToSet(keep) : \E k \in 1..m : keep[k] = e
      BY <2>5 DEF ToSet
    <3>2. PICK k \in 1..m : keep[k] = now[i]
      BY <1>10, <3>1
    <3>3. PICK l \in 1..m : keep[l] = now[j]
      BY <1>10, <3>1
    <3>. QED  BY <2>1, <3>2, <3>3
  <2>7. k # l
    BY <2>4, <2>6
  <2>8. CASE k < l
    BY <2>5, <2>6, <2>8 DEF Before, IdsIn
  <2>9. CASE l < k
    <3>1. Before(IdsIn(keep), y, x)
      BY <2>5, <2>6, <2>9 DEF Before, IdsIn
    <3>2. Before(IdsIn(old), y, x)
      BY <3>1
    <3>3. DOMAIN IdsIn(old) \subseteq Nat
      BY DEF IdsIn
    <3>. QED  BY <2>4, <3>2, <3>3, NotBothBefore
  <2>. QED  BY <2>7, <2>8, <2>9
<1>15. now = keep
  BY <1>11, <1>12, <1>13, <1>14, SameQueue
<1>. QED  BY <1>3, <1>7, <1>15

----------------------------------------------------------------------------
(* The update of a call makes of the feed before it the feed after it       *)

LEMMA NoneNow ==
    ASSUME NEW queue \in Seq(Nat \X Nat), NEW entries
    PROVE  NowAt(queue, entries) = <<>> <=> queue = <<>>
<1>1. PICK now : now = NowAt(queue, entries)
  OBVIOUS
<1>2. DOMAIN now = DOMAIN queue
  BY <1>1 DEF NowAt
<1>3. queue = <<>> => now = <<>>
  BY <1>1 DEF NowAt
<1>4. now = <<>> => queue = <<>>
  BY <1>2
<1>. QED  BY <1>1, <1>3, <1>4

\* The deltas of other levels are about other orders.
LEMMA OwnDeltas ==
    ASSUME BookInv, NEW r, L3Seeds(r), NEW T, NEW feed, Tells(T, feed),
           NEW level, NEW id \in AtLevel(r, level)
    PROVE  /\ id \in Ids(feed.removed)
                <=> level \in T /\ id \notin Ids(KeepAt(level))
           /\ \A e \in ToSet(feed.reduced) :
                 Id(e) = id => level \in T /\ e \in ToSet(KeepAt(level))
<1>1. \A l : id \in AtLevel(r, l) => l = level
  BY DEF AtLevel
<1>2. \A l : id \in Ids(GoneAt(l))
                <=> id \in AtLevel(r, l) /\ id \notin Ids(KeepAt(l))
  BY LevelParts
<1>3. id \in Ids(feed.removed)
         <=> level \in T /\ id \notin Ids(KeepAt(level))
  BY <1>1, <1>2 DEF Tells
<1>4. ASSUME NEW e \in ToSet(feed.reduced), Id(e) = id
      PROVE  level \in T /\ e \in ToSet(KeepAt(level))
  <2>1. PICK l \in T : e \in ToSet(KeepAt(l))
    BY DEF Tells, ReducesAt
  <2>2. PICK keep \in Seq(Nat \X Nat) : keep = KeepAt(l)
    BY LevelParts
  <2>3. id \in Ids(keep)
    BY <1>4, <2>1, <2>2, IdsFacts
  <2>4. id \in AtLevel(r, l)
    BY <2>2, <2>3, LevelParts
  <2>5. l = level
    BY <1>1, <2>4
  <2>. QED  BY <2>1, <2>5
<1>. QED  BY <1>3, <1>4

LEMMA TouchedUpdated ==
    ASSUME BookInv, NEW r, L3Seeds(r), NEW T, NEW feed, Tells(T, feed),
           NEW level \in Sides \X Nat, level \in T
    PROVE  /\ NowAt(RemovedAt(OldAt(level), Ids(feed.removed)), feed.reduced)
                = KeepAt(level)
           /\ EnteredAt(feed.added, level) = ComeAt(level)
<1>1. PICK keep \in Seq(Nat \X Nat), come \in Seq(Nat \X Nat) :
         keep = KeepAt(level) /\ come = ComeAt(level)
  BY LevelParts
<1>2. PICK old, new : old = OldAt(level) /\ new = LevelOrders(level)
  OBVIOUS
<1>3. /\ IsQueue(r, level, old)
      /\ IsQueue(resting, level, new)
      /\ new = keep \o come
      /\ Ids(old) = AtLevel(r, level)
      /\ Ids(keep) \subseteq AtLevel(r, level)
      /\ \A x, y : Before(IdsIn(keep), x, y) => Before(IdsIn(old), x, y)
  BY <1>1, <1>2, OldQueue, NewQueue, LevelParts DEF OldAt
<1>4. /\ old \in Seq(Nat \X Nat)
      /\ \A d, e \in ToSet(old) : Id(d) = Id(e) => d = e
      /\ \A x : ~Before(IdsIn(old), x, x)
      /\ new \in Seq(Nat \X Nat)
      /\ \A d, e \in ToSet(new) : Id(d) = Id(e) => d = e
      /\ \A x : ~Before(IdsIn(new), x, x)
  <2>1. /\ old \in Seq(Nat \X Nat)
        /\ \A d, e \in ToSet(old) : Id(d) = Id(e) => d = e
    BY <1>3, QueueFacts
  <2>2. /\ new \in Seq(Nat \X Nat)
        /\ \A d, e \in ToSet(new) : Id(d) = Id(e) => d = e
    BY <1>3, QueueFacts
  <2>3. \A x : ~Before(IdsIn(old), x, x) /\ ~Before(IdsIn(new), x, x)
    BY <1>3 DEF IsQueue
  <2>. QED  BY <2>1, <2>2, <2>3
<1>5. PICK reduced \in Seq(Nat \X Nat), added \in Seq(Addition) :
         reduced = feed.reduced /\ added = feed.added
  BY DEF Tells
<1>6. PICK removed : removed = Ids(feed.removed)
  OBVIOUS
<1>7. /\ Ids(old) = {Id(e) : e \in ToSet(old)}
      /\ Ids(keep) = {Id(e) : e \in ToSet(keep)}
  BY <1>4, IdsFacts
<1>8. \A d, e \in ToSet(keep) : Id(d) = Id(e) => d = e
  <2>1. ToSet(keep) \subseteq ToSet(new)
    <3>1. ToSet(keep \o come) = ToSet(keep) \cup ToSet(come)
      BY ConcatFacts
    <3>. QED  BY <1>3, <3>1
  <2>. QED  BY <1>4, <2>1
<1>9. \A e \in ToSet(old) : Id(e) \notin removed <=> Id(e) \in Ids(keep)
  <2>1. ASSUME NEW e \in ToSet(old)
        PROVE  Id(e) \notin removed <=> Id(e) \in Ids(keep)
    <3>1. Id(e) \in AtLevel(r, level)
      BY <1>3, <1>7
    <3>. QED  BY <1>1, <1>6, <3>1, OwnDeltas
  <2>. QED  BY <2>1
<1>10. \A e \in ToSet(reduced) : Id(e) \in Ids(old) => e \in ToSet(keep)
  BY <1>1, <1>3, <1>5, OwnDeltas
<1>11. ToSet(keep) \ ToSet(old) \subseteq ToSet(reduced)
  BY <1>1, <1>2, <1>5 DEF Tells, ReducesAt
<1>12. NowAt(RemovedAt(old, removed), reduced) = keep
  <2>1. Explain(old, keep, removed, reduced)
    BY <1>3, <1>4, <1>8, <1>9, <1>10, <1>11 DEF Explain
  <2>. QED  BY <1>4, <2>1, QueueUpdated
<1>13. PICK entered \in Seq(Nat \X Nat) : entered = EnteredAt(added, level)
  BY EnteredFacts
<1>14. ToSet(entered) = ToSet(come)
  <2>1. ToSet(entered) \subseteq Nat \X Nat /\ ToSet(come) \subseteq Nat \X Nat
    BY DEF ToSet
  <2>2. ASSUME NEW e \in Nat \X Nat
        PROVE  e \in ToSet(entered) <=> e \in ToSet(come)
    <3>1. e \in ToSet(entered)
             <=> \E a \in ToSet(added) : a.level = level /\ a.entry = e
      BY <1>13, EnteredFacts
    <3>2. ToSet(added) \subseteq Addition
      BY DEF ToSet
    <3>3. \A a \in Addition :
             a \in ToSet(added)
                <=> a.level \in T /\ a.entry \in ToSet(ComeAt(a.level))
      BY <1>5 DEF Tells
    <3>4. PICK a : a = [level |-> level, entry |-> e]
      OBVIOUS
    <3>5. a \in Addition /\ a.level = level /\ a.entry = e
      BY <3>4 DEF Addition
    <3>. QED  BY <1>1, <3>1, <3>2, <3>3, <3>5
  <2>. QED  BY <2>1, <2>2
<1>15. ASSUME NEW d, NEW e, Before(entered, d, e)
       PROVE  Before(come, d, e)
  <2>1. PICK a \in Addition, b \in Addition :
           /\ a.level = level
           /\ b.level = level
           /\ a.entry = d
           /\ b.entry = e
           /\ Before(added, a, b)
    BY <1>13, <1>15, EnteredFacts
  <2>. QED  BY <1>1, <1>5, <2>1 DEF Tells
<1>16. \A e : ~Before(come, e, e)
  <2>. SUFFICES ASSUME NEW e, Before(come, e, e)
                PROVE  FALSE
    OBVIOUS
  <2>1. PICK m \in Nat, n \in Nat : m = Len(keep) /\ n = Len(come)
    OBVIOUS
  <2>2. PICK i \in 1..n, j \in 1..n : i < j /\ come[i] = e /\ come[j] = e
    BY <2>1 DEF Before
  <2>3. /\ DOMAIN new = 1..(m + n)
        /\ \A k \in 1..n : new[m + k] = come[k]
    BY <1>3, <2>1
  <2>4. PICK p, q : p = m + i /\ q = m + j
    OBVIOUS
  <2>5. /\ p \in 1..(m + n)
        /\ q \in 1..(m + n)
        /\ p < q
    BY <2>2, <2>4
  <2>6. new[p] = e /\ new[q] = e
    BY <2>2, <2>3, <2>4
  <2>7. Before(new, e, e)
    BY <2>3, <2>5, <2>6 DEF Before
  <2>. QED  BY <1>4, <2>7, IdsFacts
<1>17. entered = come
  BY <1>14, <1>15, <1>16, SameOrder
<1>. QED  BY <1>1, <1>2, <1>5, <1>6, <1>12, <1>13, <1>17

LEMMA UntouchedUpdated ==
    ASSUME BookInv, NEW r, L3Seeds(r), NEW T, NEW feed, Tells(T, feed),
           NEW level, level \notin T
    PROVE  /\ NowAt(RemovedAt(OldAt(level), Ids(feed.removed)), feed.reduced)
                = OldAt(level)
           /\ EnteredAt(feed.added, level) = <<>>
<1>1. PICK old : old = OldAt(level)
  OBVIOUS
<1>2. IsQueue(r, level, old)
  BY <1>1, OldQueue DEF OldAt
<1>3. /\ old \in Seq(Nat \X Nat)
      /\ Ids(old) = AtLevel(r, level)
      /\ \A d, e \in ToSet(old) : Id(d) = Id(e) => d = e
      /\ \A x : ~Before(IdsIn(old), x, x)
  BY <1>2, QueueFacts DEF IsQueue
<1>4. PICK reduced \in Seq(Nat \X Nat), added \in Seq(Addition) :
         reduced = feed.reduced /\ added = feed.added
  BY DEF Tells
<1>5. PICK removed : removed = Ids(feed.removed)
  OBVIOUS
<1>6. Ids(old) = {Id(e) : e \in ToSet(old)}
  BY <1>3, IdsFacts
<1>7. \A e \in ToSet(old) : Id(e) \notin removed <=> Id(e) \in Ids(old)
  <2>1. ASSUME NEW e \in ToSet(old)
        PROVE  Id(e) \notin removed <=> Id(e) \in Ids(old)
    <3>1. Id(e) \in AtLevel(r, level) /\ Id(e) \in Ids(old)
      BY <1>3, <1>6
    <3>. QED  BY <1>5, <3>1, OwnDeltas
  <2>. QED  BY <2>1
<1>8. \A e \in ToSet(reduced) : Id(e) \in Ids(old) => e \in ToSet(old)
  BY <1>3, <1>4, OwnDeltas
<1>9. NowAt(RemovedAt(old, removed), reduced) = old
  <2>1. Explain(old, old, removed, reduced)
    BY <1>3, <1>7, <1>8 DEF Explain
  <2>. QED  BY <1>3, <2>1, QueueUpdated
<1>10. PICK entered \in Seq(Nat \X Nat) : entered = EnteredAt(added, level)
  BY EnteredFacts
<1>11. ToSet(entered) = {}
  <2>1. ToSet(entered) \subseteq Nat \X Nat /\ ToSet(added) \subseteq Addition
    BY DEF ToSet
  <2>2. \A a \in ToSet(added) : a.level \in T
    BY <1>4, <2>1 DEF Tells
  <2>3. \A e \in Nat \X Nat : e \notin ToSet(entered)
    <3>1. \A e \in Nat \X Nat :
             e \in ToSet(entered)
                <=> \E a \in ToSet(added) : a.level = level /\ a.entry = e
      BY <1>10, EnteredFacts
    <3>. QED  BY <2>2, <3>1
  <2>. QED  BY <2>1, <2>3
<1>12. entered = <<>>
  BY <1>11, NoneInside
<1>. QED  BY <1>1, <1>4, <1>5, <1>9, <1>10, <1>12

LEMMA UpdateTells ==
    ASSUME Inv, CallFacts, phase # "match", NEW r, L3Follows(r),
           NEW feed, feed = L3Diffed(TouchedBy(News)),
           NEW update, update.removed = feed.removed,
           update.reduced = feed.reduced, update.added = feed.added
    PROVE  /\ Updated(l3, update) = L3FromBook
           /\ Tells(TouchedBy(News), feed)
<1>1. PICK T : T = TouchedBy(News)
  OBVIOUS
<1>2. /\ BookInv
      /\ Seeds(r)
      /\ FollowsAll(r)
      /\ L3Seeds(r)
      /\ PlacesKnown(r)
      /\ NotAdvanced(r)
  BY DEF Inv, L3Follows
<1>3. T \in SUBSET (Sides \X Nat) /\ IsFiniteSet(T)
  BY <1>1, <1>2, NewsTyped, TouchedTyped
<1>4. Tells(T, feed)
  BY <1>1, <1>2, <1>3, AllDiffed
<1>5. PICK removed \in Seq(Nat \X Nat), reduced \in Seq(Nat \X Nat),
           added \in Seq(Addition) :
         /\ removed = feed.removed
         /\ reduced = feed.reduced
         /\ added = feed.added
  BY <1>4 DEF Tells
<1>6. PICK left, now, after :
         /\ left = Removed(l3, removed)
         /\ now = Reduced(left, reduced)
         /\ after = Added(now, added)
  OBVIOUS
<1>7. Updated(l3, update) = after
  BY <1>5, <1>6 DEF Updated
<1>8. ASSUME NEW level
      PROVE  /\ QueueAt(after, level) = LevelOrders(level)
             /\ level \in DOMAIN after <=> level \in Levels
  <2>1. PICK old, new : old = OldAt(level) /\ new = LevelOrders(level)
    OBVIOUS
  <2>2. /\ old \in Seq(Nat \X Nat)
        /\ new \in Seq(Nat \X Nat)
        /\ new = <<>> <=> level \notin Levels
    BY <1>2, <2>1, OldQueue, NewQueue DEF OldAt, IsQueue
  <2>3. PICK some : some = RemovedAt(old, Ids(removed))
    OBVIOUS
  <2>4. some \in Seq(Nat \X Nat)
    BY <2>2, <2>3, OnlyFacts DEF RemovedAt
  <2>5. PICK keep \in Seq(Nat \X Nat), come \in Seq(Nat \X Nat) :
           /\ NowAt(some, reduced) = keep
           /\ EnteredAt(added, level) = come
           /\ new = keep \o come
    <3>1. CASE level \in T
      <4>1. level \in Sides \X Nat
        BY <1>3, <3>1
      <4>2. /\ KeepAt(level) \in Seq(Nat \X Nat)
            /\ ComeAt(level) \in Seq(Nat \X Nat)
            /\ new = KeepAt(level) \o ComeAt(level)
        BY <1>2, <2>1, LevelParts
      <4>3. /\ NowAt(some, reduced) = KeepAt(level)
            /\ EnteredAt(added, level) = ComeAt(level)
        BY <1>2, <1>4, <1>5, <2>1, <2>3, <3>1, <4>1, TouchedUpdated
      <4>. QED  BY <4>2, <4>3
    <3>2. CASE level \notin T
      <4>1. old = new
        BY <1>1, <1>2, <2>1, <3>2, UntouchedQueues DEF OldAt
      <4>2. /\ NowAt(some, reduced) = old
            /\ EnteredAt(added, level) = <<>>
        BY <1>2, <1>4, <1>5, <2>1, <2>3, <3>2, UntouchedUpdated
      <4>3. <<>> \in Seq(Nat \X Nat) /\ new = new \o <<>>
        BY <2>2
      <4>. QED  BY <2>2, <4>1, <4>2, <4>3
    <3>. QED  BY <3>1, <3>2
  <2>6. /\ QueueAt(left, level) = some
        /\ level \in DOMAIN left <=> some # <<>>
    BY <1>6, <2>1, <2>3, RemovedQueue DEF OldAt
  <2>7. /\ QueueAt(now, level) = keep
        /\ level \in DOMAIN now <=> keep # <<>>
    <3>1. /\ QueueAt(now, level) = NowAt(QueueAt(left, level), reduced)
          /\ DOMAIN now = DOMAIN left
      BY <1>6, ReducedQueue
    <3>2. keep = <<>> <=> some = <<>>
      BY <2>4, <2>5, NoneNow
    <3>. QED  BY <2>5, <2>6, <3>1, <3>2
  <2>8. /\ QueueAt(after, level) = keep \o come
        /\ level \in DOMAIN after <=> keep # <<>> \/ come # <<>>
    <3>1. /\ QueueAt(after, level)
                = QueueAt(now, level) \o EnteredAt(added, level)
          /\ level \in DOMAIN after <=> \/ level \in DOMAIN now
                                        \/ EnteredAt(added, level) # <<>>
      BY <1>6, AddedQueue
    <3>. QED  BY <2>5, <2>7, <3>1
  <2>9. keep \o come = <<>> <=> keep = <<>> /\ come = <<>>
    OBVIOUS
  <2>. QED  BY <2>1, <2>2, <2>5, <2>8, <2>9
<1>9. IsFcn(after)
  BY <1>6 DEF Added, IsFcn
<1>10. DOMAIN after = Levels
  BY <1>8
<1>11. \A level \in Levels : after[level] = LevelOrders(level)
  BY <1>8, <1>10 DEF QueueAt
<1>. QED  BY <1>1, <1>4, <1>7, <1>9, <1>10, <1>11 DEF IsFcn, L3FromBook

----------------------------------------------------------------------------
(* The consumer and the updates on their way to it                          *)

Update ==
    [seq : Nat, removed : Seq(Nat \X Nat), reduced : Seq(Nat \X Nat),
     added : Seq(Addition)]

\* What a consumer with a snapshot of this number makes of an update.
Taken(number, queues, update) ==
    IF update.seq <= number THEN queues ELSE Updated(queues, update)

\* q are the queues of the consumer, one update after the other.
IsCatchingUp(q, number, queues) ==
    /\ q[0] = queues
    /\ q[Len(channel)] = l3
    /\ \A i \in 1..Len(channel) : q[i] = Taken(number, q[i - 1], channel[i])

CatchesUp(number, queues) == \E q : IsCatchingUp(q, number, queues)

\* The number of the first command of the call under way.
CallSeq == News[1].seq

\* The numbers of the events of a call start behind those of earlier calls.
CallsNumbered ==
    /\ phase # "idle" => News # <<>>
    /\ News # <<>> => CallSeq <= seq
    /\ \A i \in 1..Len(channel) : channel[i].seq <= seq

IsMirror(number, queues) ==
    /\ mirror = [seq |-> number, queues |-> queues]
    /\ number <= seq
    /\ News # <<>> => number < CallSeq
    /\ CatchesUp(number, queues)

MirrorInv ==
    /\ channel \in Seq(Update)
    /\ CallsNumbered
    /\ mirror # None =>
          \E number \in Nat : \E queues : IsMirror(number, queues)

LEMMA StepNumbered ==
    ASSUME Next, phase # "done"
    PROVE  \/ phase # "idle" /\ seq' = seq
           \/ /\ phase = "idle"
              /\ seq' = seq + 1
              /\ \E first, second :
                    /\ first.seq = seq + 1
                    /\ out' = <<first>> \/ out' = <<first, second>>
<1> DEFINE Opens(n) == /\ phase = "idle"
                       /\ n = seq + 1
                       /\ \E first, second :
                             /\ first.seq = seq + 1
                             /\ out' = <<first>> \/ out' = <<first, second>>
<1>1. /\ \A s, id : /\ Accepted(s, id).seq = s
                    /\ Canceled(s, id).seq = s
                    /\ Modified(s, id).seq = s
      /\ \A s, reason : Rejected(s, reason).seq = s
  BY DEF Accepted, Canceled, Modified, Rejected
<1>2. ASSUME NEW order \in NewOrders, SubmitNew(order)
      PROVE  Opens(seq')
  BY <1>1, <1>2
     DEF SubmitNew, RejectCommand, ParkStop, RefuseOrder, AcceptOrder, Admit,
         Submit
<1>3. ASSUME NEW id \in KnownIds, SubmitCancel(id)
      PROVE  Opens(seq')
  BY <1>1, <1>3
     DEF SubmitCancel, RejectCommand, CancelInBook, CancelStop,
         CancelUnknown, Admit, Submit
<1>4. ASSUME NEW id \in KnownIds, NEW a \in Amendments, SubmitModify(id, a)
      PROVE  Opens(seq')
  BY <1>1, <1>4
     DEF SubmitModify, RejectCommand, ModifyUnknown, ModifyInPlace,
         ModifyReplace, Admit, Submit
<1>5. MatchStep => seq' = seq
  BY DEF MatchStep, TradeWithHead, CancelMaker, CancelTaker, CancelBoth,
         FinishWith
<1>6. FinishStep => seq' = seq
  BY DEF FinishStep, FinishFilled, RestRemainder, CancelRemainder, FinishWith
<1>7. StopStep => seq' = seq /\ phase = "stops"
  BY DEF StopStep, ActivateStop, RefuseStop, TakeTriggered
<1>8. StopsSettled => seq' = seq /\ phase = "stops"
  BY DEF StopsSettled
<1>9. ~Deliver
  BY DEF Deliver
<1>. QED  BY <1>2, <1>3, <1>4, <1>5, <1>6, <1>7, <1>8, <1>9 DEF Next, Run

\* Events of a call come behind the first of the call.
LEMMA FirstKept ==
    ASSUME Inv, Inv', CallFacts, backlog' = backlog, phase # "done", Next,
           News # <<>>
    PROVE  News' # <<>> /\ News'[1] = News[1]
<1>1. /\ News \in Seq(Event)
      /\ News' \in Seq(Event)
      /\ Continues(News', News)
  BY NewsContinue
<1>2. PICK n \in Nat, m \in Nat : n = Len(News) /\ m = Len(News')
  BY <1>1
<1>3. n <= m /\ \A i \in 1..n : News'[i] = News[i]
  BY <1>1, <1>2 DEF Continues
<1>4. n # 0 /\ (m = 0 <=> News' = <<>>)
  BY <1>1, <1>2
<1>5. 1 \in 1..n
  BY <1>4
<1>. QED  BY <1>3, <1>4, <1>5

\* The first event of a call has the number of its first command.
LEMMA FirstNew ==
    ASSUME Inv, Inv', CallFacts, CallsNumbered, backlog' = backlog,
           phase # "done", Next, News = <<>>
    PROVE  News' # <<>> /\ News'[1].seq = seq' /\ seq' = seq + 1
<1>1. phase = "idle"
  BY DEF CallsNumbered
<1>2. /\ seq' = seq + 1
      /\ out' # <<>>
      /\ out'[1].seq = seq + 1
  BY <1>1, StepNumbered
<1>3. backlog = <<>> /\ out' \in Seq(Event)
  <2>1. PICK b \in Seq(Event), a \in Seq(Event) : b = backlog /\ a = out
    BY NewsTyped
  <2>2. Len(b \o a) = 0
    BY <2>1 DEF News
  <2>3. Len(b) = 0
    BY <2>2
  <2>. QED  BY <2>1, <2>3 DEF Inv, CallTypeOK
<1>4. News' = out'
  BY <1>3 DEF News
<1>. QED  BY <1>2, <1>4

LEMMA SeqGrows ==
    ASSUME Inv, Inv', phase # "done", Next
    PROVE  seq \in Nat /\ seq' \in Nat /\ seq <= seq'
<1>1. seq \in Nat /\ seq' \in Nat
  BY DEF Inv, CallTypeOK
<1>. QED  BY <1>1, StepNumbered

\* The call goes on, and the consumer waits.
LEMMA WaitingMirror ==
    ASSUME Inv, Inv', CallFacts, MirrorInv, phase # "done", Next,
           UNCHANGED <<backlog, l3, channel, mirror>>
    PROVE  MirrorInv'
<1>1. /\ News' # <<>>
      /\ seq \in Nat /\ seq' \in Nat /\ seq <= seq'
      /\ News # <<>> => CallSeq' = CallSeq
      /\ News = <<>> => CallSeq' = seq' /\ seq' = seq + 1
  <2>1. CallsNumbered /\ backlog' = backlog
    BY DEF MirrorInv
  <2>2. News # <<>> => News' # <<>> /\ CallSeq' = CallSeq
    BY <2>1, FirstKept DEF CallSeq
  <2>3. News = <<>> => News' # <<>> /\ CallSeq' = seq' /\ seq' = seq + 1
    BY <2>1, FirstNew DEF CallSeq
  <2>. QED  BY <2>2, <2>3, SeqGrows
<1>2. \A i \in 1..Len(channel) : channel[i].seq \in Nat
  <2>1. \A i \in 1..Len(channel) : channel[i] \in Update
    BY DEF MirrorInv
  <2>. QED  BY <2>1 DEF Update
<1>3. News # <<>> => CallSeq \in Nat
  <2>1. News \in Seq(Event)
    BY NewsTyped
  <2>2. News # <<>> => News[1] \in Event
    BY <2>1
  <2>. QED  BY <2>2 DEF Event, CallSeq
<1>4. CallSeq' <= seq'
  BY <1>1, <1>3 DEF MirrorInv, CallsNumbered
<1>5. \A i \in 1..Len(channel) : channel[i].seq <= seq'
  BY <1>1, <1>2 DEF MirrorInv, CallsNumbered
<1>6. CallsNumbered'
  BY <1>1, <1>4, <1>5 DEF CallsNumbered
<1>7. ASSUME mirror # None
      PROVE  \E number \in Nat : \E queues : IsMirror(number, queues)'
  <2>1. PICK number \in Nat : \E queues : IsMirror(number, queues)
    BY <1>7 DEF MirrorInv
  <2>2. PICK queues : IsMirror(number, queues)
    BY <2>1
  <2>3. number <= seq' /\ number < CallSeq'
    BY <1>1, <2>2 DEF IsMirror
  <2>4. CatchesUp(number, queues)'
    BY <2>2 DEF IsMirror, CatchesUp, IsCatchingUp
  <2>. QED  BY <2>2, <2>3, <2>4 DEF IsMirror
<1>. QED  BY <1>6, <1>7 DEF MirrorInv

LEMMA QuietMirror ==
    ASSUME MirrorInv, News' = News, phase' = "idle" \/ phase' = phase,
           UNCHANGED <<seq, l3, channel, mirror>>
    PROVE  MirrorInv'
<1>1. CallsNumbered'
  BY DEF MirrorInv, CallsNumbered, CallSeq
<1>2. ASSUME mirror # None
      PROVE  \E number \in Nat : \E queues : IsMirror(number, queues)'
  <2>1. PICK number \in Nat : \E queues : IsMirror(number, queues)
    BY <1>2 DEF MirrorInv
  <2>2. PICK queues : IsMirror(number, queues)
    BY <2>1
  <2>3. CatchesUp(number, queues)'
    BY <2>2 DEF IsMirror, CatchesUp, IsCatchingUp
  <2>. QED  BY <2>2, <2>3 DEF IsMirror, CallSeq
<1>. QED  BY <1>1, <1>2 DEF MirrorInv

\* A new update ends the way from the consumer to the feed.
LEMMA AppendedUpdate ==
    ASSUME channel \in Seq(Update), NEW update \in Update,
           channel' = Append(channel, update),
           NEW number \in Nat, NEW queues, CatchesUp(number, queues),
           number < update.seq, l3' = Updated(l3, update)
    PROVE  CatchesUp(number, queues)'
<1>1. PICK q : IsCatchingUp(q, number, queues)
  BY DEF CatchesUp
<1>2. PICK n \in Nat : n = Len(channel)
  OBVIOUS
<1>3. PICK more : more = channel'
  OBVIOUS
<1>4. /\ Len(more) = n + 1
      /\ more[n + 1] = update
      /\ \A i \in 1..n : more[i] = channel[i]
  BY <1>2, <1>3
<1>5. PICK last : last = l3'
  OBVIOUS
<1>6. PICK p : p = [i \in 0..(n + 1) |-> IF i = n + 1 THEN last ELSE q[i]]
  OBVIOUS
<1>7. p[n + 1] = last /\ \A i \in 0..n : p[i] = q[i]
  BY <1>6
<1>8. p[0] = queues
  <2>1. 0 \in 0..n
    OBVIOUS
  <2>. QED  BY <1>1, <1>7, <2>1 DEF IsCatchingUp
<1>9. ASSUME NEW i \in 1..(n + 1)
      PROVE  p[i] = Taken(number, p[i - 1], more[i])
  <2>1. CASE i = n + 1
    <3>1. i - 1 = n /\ n \in 0..n
      BY <2>1
    <3>2. p[i - 1] = l3
      BY <1>1, <1>2, <1>7, <3>1 DEF IsCatchingUp
    <3>3. ~(update.seq <= number)
      BY DEF Update
    <3>4. Taken(number, l3, update) = last
      BY <1>5, <3>3 DEF Taken
    <3>. QED  BY <1>4, <1>7, <2>1, <3>2, <3>4
  <2>2. CASE i # n + 1
    <3>1. i \in 1..n /\ i \in 0..n /\ i - 1 \in 0..n
      BY <2>2
    <3>. QED  BY <1>1, <1>2, <1>4, <1>7, <3>1 DEF IsCatchingUp
  <2>. QED  BY <2>1, <2>2
<1>10. IsCatchingUp(p, number, queues)'
  BY <1>3, <1>4, <1>5, <1>7, <1>8, <1>9 DEF IsCatchingUp, Taken
<1>. QED  BY <1>10 DEF CatchesUp

LEMMA PublishedMirror ==
    ASSUME Inv, L3Inv, MirrorInv, Publish
    PROVE  MirrorInv'
<1>1. PICK r : L3Follows(r)
  BY DEF L3Inv
<1>2. PICK feed : feed = L3Diffed(TouchedBy(News))
  OBVIOUS
<1>3. PICK update : update = [seq |-> CommandSeq(News),
                              removed |-> feed.removed,
                              reduced |-> feed.reduced,
                              added |-> feed.added]
  OBVIOUS
<1>4. /\ phase = "done"
      /\ phase' = "idle"
      /\ News' = <<>>
      /\ seq' = seq
      /\ mirror' = mirror
      /\ l3' = feed.l3
      /\ channel' = Append(channel, update)
  BY <1>2, <1>3 DEF Publish, Deliver, ApplyL3, TouchedBy, News
<1>5. CallFacts /\ seq \in Nat
  BY DEF L3Inv, Inv, CallTypeOK
<1>6. /\ News \in Seq(Event)
      /\ News # <<>>
      /\ News[1] \in Event
      /\ update.seq = News[1].seq
      /\ update.seq \in Nat
      /\ update.seq <= seq
  <2>1. News \in Seq(Event)
    BY <1>5, NewsTyped
  <2>2. News # <<>>
    BY <1>4 DEF MirrorInv, CallsNumbered
  <2>3. News[1] \in Event /\ Head(News) = News[1]
    BY <2>1, <2>2
  <2>4. News[1].seq \in Nat
    BY <2>3 DEF Event
  <2>. QED  BY <1>3, <2>1, <2>2, <2>3, <2>4
            DEF CommandSeq, MirrorInv, CallsNumbered, CallSeq
<1>7. /\ Updated(l3, update) = L3FromBook
      /\ Tells(TouchedBy(News), feed)
  BY <1>1, <1>2, <1>3, <1>4, <1>5, UpdateTells
<1>8. l3' = Updated(l3, update)
  BY <1>1, <1>2, <1>4, <1>5, <1>7, L3Settled
<1>9. update \in Update
  BY <1>3, <1>6, <1>7 DEF Update, Tells
<1>10. channel \in Seq(Update) /\ channel' \in Seq(Update)
  BY <1>4, <1>9 DEF MirrorInv
<1>11. CallsNumbered'
  <2>1. PICK n \in Nat : n = Len(channel)
    BY <1>10
  <2>2. PICK more : more = channel'
    OBVIOUS
  <2>3. /\ Len(more) = n + 1
        /\ more[n + 1] = update
        /\ \A i \in 1..n : more[i] = channel[i]
    BY <1>4, <1>10, <2>1, <2>2
  <2>4. \A i \in 1..n : channel[i].seq <= seq
    BY <2>1 DEF MirrorInv, CallsNumbered
  <2>5. ASSUME NEW i \in 1..(n + 1)
        PROVE  more[i].seq <= seq
    <3>1. i \in 1..n \/ i = n + 1
      OBVIOUS
    <3>. QED  BY <1>6, <2>3, <2>4, <3>1
  <2>. QED  BY <1>4, <2>2, <2>3, <2>5 DEF CallsNumbered
<1>12. ASSUME mirror # None
       PROVE  \E number \in Nat : \E queues : IsMirror(number, queues)'
  <2>1. PICK number \in Nat : \E queues : IsMirror(number, queues)
    BY <1>12 DEF MirrorInv
  <2>2. PICK queues : IsMirror(number, queues)
    BY <2>1
  <2>3. number < update.seq /\ CatchesUp(number, queues)
    BY <1>6, <2>2 DEF IsMirror, CallSeq
  <2>4. CatchesUp(number, queues)'
    BY <1>4, <1>8, <1>9, <1>10, <2>3, AppendedUpdate
  <2>. QED  BY <1>4, <2>2, <2>4 DEF IsMirror
<1>. QED  BY <1>4, <1>10, <1>11, <1>12 DEF MirrorInv

\* All updates that are on their way are older than the snapshot.
LEMMA JoinedMirror ==
    ASSUME Inv, L3Inv, MirrorInv, Join
    PROVE  MirrorInv'
<1>1. /\ UNCHANGED <<out, backlog, phase, seq, l3, channel>>
      /\ BetweenCalls
      /\ mirror' = [seq |-> seq, queues |-> L3FromBook]
  BY DEF Join, vars, engineVars, L3Snapshot
<1>2. News = <<>> /\ News' = <<>>
  BY <1>1 DEF L3Inv, CallFacts, BetweenCalls, News
<1>3. l3 = L3FromBook /\ seq \in Nat
  BY <1>1, L3InvSuffices DEF Inv, CallTypeOK
<1>4. CallsNumbered'
  BY <1>1, <1>2 DEF MirrorInv, CallsNumbered, BetweenCalls
<1>5. CatchesUp(seq, l3)'
  <2>1. PICK n \in Nat : n = Len(channel)
    BY DEF MirrorInv
  <2>2. PICK q : q = [i \in 0..n |-> l3]
    OBVIOUS
  <2>3. \A i \in 0..n : q[i] = l3
    BY <2>2
  <2>4. q[0] = l3 /\ q[n] = l3
    <3>1. 0 \in 0..n /\ n \in 0..n
      OBVIOUS
    <3>. QED  BY <2>3, <3>1
  <2>5. ASSUME NEW i \in 1..n
        PROVE  q[i] = Taken(seq, q[i - 1], channel[i])
    <3>1. i \in 0..n /\ i - 1 \in 0..n
      OBVIOUS
    <3>2. channel[i].seq <= seq
      BY <2>1 DEF MirrorInv, CallsNumbered
    <3>. QED  BY <2>3, <3>1, <3>2 DEF Taken
  <2>6. IsCatchingUp(q, seq, l3)'
    BY <1>1, <2>1, <2>4, <2>5 DEF IsCatchingUp, Taken
  <2>. QED  BY <2>6 DEF CatchesUp
<1>6. IsMirror(seq, l3)'
  BY <1>1, <1>2, <1>3, <1>5 DEF IsMirror
<1>7. \E number \in Nat : \E queues : IsMirror(number, queues)'
  <2>1. PICK number, queues : number = seq /\ queues = l3
    OBVIOUS
  <2>2. IsMirror(number, queues)'
    BY <1>1, <1>6, <2>1 DEF IsMirror, CatchesUp, IsCatchingUp
  <2>3. number \in Nat
    BY <1>3, <2>1
  <2>. QED  BY <2>2, <2>3
<1>. QED  BY <1>1, <1>4, <1>7 DEF MirrorInv

\* What the consumer makes of the oldest update.
LEMMA ReceivedUpdate ==
    ASSUME channel \in Seq(Update), channel # <<>>, channel' = Tail(channel),
           NEW number, NEW queues, CatchesUp(number, queues), l3' = l3,
           NEW now, now = Taken(number, queues, Head(channel))
    PROVE  CatchesUp(number, now)'
<1>1. PICK q : IsCatchingUp(q, number, queues)
  BY DEF CatchesUp
<1>2. PICK n \in Nat : n = Len(channel)
  OBVIOUS
<1>3. PICK rest : rest = channel'
  OBVIOUS
<1>4. /\ n # 0
      /\ Len(rest) = n - 1
      /\ n - 1 \in Nat
      /\ \A i \in 1..(n - 1) : rest[i] = channel[i + 1]
      /\ Head(channel) = channel[1]
  BY <1>2, <1>3
<1>5. PICK m \in Nat : m = n - 1
  BY <1>4
<1>6. PICK p : p = [i \in 0..m |-> q[i + 1]]
  OBVIOUS
<1>7. \A i \in 0..m : p[i] = q[i + 1]
  BY <1>6
<1>8. p[0] = q[1] /\ p[m] = q[n]
  <2>1. 0 \in 0..m /\ m \in 0..m /\ m + 1 = n /\ 0 + 1 = 1
    BY <1>5
  <2>2. p[0] = q[0 + 1] /\ p[m] = q[m + 1]
    BY <1>7, <2>1
  <2>. QED  BY <2>1, <2>2
<1>9. \A i \in 1..n : q[i] = Taken(number, q[i - 1], channel[i])
  BY <1>1, <1>2 DEF IsCatchingUp
<1>10. q[1] = Taken(number, queues, channel[1])
  <2>1. 1 \in 1..n /\ 1 - 1 = 0
    BY <1>4
  <2>2. q[1] = Taken(number, q[1 - 1], channel[1])
    BY <1>9, <2>1
  <2>. QED  BY <1>1, <2>1, <2>2 DEF IsCatchingUp
<1>11. ASSUME NEW i \in 1..m
       PROVE  p[i] = Taken(number, p[i - 1], rest[i])
  <2>1. i + 1 \in 1..n /\ i \in 0..m /\ i - 1 \in 0..m
        /\ (i + 1) - 1 = i /\ (i - 1) + 1 = i
    BY <1>5
  <2>2. PICK j \in 1..n : j = i + 1
    BY <2>1
  <2>3. q[j] = Taken(number, q[i], channel[j])
    <3>1. j - 1 = i
      BY <2>1, <2>2
    <3>2. q[j] = Taken(number, q[j - 1], channel[j])
      BY <1>9, <2>2
    <3>. QED  BY <3>1, <3>2
  <2>4. p[i] = q[j]
    BY <1>7, <2>1, <2>2
  <2>5. p[i - 1] = q[i]
    <3>1. p[i - 1] = q[(i - 1) + 1]
      BY <1>7, <2>1
    <3>. QED  BY <2>1, <3>1
  <2>6. rest[i] = channel[j]
    BY <1>4, <1>5, <2>2
  <2>. QED  BY <2>3, <2>4, <2>5, <2>6
<1>12. q[n] = l3
  BY <1>1, <1>2 DEF IsCatchingUp
<1>13. IsCatchingUp(p, number, now)'
  BY <1>3, <1>4, <1>5, <1>8, <1>10, <1>11, <1>12 DEF IsCatchingUp, Taken
<1>. QED  BY <1>13 DEF CatchesUp

\* The consumer takes what is above its snapshot and skips the rest.
LEMMA ReceivedMirror ==
    ASSUME Inv, CallFacts, MirrorInv, Receive
    PROVE  MirrorInv'
<1>1. /\ UNCHANGED <<out, backlog, phase, seq, l3>>
      /\ BetweenCalls
      /\ channel # <<>>
      /\ channel' = Tail(channel)
      /\ mirror' = IF mirror = None \/ Head(channel).seq <= mirror.seq
                   THEN mirror
                   ELSE [mirror EXCEPT !.queues = Updated(@, Head(channel))]
  BY DEF Receive, vars, engineVars
<1>2. News = <<>> /\ News' = <<>> /\ phase' = "idle"
  BY <1>1 DEF CallFacts, BetweenCalls, News
<1>3. channel \in Seq(Update) /\ channel' \in Seq(Update)
  BY <1>1 DEF MirrorInv
<1>4. CallsNumbered'
  <2>1. PICK n \in Nat : n = Len(channel)
    BY <1>3
  <2>2. PICK rest : rest = channel'
    OBVIOUS
  <2>3. /\ n # 0
        /\ Len(rest) = n - 1
        /\ \A i \in 1..(n - 1) : rest[i] = channel[i + 1]
    BY <1>1, <1>3, <2>1, <2>2
  <2>4. \A i \in 1..n : channel[i].seq <= seq
    BY <2>1 DEF MirrorInv, CallsNumbered
  <2>5. ASSUME NEW i \in 1..(n - 1)
        PROVE  rest[i].seq <= seq
    <3>1. PICK j \in 1..n : j = i + 1
      BY <2>3
    <3>. QED  BY <2>3, <2>4, <3>1
  <2>. QED  BY <1>1, <1>2, <2>2, <2>3, <2>5 DEF CallsNumbered
<1>5. ASSUME mirror' # None
      PROVE  \E number \in Nat : \E queues : IsMirror(number, queues)'
  <2>1. mirror # None
    BY <1>1, <1>5
  <2>2. PICK number \in Nat : \E queues : IsMirror(number, queues)
    BY <2>1 DEF MirrorInv
  <2>3. PICK queues : IsMirror(number, queues)
    BY <2>2
  <2>4. PICK head : head = Head(channel)
    OBVIOUS
  <2>5. PICK now : now = Taken(number, queues, head)
    OBVIOUS
  <2>6. mirror' = [seq |-> number, queues |-> now]
    <3>1. mirror = [seq |-> number, queues |-> queues]
      BY <2>3 DEF IsMirror
    <3>2. CASE head.seq <= number
      <4>1. mirror' = mirror
        BY <1>1, <2>4, <3>1, <3>2
      <4>2. now = queues
        BY <2>5, <3>2 DEF Taken
      <4>. QED  BY <3>1, <4>1, <4>2
    <3>3. CASE ~(head.seq <= number)
      <4>1. mirror' = [mirror EXCEPT !.queues = Updated(@, head)]
        BY <1>1, <2>1, <2>4, <3>1, <3>3
      <4>2. now = Updated(queues, head)
        BY <2>5, <3>3 DEF Taken
      <4>. QED  BY <3>1, <4>1, <4>2
    <3>. QED  BY <3>2, <3>3
  <2>7. CatchesUp(number, queues) /\ now = Taken(number, queues, Head(channel))
    BY <2>3, <2>4, <2>5 DEF IsMirror
  <2>8. CatchesUp(number, now)'
    BY <1>1, <1>3, <2>7, ReceivedUpdate
  <2>9. number <= seq'
    BY <1>1, <2>3 DEF IsMirror
  <2>10. IsMirror(number, now)'
    BY <1>2, <2>6, <2>8, <2>9 DEF IsMirror
  <2>. QED  BY <2>10
<1>. QED  BY <1>3, <1>4, <1>5 DEF MirrorInv

LEMMA BatchedMirror ==
    ASSUME Inv, CallFacts, MirrorInv, NextOfBatch
    PROVE  MirrorInv'
<1>1. /\ phase' = "idle"
      /\ backlog' = backlog \o out
      /\ out' = <<>>
      /\ UNCHANGED <<seq, l3, channel, mirror>>
  BY DEF NextOfBatch, Deliver
<1>2. News' = News
  <2>1. \A events \in Seq(Event) : events \o <<>> = events
    OBVIOUS
  <2>. QED  BY <1>1, <2>1, NewsTyped DEF News
<1>. QED  BY <1>1, <1>2, QuietMirror

LEMMA IdleMirror ==
    ASSUME MirrorInv, UNCHANGED <<vars, feedVars>>
    PROVE  MirrorInv'
<1>1. UNCHANGED <<out, backlog, phase, seq, l3, channel, mirror>>
  BY DEF vars, engineVars, feedVars
<1>2. News' = News
  BY <1>1 DEF News
<1>. QED  BY <1>1, <1>2, QuietMirror

LEMMA FeedKeepsMirror ==
    ASSUME Inv, Inv', L3Inv, MirrorInv, [FeedNext]_<<vars, feedVars>>
    PROVE  MirrorInv'
<1>1. CallFacts
  BY DEF L3Inv
<1>2. CASE phase # "done" /\ Next /\ UNCHANGED feedVars
  <2>1. UNCHANGED <<backlog, l3, channel, mirror>>
    BY <1>2 DEF feedVars
  <2>. QED  BY <1>1, <1>2, <2>1, WaitingMirror
<1>. QED  BY <1>1, <1>2, BatchedMirror, PublishedMirror, JoinedMirror,
             ReceivedMirror, IdleMirror DEF FeedNext

LEMMA FeedInitMirror ==
    ASSUME FeedInit
    PROVE  MirrorInv
<1>1. /\ phase = "idle"
      /\ channel = <<>>
      /\ mirror = None
      /\ News = <<>>
  BY DEF FeedInit, Init, News
<1>. QED  BY <1>1 DEF MirrorInv, CallsNumbered

\* All has arrived: the consumer is where the feed is.
LEMMA MirrorSuffices ==
    ASSUME Inv, L3Inv, MirrorInv
    PROVE  L3InSync
<1> SUFFICES ASSUME BetweenCalls, mirror # None, channel = <<>>
             PROVE  mirror.queues = L3FromBook
  BY DEF L3InSync
<1>1. PICK number \in Nat : \E queues : IsMirror(number, queues)
  BY DEF MirrorInv
<1>2. PICK queues : IsMirror(number, queues)
  BY <1>1
<1>3. PICK q : IsCatchingUp(q, number, queues)
  BY <1>2 DEF IsMirror, CatchesUp
<1>4. q[0] = queues /\ q[0] = l3
  BY <1>3 DEF IsCatchingUp
<1>. QED  BY <1>2, <1>4, L3InvSuffices DEF IsMirror

\* A consumer of the L3 feed that joined at any time has the queues of the
\* book, every order at its place, when all updates have arrived, provided
\* that no order is amended to a better price.
THEOREM L3MirrorsExact ==
    FeedSpec /\ [][NeverAdvances]_vars => []L3InSync
<1>1. FeedInit => MirrorInv
  BY FeedInitMirror
<1>2. L3FeedInv /\ L3FeedInv' /\ MirrorInv /\ [FeedNext]_<<vars, feedVars>>
        => MirrorInv'
  BY FeedKeepsMirror DEF L3FeedInv, FeedInv
<1>3. L3FeedInv /\ MirrorInv => L3InSync
  BY MirrorSuffices DEF L3FeedInv, FeedInv
<1>. QED  BY <1>1, <1>2, <1>3, L3Invariance, PTL DEF FeedSpec
=============================================================================
