---------------------------- MODULE LedgerProofs ----------------------------
(***************************************************************************)
(* What the events of a call are worth to a client, for every menu of      *)
(* orders, every pair of rates and every width of a fee: what each trade   *)
(* is charged, and that the ledger of a client who sees nothing else is    *)
(* the book.                                                               *)
(***************************************************************************)
EXTENDS EventLedger, VolumeProofs

----------------------------------------------------------------------------
(* Rounding *)

\* A larger amount has no smaller quotient.
LEMMA DivMonotone ==
    ASSUME NEW x \in Nat, NEW y \in Nat, NEW d \in Nat \ {0}, x <= y
    PROVE  x \div d <= y \div d
<1>. DEFINE a == x \div d
            b == y \div d
<1>1. a \in Nat /\ b \in Nat /\ d * a <= x /\ y < d * b + d
  BY DivFacts
<1>. HIDE DEF a, b
<1>2. d * a < d * b + d
  BY <1>1
<1>3. SUFFICES ASSUME b + 1 <= a PROVE FALSE
  BY <1>1 DEF a, b
<1>4. d * (b + 1) <= d * a
  BY <1>1, <1>3, SMTT(30)
<1>. QED  BY <1>1, <1>2, <1>4

\* Rebates come out of the fee of the other side, whatever the rounding: for
\* rates that do not add up to a loss, and fees that fit.
LEMMA ChargesCoverEachOther ==
    ASSUME NEW rate \in Int, NEW other \in Int, rate + other >= 0,
           NEW price \in Nat, NEW qty \in Nat,
           Charge(rate, price, qty) # -FeeMax - 1,
           Charge(other, price, qty) # -FeeMax - 1
    PROVE  Charge(rate, price, qty) + Charge(other, price, qty) >= 0
<1>. DEFINE x == price * qty * rate
            y == price * qty * other
<1>1. x \in Int /\ y \in Int /\ x + y >= 0
  <2>1. price * qty \in Nat
    OBVIOUS
  <2>2. x + y = (price * qty) * (rate + other)
    BY <2>1, SMTT(30)
  <2>3. \A a, b \in Nat : a * b >= 0
    BY SMTT(30)
  <2>. QED  BY <2>1, <2>2, <2>3
<1>2. /\ Charge(rate, price, qty) =
            Clamp(IF x >= 0 THEN x \div PpmScale ELSE -((-x) \div PpmScale))
      /\ Charge(other, price, qty) =
            Clamp(IF y >= 0 THEN y \div PpmScale ELSE -((-y) \div PpmScale))
  BY DEF Charge
<1>. HIDE DEF x, y
<1>3. PpmScale \in Nat \ {0} /\ FeeMax \in Nat
  BY FeeAssumption
<1>4. CASE x >= 0 /\ y >= 0
  <2>1. x \div PpmScale \in Nat /\ y \div PpmScale \in Nat
    BY <1>1, <1>3, <1>4, DivFacts
  <2>. QED  BY <1>2, <1>3, <1>4, <2>1 DEF Clamp
<1>5. CASE x < 0
  <2>1. /\ -x \in Nat /\ y \in Nat /\ -x <= y /\ ~(x >= 0) /\ y >= 0
    BY <1>1, <1>5
  <2>2. /\ (-x) \div PpmScale \in Nat
        /\ y \div PpmScale \in Nat
        /\ (-x) \div PpmScale <= y \div PpmScale
    BY <1>3, <2>1, DivFacts, DivMonotone
  <2>. QED  BY <1>2, <1>3, <2>1, <2>2 DEF Clamp
<1>6. CASE y < 0
  <2>1. /\ -y \in Nat /\ x \in Nat /\ -y <= x /\ ~(y >= 0) /\ x >= 0
    BY <1>1, <1>6
  <2>2. /\ (-y) \div PpmScale \in Nat
        /\ x \div PpmScale \in Nat
        /\ (-y) \div PpmScale <= x \div PpmScale
    BY <1>3, <2>1, DivFacts, DivMonotone
  <2>. QED  BY <1>2, <1>3, <2>1, <2>2 DEF Clamp
<1>. QED  BY <1>1, <1>4, <1>5, <1>6

----------------------------------------------------------------------------
\* A trade has the fees its price and quantity call for.
Charged(event) ==
    event.type = "Trade" =>
        /\ event.price \in Nat
        /\ event.qty \in Nat
        /\ event.taker_fee = TakerFee(event.price, event.qty)
        /\ event.maker_fee = MakerFee(event.price, event.qty)

AllCharged(events) == \A i \in DOMAIN events : Charged(events[i])

FeesCharged == AllCharged(out)

----------------------------------------------------------------------------
LEMMA OtherEventsCharged ==
    ASSUME NEW s, NEW id
    PROVE  /\ Charged(Accepted(s, id))
           /\ Charged(Filled(s, id))
           /\ Charged(Canceled(s, id))
           /\ Charged(Modified(s, id))
           /\ Charged(Triggered(s, id))
           /\ \A reason : Charged(Rejected(s, reason))
           /\ \A price, qty : Charged(Resting(s, id, price, qty))
BY DEF Charged, Accepted, Filled, Canceled, Modified, Triggered, Rejected,
       Resting

LEMMA ConcatCharged ==
    ASSUME NEW S, NEW events \in Seq(S), NEW more \in Seq(S),
           AllCharged(events), AllCharged(more)
    PROVE  AllCharged(events \o more)
BY DEF AllCharged

\* The events the tail of settle adds are no trades.
LEMMA FinishCharged ==
    ASSUME CallTypeOK, FeesCharged, phase = "match", NEW ids \in Seq(Nat),
           NEW event \in Event, Charged(event), FinishWith(ids, event)
    PROVE  FeesCharged'
<1>1. SelfCancels(ids) \in Seq(Event) /\ out \in Seq(Event)
  BY SelfCancelsTyped DEF CallTypeOK
<1>2. AllCharged(SelfCancels(ids))
  BY OtherEventsCharged DEF AllCharged, SelfCancels
<1>3. <<event>> \in Seq(Event) /\ AllCharged(<<event>>)
  BY DEF AllCharged
<1>4. /\ out \o SelfCancels(ids) \in Seq(Event)
      /\ AllCharged(out \o SelfCancels(ids))
  BY <1>1, <1>2, ConcatCharged DEF FeesCharged
<1>5. AllCharged((out \o SelfCancels(ids)) \o <<event>>)
  BY <1>3, <1>4, ConcatCharged
<1>. QED  BY <1>5 DEF FinishWith, FeesCharged

LEMMA FeesChargedKept ==
    Inv /\ FeesCharged /\ [Next]_vars => FeesCharged'
<1>. SUFFICES ASSUME Inv, FeesCharged, [Next]_vars
              PROVE  FeesCharged'
  OBVIOUS
<1>1. ASSUME out' = out
      PROVE  FeesCharged'
  BY <1>1 DEF FeesCharged
<1>2. ASSUME NEW event, Charged(event), out' = <<event>>
      PROVE  FeesCharged'
  BY <1>2 DEF FeesCharged, AllCharged
<1>3. ASSUME NEW event \in Event, Charged(event), out' = Append(out, event)
      PROVE  FeesCharged'
  <2>1. out \in Seq(Event)
    BY DEF Inv, CallTypeOK
  <2>. QED  BY <1>3, <2>1 DEF FeesCharged, AllCharged
<1>4. CASE \E order \in NewOrders : SubmitNew(order)
  BY <1>2, <1>4, OtherEventsCharged
     DEF SubmitNew, RejectCommand, ParkStop, RefuseOrder, AcceptOrder
<1>5. CASE \E id \in KnownIds : SubmitCancel(id)
  BY <1>2, <1>5, OtherEventsCharged
     DEF SubmitCancel, CancelInBook, CancelStop, CancelUnknown
<1>6. CASE \E id \in KnownIds, a \in Amendments : SubmitModify(id, a)
  <2>1. PICK id \in KnownIds, a \in Amendments : SubmitModify(id, a)
    BY <1>6
  <2>2. CASE ModifyInPlace(id, a)
    <3>1. out' = <<Modified(seq + 1, id),
                   Resting(seq + 1, id, a.price, a.qty)>>
      BY <2>2 DEF ModifyInPlace
    <3>. QED  BY <3>1, OtherEventsCharged DEF FeesCharged, AllCharged
  <2>3. CASE ~ModifyInPlace(id, a)
    BY <1>2, <2>1, <2>3, OtherEventsCharged
       DEF SubmitModify, RejectCommand, ModifyUnknown, ModifyReplace
  <2>. QED  BY <2>2, <2>3
<1>7. CASE phase = "match" /\ MatchStep
  <2>. USE <1>7
  <2>1. PICK price \in DOMAIN levels[MakerSide] :
           \/ TradeWithHead(price)
           \/ CancelMaker(price)
           \/ CancelTaker(price)
           \/ CancelBoth(price)
    BY DEF MatchStep
  <2>2. /\ live \in LiveOrder
        /\ live.order_id \in Nat
        /\ live.side \in Sides
        /\ live.qty \in Nat
        /\ live.self_canceled \in Seq(Nat)
        /\ seq \in Nat
        /\ price \in Nat
        /\ HeadOf(price) \in Nat
        /\ resting[HeadOf(price)].qty \in Nat
    BY LiveFacts, MakerFacts
  <2>3. /\ Canceled(seq, live.order_id) \in Event
        /\ Charged(Canceled(seq, live.order_id))
    BY <2>2, EventsTyped, OtherEventsCharged
  <2>4. CASE TradeWithHead(price)
    <3>. DEFINE traded == Min({live.qty, resting[HeadOf(price)].qty})
                trade == Trade(seq, live.order_id, HeadOf(price), price,
                               traded, live.side, TakerFee(price, traded),
                               MakerFee(price, traded))
    <3>1. out' = Append(out, trade)
      BY <2>4 DEF TradeWithHead
    <3>2. traded \in Nat
      BY <2>2, MinOfTwo
    <3>. HIDE DEF traded
    <3>3. trade \in Event
      BY <2>2, <3>2, FeesTyped, EventsTyped
    <3>4. Charged(trade)
      BY <2>2, <3>2 DEF Charged, Trade
    <3>. QED  BY <1>3, <3>1, <3>3, <3>4
  <2>5. CASE CancelMaker(price)
    BY <1>1, <2>5 DEF CancelMaker
  <2>6. CASE CancelTaker(price)
    BY <2>2, <2>3, <2>6, FinishCharged DEF CancelTaker, Inv
  <2>7. CASE CancelBoth(price)
    <3>1. Append(live.self_canceled, HeadOf(price)) \in Seq(Nat)
      BY <2>2
    <3>. QED  BY <2>3, <2>7, <3>1, FinishCharged DEF CancelBoth, Inv
  <2>. QED  BY <2>1, <2>4, <2>5, <2>6, <2>7
<1>8. CASE phase = "match" /\ FinishStep
  <2>. USE <1>8
  <2>1. /\ live.order_id \in Nat
        /\ live.qty \in Nat
        /\ live.limit_price \in Nat \cup {None}
        /\ live.display \in Nat
        /\ live.self_canceled \in Seq(Nat)
        /\ seq \in Nat
    BY LiveFacts
  <2>2. /\ Filled(seq, live.order_id) \in Event
        /\ Charged(Filled(seq, live.order_id))
        /\ Canceled(seq, live.order_id) \in Event
        /\ Charged(Canceled(seq, live.order_id))
    BY <2>1, EventsTyped, OtherEventsCharged
  <2>3. CASE FinishFilled \/ CancelRemainder
    BY <2>1, <2>2, <2>3, FinishCharged DEF FinishFilled, CancelRemainder, Inv
  <2>4. CASE RestRemainder
    <3>1. PICK visible \in {live.qty, live.display} :
             /\ live.limit_price # None
             /\ FinishWith(live.self_canceled,
                           Resting(seq, live.order_id, live.limit_price,
                                   visible))
      BY <2>4 DEF RestRemainder, Rests
    <3>2. /\ Resting(seq, live.order_id, live.limit_price, visible) \in Event
          /\ Charged(Resting(seq, live.order_id, live.limit_price, visible))
      BY <2>1, <3>1, EventsTyped, OtherEventsCharged
    <3>. QED  BY <2>1, <3>1, <3>2, FinishCharged DEF Inv
  <2>. QED  BY <2>3, <2>4 DEF FinishStep
<1>9. CASE StopStep
  <2>1. PICK i \in DOMAIN stops : ActivateStop(i) \/ RefuseStop(i)
    BY <1>9 DEF StopStep
  <2>2. /\ stops[i].id \in Nat
        /\ seq \in Nat
        /\ out \in Seq(Event)
    <3>1. stops[i] \in PendingStop
      BY DEF Inv, CallTypeOK
    <3>. QED  BY <3>1 DEF Inv, CallTypeOK, PendingStop
  <2>3. /\ Triggered(seq, stops[i].id) \in Event
        /\ Charged(Triggered(seq, stops[i].id))
    BY <2>2, EventsTyped, OtherEventsCharged
  <2>4. CASE ActivateStop(i)
    BY <1>3, <2>3, <2>4 DEF ActivateStop
  <2>5. CASE RefuseStop(i)
    <3>. DEFINE refusal == Rejected(seq, StopCheck(stops[i]))
    <3>1. StopCheck(stops[i]) \in RejectReasons
      BY <2>5, PrecheckTyped DEF RefuseStop, StopCheck
    <3>2. refusal \in Event /\ Charged(refusal)
      BY <2>2, <3>1, EventsTyped, OtherEventsCharged
    <3>. HIDE DEF refusal
    <3>3. /\ <<Triggered(seq, stops[i].id), refusal>> \in Seq(Event)
          /\ AllCharged(<<Triggered(seq, stops[i].id), refusal>>)
      BY <2>3, <3>2 DEF AllCharged
    <3>4. out' = out \o <<Triggered(seq, stops[i].id), refusal>>
      BY <2>5 DEF RefuseStop, refusal
    <3>. QED  BY <2>2, <3>3, <3>4, ConcatCharged DEF FeesCharged
  <2>. QED  BY <2>1, <2>4, <2>5
<1>10. CASE StopsSettled
  BY <1>1, <1>10 DEF StopsSettled
<1>11. CASE Deliver
  BY <1>11 DEF Deliver, FeesCharged, AllCharged
<1>12. CASE UNCHANGED vars
  BY <1>1, <1>12 DEF vars, engineVars
<1>. QED  BY <1>4, <1>5, <1>6, <1>7, <1>8, <1>9, <1>10, <1>11, <1>12
          DEF Next, Run

----------------------------------------------------------------------------
(* Fees of several trades *)

\* One fee, where the width of a fee does not cut it.
LEMMA ChargeRounds ==
    ASSUME NEW rate \in Int, NEW price \in Nat, NEW qty \in Nat,
           NEW fee, fee = Charge(rate, price, qty),
           -FeeMax <= fee, fee < FeeMax
    PROVE  fee \in Int /\ RoundedTowardZero(fee, rate, price * qty, 1)
<1>1. PICK n \in Nat : n = price * qty
  OBVIOUS
<1>2. PICK x \in Int : x = n * rate
  OBVIOUS
<1>3. PpmScale \in Nat \ {0} /\ FeeMax \in Nat
  BY FeeAssumption
<1>4. fee = Clamp(IF x >= 0 THEN x \div PpmScale ELSE -((-x) \div PpmScale))
  BY <1>1, <1>2 DEF Charge
<1>5. CASE rate >= 0
  <2>1. x \in Nat
    <3>1. \A a, b \in Nat : a * b \in Nat
      OBVIOUS
    <3>2. rate \in Nat
      BY <1>5
    <3>. QED  BY <1>2, <3>1, <3>2
  <2>2. PICK q \in Nat : q = x \div PpmScale
    BY <1>3, <2>1, DivFacts
  <2>3. PpmScale * q <= x /\ x < PpmScale * q + PpmScale
    BY <1>3, <2>1, <2>2, DivFacts
  <2>4. fee = q
    BY <1>3, <1>4, <2>1, <2>2 DEF Clamp
  <2>5. fee * rate >= 0
    <3>1. \A a, b \in Nat : a * b >= 0
      BY SMTT(30)
    <3>2. rate \in Nat
      BY <1>5
    <3>. QED  BY <2>2, <2>4, <3>1, <3>2
  <2>6. q * PpmScale = PpmScale * q /\ rate * n = x /\ 1 * PpmScale = PpmScale
    BY <1>2, <1>3
  <2>. QED  BY <1>1, <1>3, <1>5, <2>1, <2>2, <2>3, <2>4, <2>5, <2>6
            DEF RoundedTowardZero
<1>6. CASE rate < 0
  <2>1. PICK y \in Nat : y = -x
    <3>1. \A a, b \in Nat : a * b \in Nat
      OBVIOUS
    <3>2. -rate \in Nat
      BY <1>6
    <3>3. n * (-rate) = -x
      BY <1>2
    <3>4. -x \in Nat
      BY <3>1, <3>2, <3>3
    <3>. QED  BY <3>4
  <2>2. PICK q \in Nat : q = y \div PpmScale
    BY <1>3, <2>1, DivFacts
  <2>3. PpmScale * q <= y /\ y < PpmScale * q + PpmScale
    BY <1>3, <2>1, <2>2, DivFacts
  <2>4. fee = -q
    <3>1. CASE x >= 0
      <4>1. x = 0 /\ y = 0
        BY <2>1, <3>1
      <4>2. x \div PpmScale = q /\ q = 0
        <5>1. PpmScale * q <= 0
          BY <2>3, <4>1
        <5>2. \A a \in Nat \ {0}, b \in Nat : a * b <= 0 => b = 0
          BY SMTT(30)
        <5>. QED  BY <1>3, <2>2, <4>1, <5>1, <5>2
      <4>. QED  BY <1>3, <1>4, <3>1, <4>2 DEF Clamp
    <3>2. CASE ~(x >= 0)
      <4>1. fee = Clamp(-q)
        BY <1>4, <2>1, <2>2, <3>2
      <4>. QED  BY <1>3, <4>1 DEF Clamp
    <3>. QED  BY <3>1, <3>2
  <2>5. fee * rate >= 0
    <3>1. \A a, b \in Nat : (-a) * (-b) >= 0
      BY SMTT(30)
    <3>2. PICK r \in Nat : r = -rate
      BY <1>6
    <3>3. rate = -r
      BY <3>2
    <3>. QED  BY <2>2, <2>4, <3>1, <3>3
  <2>6. /\ q * PpmScale = PpmScale * q /\ (-rate) * n = y
        /\ 1 * PpmScale = PpmScale
    BY <1>2, <1>3, <2>1
  <2>7. (IF fee < 0 THEN -fee ELSE fee) = q
    BY <2>2, <2>4
  <2>. QED  BY <1>1, <1>3, <1>6, <2>1, <2>2, <2>3, <2>4, <2>5, <2>6, <2>7
            DEF RoundedTowardZero
<1>. QED  BY <1>5, <1>6

LEMMA BoundsAdd ==
    ASSUME NEW a \in Nat, NEW b \in Nat, NEW f \in Nat, NEW p \in Nat,
           NEW m \in Nat, NEW n \in Nat,
           a <= n, a + f > n, b <= m, b + p > m
    PROVE  a + b <= m + n /\ (a + b) + (f + p) > m + n
OBVIOUS

\* Two amounts that are rounded the same way.
LEMMA RoundingAdds ==
    ASSUME NEW rate \in Int,
           NEW fee \in Int, NEW notional \in Nat, NEW fills \in Nat,
           NEW one \in Int, NEW traded \in Nat,
           RoundedTowardZero(fee, rate, notional, fills),
           RoundedTowardZero(one, rate, traded, 1)
    PROVE  RoundedTowardZero(one + fee, rate, traded + notional, fills + 1)
<1>1. PpmScale \in Nat \ {0}
  BY FeeAssumption
<1>2. PICK r \in Nat : r = IF rate < 0 THEN -rate ELSE rate
  OBVIOUS
<1>3. PICK a \in Nat : a = IF fee < 0 THEN -fee ELSE fee
  OBVIOUS
<1>4. PICK b \in Nat : b = IF one < 0 THEN -one ELSE one
  OBVIOUS
<1>5. /\ fee * rate >= 0 /\ one * rate >= 0
      /\ a * PpmScale <= r * notional
      /\ a * PpmScale + fills * PpmScale > r * notional
      /\ b * PpmScale <= r * traded
      /\ b * PpmScale + 1 * PpmScale > r * traded
  BY <1>2, <1>3, <1>4 DEF RoundedTowardZero
<1>6. (IF one + fee < 0 THEN -(one + fee) ELSE one + fee) = a + b
  <2>1. CASE rate > 0
    <3>1. \A x \in Int : x * rate >= 0 => x >= 0
      BY <2>1, SMTT(30)
    <3>2. fee >= 0 /\ one >= 0
      BY <1>5, <3>1
    <3>. QED  BY <1>3, <1>4, <3>2
  <2>2. CASE rate < 0
    <3>1. \A x \in Int : x * rate >= 0 => x <= 0
      BY <2>2, SMTT(30)
    <3>2. fee <= 0 /\ one <= 0
      BY <1>5, <3>1
    <3>. QED  BY <1>3, <1>4, <3>2
  <2>3. CASE rate = 0
    <3>1. r * notional = 0 /\ r * traded = 0
      BY <1>2, <2>3
    <3>2. \A x \in Nat : x * PpmScale <= 0 => x = 0
      BY <1>1, SMTT(30)
    <3>3. a = 0 /\ b = 0
      BY <1>5, <3>1, <3>2
    <3>. QED  BY <1>3, <1>4, <3>3
  <2>. QED  BY <2>1, <2>2, <2>3
<1>7. (one + fee) * rate >= 0
  <2>1. (one + fee) * rate = one * rate + fee * rate
    BY SMTT(30)
  <2>2. PICK x \in Int, y \in Int : x = one * rate /\ y = fee * rate
    OBVIOUS
  <2>. QED  BY <1>5, <2>1, <2>2
<1>8. /\ (a + b) * PpmScale = a * PpmScale + b * PpmScale
      /\ (fills + 1) * PpmScale = fills * PpmScale + 1 * PpmScale
      /\ r * (traded + notional) = r * traded + r * notional
  BY <1>1, SMTT(30)
<1>9. PICK as \in Nat, bs \in Nat, fs \in Nat, rt \in Nat, rn \in Nat,
          ps \in Nat :
        /\ as = a * PpmScale /\ bs = b * PpmScale /\ fs = fills * PpmScale
        /\ rt = r * traded /\ rn = r * notional /\ ps = 1 * PpmScale
  BY <1>1
<1>10. /\ as <= rn /\ as + fs > rn /\ bs <= rt /\ bs + ps > rt
  BY <1>5, <1>9
<1>11. as + bs <= rt + rn /\ (as + bs) + (fs + ps) > rt + rn
  BY <1>10, BoundsAdd
<1>12. /\ (a + b) * PpmScale <= r * (traded + notional)
       /\ (a + b) * PpmScale + (fills + 1) * PpmScale > r * (traded + notional)
  BY <1>8, <1>9, <1>11
<1>. QED  BY <1>2, <1>6, <1>7, <1>12 DEF RoundedTowardZero

\* Any number of them.
LEMMA RoundingSums ==
    ASSUME NEW S, IsFiniteSet(S), S # {}, NEW fees, NEW notionals,
           NEW rate \in Int,
           \A i \in S : /\ fees[i] \in Int
                        /\ notionals[i] \in Nat
                        /\ RoundedTowardZero(fees[i], rate, notionals[i], 1)
    PROVE  RoundedTowardZero(SumFunctionOnSet(fees, S), rate,
                             SumFunctionOnSet(notionals, S), Cardinality(S))
<1> DEFINE Rounded(T) ==
               RoundedTowardZero(SumFunctionOnSet(fees, T), rate,
                                 SumFunctionOnSet(notionals, T), Cardinality(T))
           Family == {T \in SUBSET S : T # {} => Rounded(T)}
<1>1. {} \in Family
  OBVIOUS
<1>2. ASSUME NEW T \in SUBSET S, T # {}, \A x \in T : T \ {x} \in Family
      PROVE  T \in Family
  <2>1. PICK x \in T : TRUE
    BY <1>2
  <2>2. IsFiniteSet(T) /\ IsFiniteSet(T \ {x})
    BY FS_Subset
  <2>3. PICK rest : rest = T \ {x}
    OBVIOUS
  <2>4. /\ SumFunctionOnSet(fees, T) = fees[x] + SumFunctionOnSet(fees, rest)
        /\ SumFunctionOnSet(notionals, T) =
              notionals[x] + SumFunctionOnSet(notionals, rest)
    BY <2>2, <2>3, SumRemove
  <2>5. Cardinality(T) = Cardinality(rest) + 1 /\ Cardinality(rest) \in Nat
    <3>1. Cardinality(rest) = Cardinality(T) - 1 /\ Cardinality(T) \in Nat
      BY <2>1, <2>2, <2>3, FS_RemoveElement, FS_CardinalityType
    <3>2. Cardinality(rest) \in Nat
      BY <2>2, <2>3, FS_CardinalityType
    <3>. QED  BY <3>1, <3>2
  <2>6. CASE rest = {}
    <3>1. /\ SumFunctionOnSet(fees, rest) = 0
          /\ SumFunctionOnSet(notionals, rest) = 0
          /\ Cardinality(rest) = 0
      BY <2>6, SumOfNothing, FS_EmptySet
    <3>2. /\ SumFunctionOnSet(fees, T) = fees[x]
          /\ SumFunctionOnSet(notionals, T) = notionals[x]
          /\ Cardinality(T) = 1
      BY <2>4, <2>5, <3>1
    <3>. QED  BY <3>2
  <2>7. CASE rest # {}
    <3>1. Rounded(rest)
      BY <1>2, <2>3, <2>7
    <3>2. PICK f \in Int : f = SumFunctionOnSet(fees, rest)
      BY <2>2, <2>3, SumTyped
    <3>3. PICK n \in Nat : n = SumFunctionOnSet(notionals, rest)
      <4>1. rest \in SUBSET S /\ \A i \in S : notionals[i] \in Nat
        BY <2>3
      <4>2. SumFunctionOnSet(notionals, rest) \in Nat
        BY <4>1, SumMonotone
      <4>. QED  BY <4>2
    <3>4. PICK k \in Nat : k = Cardinality(rest)
      BY <2>5
    <3>5. RoundedTowardZero(f, rate, n, k)
      BY <3>1, <3>2, <3>3, <3>4
    <3>6. RoundedTowardZero(fees[x] + f, rate, notionals[x] + n, k + 1)
      BY <3>5, RoundingAdds
    <3>. QED  BY <2>4, <2>5, <3>2, <3>3, <3>4, <3>6
  <2>. QED  BY <2>6, <2>7
<1>. HIDE DEF Family
<1>3. S \in Family
  BY <1>1, <1>2, FiniteInductive
<1>. QED  BY <1>3 DEF Family

----------------------------------------------------------------------------
\* No trade costs a venue that charges takers what it pays makers, or the
\* other way around, whatever the price, the quantity and the rounding.
THEOREM NoTradeAtALoss == Spec => []VenueNeverPays
<1>1. Init => FeesCharged
  BY DEF Init, FeesCharged, AllCharged
<1>2. FeesCharged => VenueNeverPays
  <2>. SUFFICES ASSUME FeesCharged, MakerPpm + TakerPpm >= 0,
                       NEW i \in DOMAIN out, out[i].type = "Trade",
                       -FeeMax - 1 \notin {out[i].taker_fee, out[i].maker_fee}
                PROVE  out[i].taker_fee + out[i].maker_fee >= 0
    BY DEF VenueNeverPays, TradesIn
  <2>1. PICK price \in Nat, qty \in Nat :
           /\ out[i].taker_fee = TakerFee(price, qty)
           /\ out[i].maker_fee = MakerFee(price, qty)
    BY DEF FeesCharged, AllCharged, Charged
  <2>2. MakerPpm \in Int /\ TakerPpm \in Int /\ TakerPpm + MakerPpm >= 0
    BY FeeAssumption
  <2>. QED  BY <2>1, <2>2, ChargesCoverEachOther DEF TakerFee, MakerFee
<1>. QED  BY <1>1, <1>2, FeesChargedKept, Invariance, PTL DEF Spec

\* No fee of the call reached the end of its range.
NoneSaturated ==
    \A i \in TradesIn(out) :
        /\ -FeeMax <= out[i].taker_fee /\ out[i].taker_fee < FeeMax
        /\ -FeeMax <= out[i].maker_fee /\ out[i].maker_fee < FeeMax

\* However many fills a call splits an order into, it pays and earns its rate
\* on all of them, short by less than a unit a fill, as long as no fee is cut
\* to 64 bits.
THEOREM FeesOfSplitOrders == Spec => [](NoneSaturated => FeesAddUp)
<1>1. Init => FeesCharged
  BY DEF Init, FeesCharged, AllCharged
<1>2. Inv /\ FeesCharged => (NoneSaturated => FeesAddUp)
  <2>. SUFFICES ASSUME Inv, FeesCharged, NoneSaturated, NEW id
                PROVE  LET taken == {i \in TradesIn(out) :
                                        out[i].taker_order_id = id}
                           made  == {i \in TradesIn(out) :
                                        out[i].maker_order_id = id}
                       IN  /\ taken # {} =>
                                RoundedTowardZero(
                                    SumFunctionOnSet(TakerFees(out), taken),
                                    TakerPpm,
                                    SumFunctionOnSet(Notionals(out), taken),
                                    Cardinality(taken))
                           /\ made # {} =>
                                RoundedTowardZero(
                                    SumFunctionOnSet(MakerFees(out), made),
                                    MakerPpm,
                                    SumFunctionOnSet(Notionals(out), made),
                                    Cardinality(made))
    BY DEF FeesAddUp
  <2>1. /\ IsFiniteSet(TradesIn(out))
        /\ MakerPpm \in Int /\ TakerPpm \in Int
    <3>1. out \in Seq(Event)
      BY DEF Inv, CallTypeOK
    <3>2. DOMAIN out = 1..Len(out) /\ Len(out) \in Nat
      BY <3>1
    <3>3. IsFiniteSet(1..Len(out))
      BY <3>2, FS_Interval
    <3>. QED  BY <3>2, <3>3, FS_Subset, FeeAssumption DEF TradesIn
  <2>2. ASSUME NEW i \in TradesIn(out)
        PROVE  /\ TakerFees(out)[i] \in Int
               /\ MakerFees(out)[i] \in Int
               /\ Notionals(out)[i] \in Nat
               /\ RoundedTowardZero(TakerFees(out)[i], TakerPpm,
                                    Notionals(out)[i], 1)
               /\ RoundedTowardZero(MakerFees(out)[i], MakerPpm,
                                    Notionals(out)[i], 1)
    <3>1. PICK price \in Nat, qty \in Nat, taker \in Int, maker \in Int :
             /\ price = out[i].price /\ qty = out[i].qty
             /\ taker = out[i].taker_fee /\ maker = out[i].maker_fee
             /\ taker = Charge(TakerPpm, price, qty)
             /\ maker = Charge(MakerPpm, price, qty)
      <4>1. /\ out[i].price \in Nat /\ out[i].qty \in Nat
            /\ out[i].taker_fee = TakerFee(out[i].price, out[i].qty)
            /\ out[i].maker_fee = MakerFee(out[i].price, out[i].qty)
        BY DEF TradesIn, FeesCharged, AllCharged, Charged
      <4>2. out[i].taker_fee \in Int /\ out[i].maker_fee \in Int
        BY <4>1, FeesTyped
      <4>. QED  BY <4>1, <4>2 DEF TakerFee, MakerFee
    <3>2. /\ -FeeMax <= taker /\ taker < FeeMax
          /\ -FeeMax <= maker /\ maker < FeeMax
      BY <3>1 DEF NoneSaturated
    <3>3. /\ TakerFees(out)[i] = taker /\ MakerFees(out)[i] = maker
          /\ Notionals(out)[i] = price * qty
      BY <3>1 DEF TakerFees, MakerFees, Notionals
    <3>4. price * qty \in Nat
      OBVIOUS
    <3>5. taker \in Int /\ RoundedTowardZero(taker, TakerPpm, price * qty, 1)
      BY <2>1, <3>1, <3>2, ChargeRounds
    <3>6. maker \in Int /\ RoundedTowardZero(maker, MakerPpm, price * qty, 1)
      BY <2>1, <3>1, <3>2, ChargeRounds
    <3>. QED  BY <3>3, <3>4, <3>5, <3>6
  <2>3. PICK taken : taken = {i \in TradesIn(out) : out[i].taker_order_id = id}
    OBVIOUS
  <2>4. PICK made : made = {i \in TradesIn(out) : out[i].maker_order_id = id}
    OBVIOUS
  <2>5. /\ IsFiniteSet(taken) /\ taken \subseteq TradesIn(out)
        /\ IsFiniteSet(made) /\ made \subseteq TradesIn(out)
    BY <2>1, <2>3, <2>4, FS_Subset
  <2>6. taken # {} =>
           RoundedTowardZero(SumFunctionOnSet(TakerFees(out), taken), TakerPpm,
                             SumFunctionOnSet(Notionals(out), taken),
                             Cardinality(taken))
    BY <2>1, <2>2, <2>5, RoundingSums
  <2>7. made # {} =>
           RoundedTowardZero(SumFunctionOnSet(MakerFees(out), made), MakerPpm,
                             SumFunctionOnSet(Notionals(out), made),
                             Cardinality(made))
    BY <2>1, <2>2, <2>5, RoundingSums
  <2>. QED  BY <2>3, <2>4, <2>6, <2>7
<1>. QED  BY <1>1, <1>2, FeesChargedKept, Invariance, PTL DEF Spec

----------------------------------------------------------------------------
(* What a client books, event by event *)

\* g is the ledger after the first i of the events, for every i up to n.
IsBooking(events, request, l, n, g) ==
    g = [i \in 0..n |-> IF i = 0 THEN l ELSE Book(events, request, g[i - 1], i)]

LEMMA BookingSteps ==
    \A events, request, l, g : \A n \in Nat :
        IsBooking(events, request, l, n, g) =>
            /\ g[0] = l
            /\ \A i \in 1..n : g[i] = Book(events, request, g[i - 1], i)
BY DEF IsBooking

LEMMA BookingExists ==
    ASSUME NEW events, NEW request, NEW l, NEW n \in Nat
    PROVE  \E g : IsBooking(events, request, l, n, g)
<1> DEFINE Lengths == {k \in Nat : \E g : IsBooking(events, request, l, k, g)}
<1>1. 0 \in Lengths
  <2> DEFINE g == [i \in 0..0 |-> l]
  <2>1. g = [i \in 0..0 |-> IF i = 0 THEN l
                            ELSE Book(events, request, g[i - 1], i)]
    OBVIOUS
  <2>. HIDE DEF g
  <2>. QED  BY <2>1 DEF IsBooking
<1>2. ASSUME NEW k \in Nat, k \in Lengths
      PROVE  k + 1 \in Lengths
  <2>1. PICK g : IsBooking(events, request, l, k, g)
    BY <1>2
  <2>2. /\ g[0] = l
        /\ \A i \in 1..k : g[i] = Book(events, request, g[i - 1], i)
    BY <2>1, BookingSteps
  <2> DEFINE last == Book(events, request, g[k], k + 1)
             h == [i \in 0..(k + 1) |-> IF i = k + 1 THEN last ELSE g[i]]
  <2>3. \A i \in 0..k : h[i] = g[i]
    OBVIOUS
  <2>4. h[k + 1] = Book(events, request, h[k], k + 1)
    <3>1. k \in 0..k /\ h[k + 1] = last
      OBVIOUS
    <3>. QED  BY <2>3, <3>1
  <2>5. h = [i \in 0..(k + 1) |-> h[i]]
    OBVIOUS
  <2>. HIDE DEF h
  <2>6. ASSUME NEW i \in 0..(k + 1)
        PROVE  h[i] = IF i = 0 THEN l ELSE Book(events, request, h[i - 1], i)
    <3>1. CASE i = 0
      BY <2>2, <2>3, <3>1
    <3>2. CASE i = k + 1
      <4>1. i # 0 /\ i - 1 = k
        BY <3>2
      <4>. QED  BY <2>4, <3>2, <4>1
    <3>3. CASE i \in 1..k
      <4>1. i \in 0..k /\ i - 1 \in 0..k /\ i # 0
        BY <3>3
      <4>. QED  BY <2>2, <2>3, <3>3, <4>1
    <3>. QED  BY <3>1, <3>2, <3>3
  <2>7. IsBooking(events, request, l, k + 1, h)
    BY <2>5, <2>6 DEF IsBooking
  <2>. QED  BY <2>7
<1>. HIDE DEF Lengths
<1>3. n \in Lengths
  BY <1>1, <1>2, NatInductive
<1>. QED  BY <1>3 DEF Lengths

LEMMA BookAllBooks ==
    ASSUME NEW events, NEW request, NEW l, Len(events) \in Nat
    PROVE  \E g : /\ IsBooking(events, request, l, Len(events), g)
                  /\ BookAll(events, request, l) = g[Len(events)]
<1> DEFINE g == CHOOSE x : IsBooking(events, request, l, Len(events), x)
<1>1. IsBooking(events, request, l, Len(events), g)
  BY BookingExists
<1>2. BookAll(events, request, l) = g[Len(events)]
  BY DEF BookAll, IsBooking
<1>. QED  BY <1>1, <1>2

\* What is booked of the first events does not depend on those after them.
LEMMA BookingsAgree ==
    \A events, more, request, l, g, h : \A m, n \in Nat :
        /\ IsBooking(events, request, l, m, g)
        /\ IsBooking(more, request, l, n, h)
        /\ m <= n
        /\ \A i \in 1..m : events[i] = more[i]
        => \A i \in 0..m : g[i] = h[i]
<1>. SUFFICES ASSUME NEW events, NEW more, NEW request, NEW l, NEW g, NEW h,
                     NEW m \in Nat, NEW n \in Nat,
                     IsBooking(events, request, l, m, g),
                     IsBooking(more, request, l, n, h),
                     m <= n,
                     \A i \in 1..m : events[i] = more[i]
              PROVE  \A i \in 0..m : g[i] = h[i]
  OBVIOUS
<1> DEFINE Places == {k \in Nat : k \in 0..m => g[k] = h[k]}
<1>1. 0 \in Places
  BY BookingSteps
<1>2. ASSUME NEW k \in Nat, k \in Places, k + 1 \in 0..m
      PROVE  g[k + 1] = h[k + 1]
  <2>1. k + 1 \in 1..m /\ k + 1 \in 1..n /\ (k + 1) - 1 = k
    BY <1>2
  <2>2. /\ g[k + 1] = Book(events, request, g[k], k + 1)
        /\ h[k + 1] = Book(more, request, h[k], k + 1)
    BY <2>1, BookingSteps
  <2>3. g[k] = h[k]
    BY <1>2
  <2>4. \A x : Book(events, request, x, k + 1) = Book(more, request, x, k + 1)
    <3>1. events[k + 1] = more[k + 1]
      BY <2>1
    <3>2. k + 1 > 1 => events[k] = more[k]
      BY <2>1
    <3>3. (k + 1 > 1 /\ events[k].type = "Triggered")
             <=> (k + 1 > 1 /\ more[k].type = "Triggered")
      BY <3>2
    <3>. QED  BY <2>1, <3>1, <3>2, <3>3 DEF Book
  <2>. QED  BY <2>2, <2>3, <2>4
<1>3. \A k \in Nat : k \in Places => k + 1 \in Places
  BY <1>2
<1>. HIDE DEF Places
<1>4. Nat \subseteq Places
  BY <1>1, <1>3, NatInductive
<1>. QED  BY <1>4 DEF Places

LEMMA NothingBooked ==
    ASSUME NEW request, NEW l
    PROVE  BookAll(<<>>, request, l) = l
<1>1. Len(<<>>) = 0
  OBVIOUS
<1>2. PICK g : /\ IsBooking(<<>>, request, l, 0, g)
               /\ BookAll(<<>>, request, l) = g[0]
  BY <1>1, BookAllBooks
<1>. QED  BY <1>2, BookingSteps

\* One event more.
LEMMA NextBooked ==
    ASSUME NEW events \in Seq(Event), NEW event \in Event, NEW request, NEW l
    PROVE  BookAll(Append(events, event), request, l) =
               Book(Append(events, event), request,
                    BookAll(events, request, l), Len(events) + 1)
<1> DEFINE more == Append(events, event)
           n == Len(events)
<1>1. /\ n \in Nat
      /\ Len(more) = n + 1
      /\ \A i \in 1..n : events[i] = more[i]
  OBVIOUS
<1>. HIDE DEF more, n
<1>2. PICK g : /\ IsBooking(events, request, l, n, g)
               /\ BookAll(events, request, l) = g[n]
  BY <1>1, BookAllBooks DEF n
<1>3. PICK h : /\ IsBooking(more, request, l, n + 1, h)
               /\ BookAll(more, request, l) = h[n + 1]
  <2>1. Len(more) \in Nat
    BY <1>1
  <2>2. \E h : /\ IsBooking(more, request, l, Len(more), h)
               /\ BookAll(more, request, l) = h[Len(more)]
    BY <2>1, BookAllBooks
  <2>. QED  BY <1>1, <2>2
<1>4. g[n] = h[n]
  <2>1. n <= n + 1 /\ n + 1 \in Nat /\ n \in 0..n
    BY <1>1
  <2>2. IsBooking(events, request, l, n, g)
    BY <1>2
  <2>3. IsBooking(more, request, l, n + 1, h)
    BY <1>3
  <2>4. \A i \in 0..n : g[i] = h[i]
    BY <1>1, <2>1, <2>2, <2>3, BookingsAgree
  <2>. QED  BY <2>1, <2>4
<1>5. h[n + 1] = Book(more, request, h[n], n + 1)
  <2>1. n + 1 \in Nat /\ n + 1 \in 1..(n + 1) /\ (n + 1) - 1 = n
    BY <1>1
  <2>. QED  BY <1>3, <2>1, BookingSteps
<1>. QED  BY <1>2, <1>3, <1>4, <1>5 DEF more, n

LEMMA FirstBooked ==
    ASSUME NEW event \in Event, NEW request, NEW l
    PROVE  BookAll(<<event>>, request, l) = Book(<<event>>, request, l, 1)
<1>1. /\ <<>> \in Seq(Event)
      /\ Append(<<>>, event) = <<event>>
      /\ Len(<<>>) + 1 = 1
  OBVIOUS
<1>2. BookAll(Append(<<>>, event), request, l) =
          Book(Append(<<>>, event), request, BookAll(<<>>, request, l),
               Len(<<>>) + 1)
  BY <1>1, NextBooked
<1>. QED  BY <1>1, <1>2, NothingBooked

\* What each event does to a ledger.
LEMMA EventBooked ==
    /\ \A events, request, l, i, s, id : events[i] = Accepted(s, id) =>
          Book(events, request, l, i) = Put(l, id, request.order.qty)
    /\ \A events, request, l, i, s, id : events[i] = Modified(s, id) =>
          Book(events, request, l, i) = Put(l, id, request.qty)
    /\ \A events, request, l, i, s, id : events[i] = Filled(s, id) =>
          Book(events, request, l, i) = CloseIfFilled(l, id)
    /\ \A events, request, l, i, s, id : events[i] = Canceled(s, id) =>
          Book(events, request, l, i) = Drop(l, id)
    /\ \A events, request, l, i, s, id : events[i] = Triggered(s, id) =>
          Book(events, request, l, i) = l
    /\ \A events, request, l, i, s, id, price, qty :
          events[i] = Resting(s, id, price, qty) =>
              Book(events, request, l, i) = l
    /\ \A events, request, l, s, reason : events[1] = Rejected(s, reason) =>
          Book(events, request, l, 1) = l
BY DEF Book, Accepted, Modified, Filled, Canceled, Triggered, Resting,
       Rejected

LEMMA RefusalBooked ==
    ASSUME NEW events, NEW request, NEW l, NEW i \in Nat \ {0, 1}, NEW s,
           NEW id, NEW reason, events[i - 1] = Triggered(s, id),
           events[i] = Rejected(s, reason)
    PROVE  Book(events, request, l, i) = Drop(l, id)
BY DEF Book, Triggered, Rejected

LEMMA TradeBooked ==
    ASSUME NEW events, NEW request, NEW l, NEW i, NEW s, NEW taker, NEW maker,
           NEW price, NEW qty, NEW side, NEW fee, NEW rebate,
           events[i] = Trade(s, taker, maker, price, qty, side, fee, rebate)
    PROVE  Book(events, request, l, i) =
               CloseIfFilled(Debit(Debit(l, taker, qty), maker, qty), maker)
BY DEF Book, Trade

IsFcn(f) == f = [x \in DOMAIN f |-> f[x]]

LEMMA ConcatFacts ==
    ASSUME NEW a \in Seq(Event), NEW b \in Seq(Event)
    PROVE  /\ Len(a \o b) = Len(a) + Len(b)
           /\ \A i \in 1..Len(a) : (a \o b)[i] = a[i]
           /\ \A i \in 1..Len(b) : (a \o b)[Len(a) + i] = b[i]
OBVIOUS

\* The ledger without these orders.
Without(l, ids) == [x \in DOMAIN l \ ToSet(ids) |-> l[x]]

AreCancels(cancels, ids, s) ==
    /\ Len(cancels) = Len(ids)
    /\ \A i \in 1..Len(ids) : cancels[i] = Canceled(s, ids[i])

\* A run of cancels takes these orders off the ledger.
LEMMA CancelsBooked ==
    \A events, cancels \in Seq(Event), ids \in Seq(Nat) : \A s, request, l :
        /\ IsFcn(BookAll(events, request, l))
        /\ AreCancels(cancels, ids, s)
        => BookAll(events \o cancels, request, l) =
               Without(BookAll(events, request, l), ids)
<1>. SUFFICES ASSUME NEW events \in Seq(Event), NEW cancels \in Seq(Event),
                     NEW ids \in Seq(Nat), NEW s, NEW request, NEW l, NEW v,
                     v = BookAll(events, request, l), IsFcn(v),
                     AreCancels(cancels, ids, s)
              PROVE  BookAll(events \o cancels, request, l) = Without(v, ids)
  OBVIOUS
<1> DEFINE all == events \o cancels
           Left(k) == [x \in DOMAIN v \ {ids[i] : i \in 1..k} |-> v[x]]
<1>1. PICK n \in Nat, m \in Nat : n = Len(events) /\ m = Len(ids)
  OBVIOUS
<1>2. /\ Len(all) = n + m
      /\ \A i \in 1..n : events[i] = all[i]
      /\ \A i \in 1..m : all[n + i] = Canceled(s, ids[i])
  <2>1. Len(cancels) = m /\ \A i \in 1..m : cancels[i] = Canceled(s, ids[i])
    BY <1>1 DEF AreCancels
  <2>2. Len(events) = n /\ Len(cancels) = m
    BY <1>1, <2>1
  <2>3. /\ Len(all) = Len(events) + Len(cancels)
        /\ \A i \in 1..Len(events) : all[i] = events[i]
        /\ \A i \in 1..Len(cancels) : all[Len(events) + i] = cancels[i]
    BY ConcatFacts
  <2>. QED  BY <2>1, <2>2, <2>3
<1>. HIDE DEF all
<1>3. PICK g : /\ IsBooking(events, request, l, n, g)
               /\ v = g[n]
  BY <1>1, BookAllBooks
<1>4. PICK h : /\ IsBooking(all, request, l, n + m, h)
               /\ BookAll(all, request, l) = h[n + m]
  <2>1. Len(all) \in Nat
    BY <1>2
  <2>2. \E h : /\ IsBooking(all, request, l, Len(all), h)
               /\ BookAll(all, request, l) = h[Len(all)]
    BY <2>1, BookAllBooks
  <2>. QED  BY <1>2, <2>2
<1>5. h[n] = v
  <2>1. n <= n + m /\ n + m \in Nat /\ n \in 0..n
    OBVIOUS
  <2>2. IsBooking(events, request, l, n, g)
    BY <1>3
  <2>3. IsBooking(all, request, l, n + m, h)
    BY <1>4
  <2>4. PICK total \in Nat : total = n + m
    OBVIOUS
  <2>5. \A i \in 1..n : events[i] = all[i]
    BY <1>2
  <2>6. IsBooking(all, request, l, total, h) /\ n <= total
    BY <2>1, <2>3, <2>4
  <2>7. \A i \in 0..n : g[i] = h[i]
    BY <2>2, <2>5, <2>6, BookingsAgree
  <2>. QED  BY <1>3, <2>1, <2>7
<1>6. ASSUME NEW k \in Nat, k + 1 \in 1..m
      PROVE  h[n + (k + 1)] = Drop(h[n + k], ids[k + 1])
  <2>1. /\ n + (k + 1) \in 1..(n + m)
        /\ n + m \in Nat
        /\ (n + (k + 1)) - 1 = n + k
    BY <1>6
  <2>2. h[n + (k + 1)] = Book(all, request, h[n + k], n + (k + 1))
    BY <1>4, <2>1, BookingSteps
  <2>3. all[n + (k + 1)] = Canceled(s, ids[k + 1])
    BY <1>2, <1>6
  <2>. QED  BY <2>2, <2>3, EventBooked
<1> DEFINE Done == {k \in Nat : k <= m => h[n + k] = Left(k)}
<1>7. 0 \in Done
  <2>1. {ids[i] : i \in 1..0} = {}
    OBVIOUS
  <2>2. Left(0) = v
    BY <2>1 DEF IsFcn
  <2>. QED  BY <1>5, <2>2
<1>8. ASSUME NEW k \in Nat, k \in Done
      PROVE  k + 1 \in Done
  <2>. SUFFICES ASSUME k + 1 <= m
                PROVE  h[n + (k + 1)] = Left(k + 1)
    OBVIOUS
  <2>1. h[n + k] = Left(k)
    BY <1>8
  <2>2. h[n + (k + 1)] = Drop(Left(k), ids[k + 1])
    <3>1. k + 1 \in 1..m
      BY <1>8
    <3>2. h[n + (k + 1)] = Drop(h[n + k], ids[k + 1])
      BY <1>6, <3>1
    <3>. QED  BY <2>1, <3>2
  <2>3. {ids[i] : i \in 1..(k + 1)} = {ids[i] : i \in 1..k} \cup {ids[k + 1]}
    <3>1. \A i : i \in 1..(k + 1) <=> i \in 1..k \/ i = k + 1
      OBVIOUS
    <3>. QED  BY <3>1
  <2>4. DOMAIN Left(k) \ {ids[k + 1]} =
            DOMAIN v \ {ids[i] : i \in 1..(k + 1)}
    BY <2>3
  <2>5. Drop(Left(k), ids[k + 1]) =
            [x \in DOMAIN Left(k) \ {ids[k + 1]} |-> v[x]]
    BY DEF Drop, Restrict
  <2>. QED  BY <2>2, <2>4, <2>5
<1>9. h[n + m] = Left(m)
  <2>. HIDE DEF Done
  <2>1. m \in Done
    BY <1>7, <1>8, NatInductive
  <2>. QED  BY <2>1 DEF Done
<1>10. ToSet(ids) = {ids[i] : i \in 1..m}
  <2>1. DOMAIN ids = 1..m
    BY <1>1
  <2>. QED  BY <2>1 DEF ToSet
<1>. QED  BY <1>4, <1>9, <1>10 DEF all, Without

----------------------------------------------------------------------------
(* What the events of a call have told so far *)

\* The makers that self-trade prevention took off the book and that no event
\* has told of yet.
GoneIds == IF phase = "match" THEN ToSet(live.self_canceled) ELSE {}
OpenIds == DOMAIN resting \cup StopIds \cup LiveIds

\* v has what the book, the dormant stops and the order being matched hold.
Tells(v) ==
    /\ IsFcn(v)
    /\ DOMAIN v = OpenIds \cup GoneIds
    /\ \A id \in DOMAIN resting : v[id] = VolumeOf(id)
    /\ \A i \in DOMAIN stops : v[stops[i].id] = stops[i].qty
    /\ phase = "match" => v[live.order_id] = live.qty

\* The ledger of a client that has seen the events of the call so far.
Told == BookAll(out, command, ledger)

LedgerInv ==
    /\ Tells(Told)
    /\ OpenIds \cap GoneIds = {}
    /\ phase = "idle" => out = <<>>

\* The command and the ledger change with the first event only.
LEMMA StillTells ==
    ASSUME NEW v, v = Told', Tells(v)', (OpenIds \cap GoneIds = {})',
           phase' # "idle"
    PROVE  LedgerInv'
BY DEF LedgerInv, Tells, Told

\* Before its first event, a call has nothing to tell.
LEMMA IdleFacts ==
    ASSUME LedgerInv, phase = "idle"
    PROVE  /\ out = <<>>
           /\ Told = ledger
           /\ LiveIds = {}
           /\ GoneIds = {}
           /\ OpenIds = DOMAIN resting \cup StopIds
BY NothingBooked DEF LedgerInv, Told, LiveIds, GoneIds, OpenIds

LEMMA OutsideMatch ==
    ASSUME phase' # "match"
    PROVE  /\ LiveIds' = {}
           /\ GoneIds' = {}
           /\ OpenIds' = DOMAIN resting' \cup StopIds'
BY DEF LiveIds, GoneIds, OpenIds

\* The first event of a call.
LEMMA FirstTold ==
    ASSUME LedgerInv, phase = "idle", ledger' = ledger,
           NEW event \in Event, out' = <<event>>,
           NEW request, command' = request
    PROVE  Told' = Book(<<event>>, request, Told, 1)
<1>1. Told' = BookAll(<<event>>, request, ledger)
  BY DEF Told
<1>. QED  BY <1>1, IdleFacts, FirstBooked

\* Another event of a call under way.
LEMMA NextTold ==
    ASSUME out \in Seq(Event), UNCHANGED <<command, ledger>>,
           NEW event \in Event, out' = Append(out, event)
    PROVE  Told' = Book(Append(out, event), command, Told, Len(out) + 1)
<1>1. Told' = BookAll(Append(out, event), command, ledger)
  BY DEF Told
<1>. QED  BY <1>1, NextBooked DEF Told

\* What an order shows and hides depends on its own entries only.
LEMMA VolumeKept ==
    ASSUME NEW id, id \in DOMAIN resting, id \in DOMAIN resting',
           resting'[id] = resting[id], Hidden(id)' = Hidden(id)
    PROVE  VolumeOf(id)' = VolumeOf(id)
BY DEF VolumeOf

LEMMA BookUnmoved ==
    ASSUME UNCHANGED bookVars
    PROVE  /\ DOMAIN resting' = DOMAIN resting
           /\ \A id : VolumeOf(id)' = VolumeOf(id)
BY DEF bookVars, VolumeOf, Hidden

\* The order taken off the book is all a removal changes.
LEMMA RemovedVolumes ==
    ASSUME NEW id, resting' = Drop(resting, id), reserves' = Drop(reserves, id)
    PROVE  /\ DOMAIN resting' = DOMAIN resting \ {id}
           /\ \A x \in DOMAIN resting' : VolumeOf(x)' = VolumeOf(x)
<1>1. /\ DOMAIN resting' = DOMAIN resting \ {id}
      /\ \A x \in DOMAIN resting \ {id} : resting'[x] = resting[x]
  BY DropFacts
<1>2. /\ DOMAIN reserves' = DOMAIN reserves \ {id}
      /\ \A x \in DOMAIN reserves \ {id} : reserves'[x] = reserves[x]
  BY DropFacts
<1>3. \A x \in DOMAIN resting' : Hidden(x)' = Hidden(x)
  BY <1>1, <1>2 DEF Hidden
<1>. QED  BY <1>1, <1>3 DEF VolumeOf

\* So it is when one order changes.
LEMMA OthersKept ==
    ASSUME NEW id, NEW side, NEW price, NEW owner,
           OneMove(id, side, price, owner)
    PROVE  /\ DOMAIN resting' \ {id} = DOMAIN resting \ {id}
           /\ \A x \in DOMAIN resting' \ {id} : VolumeOf(x)' = VolumeOf(x)
BY DEF OneMove, OneOrder, VolumeOf

----------------------------------------------------------------------------
(* Commands answered at once *)

\* Nothing has changed and nothing is booked.
LEMMA NothingTold ==
    ASSUME LedgerInv, LiveIds \cup GoneIds = {}, UNCHANGED <<bookVars, stops>>,
           phase' \in {"done", "stops"}, Told' = Told
    PROVE  LedgerInv'
<1>1. /\ DOMAIN resting' = DOMAIN resting
      /\ \A id : VolumeOf(id)' = VolumeOf(id)
  BY BookUnmoved
<1>2. StopIds' = StopIds
  BY DEF StopIds
<1>3. /\ OpenIds' = OpenIds
      /\ GoneIds' = {}
      /\ GoneIds = {}
  BY <1>1, <1>2, OutsideMatch DEF OpenIds
<1>4. PICK v : v = Told
  OBVIOUS
<1>5. Tells(v)
  BY <1>4 DEF LedgerInv
<1>6. Tells(v)'
  BY <1>1, <1>3, <1>5 DEF Tells
<1>. QED  BY <1>3, <1>4, <1>6, StillTells

LEMMA RefusalTold ==
    ASSUME Inv, LedgerInv, phase = "idle", ledger' = ledger,
           UNCHANGED <<bookVars, stops>>, phase' = "done",
           NEW reason \in RejectReasons, out' = <<Rejected(seq + 1, reason)>>
    PROVE  LedgerInv'
<1>1. Rejected(seq + 1, reason) \in Event
  BY EventsTyped DEF Inv, CallTypeOK
<1>2. Told' = Book(<<Rejected(seq + 1, reason)>>, command', Told, 1)
  BY <1>1, FirstTold
<1>3. Told' = Told
  BY <1>2, EventBooked
<1>. QED  BY <1>3, IdleFacts, NothingTold

LEMMA EntryRefusalsTold ==
    ASSUME Inv, LedgerInv, ledger' = ledger,
           \/ \E c \in Command : RejectCommand(c)
           \/ \E order \in NewOrders : RefuseOrder(order)
           \/ \E id \in Nat : CancelUnknown(id)
           \/ \E id \in Nat, a \in Amendments : ModifyUnknown(id, a)
    PROVE  LedgerInv'
<1>1. ASSUME NEW c \in Command, RejectCommand(c)
      PROVE  LedgerInv'
  <2>1. Validate(c) \in RejectReasons
    BY <1>1, ValidateTyped DEF RejectCommand
  <2>. QED  BY <1>1, <2>1, RefusalTold DEF RejectCommand, Submit
<1>2. ASSUME NEW order \in NewOrders, RefuseOrder(order)
      PROVE  LedgerInv'
  <2>1. EntryCheck(order) \in RejectReasons
    BY <1>2, PrecheckTyped DEF RefuseOrder, EntryCheck
  <2>. QED  BY <1>2, <2>1, RefusalTold DEF RefuseOrder, Admit, Submit
<1>3. "UnknownOrder" \in RejectReasons
  BY DEF RejectReasons
<1>4. ASSUME NEW id \in Nat, CancelUnknown(id)
      PROVE  LedgerInv'
  BY <1>3, <1>4, RefusalTold DEF CancelUnknown, Admit, Submit
<1>5. ASSUME NEW id \in Nat, NEW a \in Amendments, ModifyUnknown(id, a)
      PROVE  LedgerInv'
  BY <1>3, <1>5, RefusalTold DEF ModifyUnknown, Admit, Submit
<1>. QED  BY <1>1, <1>2, <1>4, <1>5

----------------------------------------------------------------------------
(* New orders *)

\* An id that was not handed out is in no place.
LEMMA FreshId ==
    ASSUME Inv, phase = "idle"
    PROVE  /\ next_order_id \notin DOMAIN resting
           /\ next_order_id \notin StopIds
           /\ \A i \in DOMAIN stops : stops[i].id # next_order_id
<1>1. next_order_id \in Nat
  BY DEF Inv, CallTypeOK
<1>2. \A id \in StopIds \cup DOMAIN resting : id < next_order_id
  BY DEF Inv, OneHome
<1>. QED  BY <1>1, <1>2 DEF StopIds

LEMMA ParkedTold ==
    ASSUME Inv, LedgerInv, ledger' = ledger,
           NEW order \in NewOrders, ParkStop(order)
    PROVE  LedgerInv'
<1>1. PICK id : id = next_order_id
  OBVIOUS
<1>2. PICK stop : stop = PendingStopOf(order)
  OBVIOUS
<1>3. /\ phase = "idle"
      /\ phase' = "stops"
      /\ UNCHANGED bookVars
      /\ stops' = Append(stops, stop)
      /\ out' = <<Accepted(seq + 1, id)>>
      /\ command' = New(order)
  BY <1>1, <1>2 DEF ParkStop, Admit, Submit
<1>4. stop.id = id /\ stop.qty = order.qty
  BY <1>1, <1>2 DEF PendingStopOf
<1>5. Accepted(seq + 1, id) \in Event
  BY <1>1, EventsTyped DEF Inv, CallTypeOK
<1>6. stops \in Seq(PendingStop) /\ stop \in PendingStop
  <2>1. order \in NewOrder
    BY MenuAssumption
  <2>. QED  BY <1>2, <2>1 DEF PendingStopOf, PendingStop, NewOrder, Inv,
                              CallTypeOK
<1>7. /\ DOMAIN stops = 1..Len(stops)
      /\ DOMAIN stops' = 1..(Len(stops) + 1)
      /\ \A i \in 1..Len(stops) : stops'[i] = stops[i]
      /\ stops'[Len(stops) + 1] = stop
      /\ Len(stops) \in Nat
  BY <1>3, <1>6
<1>8. StopIds' = StopIds \cup {id}
  <2>1. \A x : x \in StopIds' <=> \E i \in 1..(Len(stops) + 1) : x = stops'[i].id
    BY <1>7 DEF StopIds
  <2>2. \A x : x \in StopIds <=> \E i \in 1..Len(stops) : x = stops[i].id
    BY <1>7 DEF StopIds
  <2>. QED  BY <1>4, <1>7, <2>1, <2>2
<1>9. PICK v : v = Put(Told, id, order.qty)
  OBVIOUS
<1>10. v = Told'
  <2>1. Told' = Book(<<Accepted(seq + 1, id)>>, New(order), Told, 1)
    BY <1>3, <1>5, FirstTold
  <2>. QED  BY <1>9, <2>1, EventBooked DEF New
<1>11. /\ OpenIds' = OpenIds \cup {id}
       /\ GoneIds' = {}
       /\ GoneIds = {}
       /\ id \notin DOMAIN resting
       /\ \A i \in DOMAIN stops : stops[i].id # id
       /\ DOMAIN resting' = DOMAIN resting
       /\ \A x \in DOMAIN resting : VolumeOf(x)' = VolumeOf(x)
  BY <1>1, <1>3, <1>8, FreshId, IdleFacts, OutsideMatch, BookUnmoved
<1>12. /\ DOMAIN Told = OpenIds \cup GoneIds
       /\ \A x \in DOMAIN resting : Told[x] = VolumeOf(x)
       /\ \A i \in DOMAIN stops : Told[stops[i].id] = stops[i].qty
  BY DEF LedgerInv, Tells
<1>13. /\ IsFcn(v)
       /\ DOMAIN v = DOMAIN Told \cup {id}
       /\ v[id] = order.qty
       /\ \A x \in DOMAIN Told \ {id} : v[x] = Told[x]
  BY <1>9 DEF Put, IsFcn
<1>14. \A x \in DOMAIN resting : v[x] = VolumeOf(x)
  BY <1>11, <1>12, <1>13 DEF OpenIds
<1>15. \A i \in DOMAIN stops' : v[stops'[i].id] = stops'[i].qty
  <2>1. \A i \in DOMAIN stops : stops[i].id \in DOMAIN Told \ {id}
    BY <1>11, <1>12 DEF OpenIds, StopIds
  <2>2. \A i \in DOMAIN stops : v[stops[i].id] = stops[i].qty
    BY <1>12, <1>13, <2>1
  <2>. QED  BY <1>4, <1>7, <1>13, <2>2
<1>16. Tells(v)'
  BY <1>3, <1>11, <1>12, <1>13, <1>14, <1>15 DEF Tells
<1>. QED  BY <1>3, <1>10, <1>11, <1>16, StillTells

\* The order being matched is the one the event tells of.
LEMMA AcceptedTold ==
    ASSUME Inv, LedgerInv, ledger' = ledger,
           NEW order \in NewOrders, AcceptOrder(order)
    PROVE  LedgerInv'
<1>1. PICK id : id = next_order_id
  OBVIOUS
<1>2. /\ phase = "idle"
      /\ phase' = "match"
      /\ UNCHANGED bookVars
      /\ stops' = stops
      /\ out' = <<Accepted(seq + 1, id)>>
      /\ command' = New(order)
      /\ live'.order_id = id
      /\ live'.qty = order.qty
      /\ live'.self_canceled = <<>>
  BY <1>1 DEF AcceptOrder, Admit, Submit, LiveOf
<1>3. Accepted(seq + 1, id) \in Event
  BY <1>1, EventsTyped DEF Inv, CallTypeOK
<1>4. PICK v : v = Put(Told, id, order.qty)
  OBVIOUS
<1>5. v = Told'
  <2>1. Told' = Book(<<Accepted(seq + 1, id)>>, New(order), Told, 1)
    BY <1>2, <1>3, FirstTold
  <2>. QED  BY <1>4, <2>1, EventBooked DEF New
<1>6. /\ StopIds' = StopIds
      /\ LiveIds' = {id}
      /\ GoneIds' = {}
  BY <1>2 DEF StopIds, LiveIds, GoneIds, ToSet
<1>7. /\ id \notin DOMAIN resting
      /\ \A i \in DOMAIN stops : stops[i].id # id
      /\ DOMAIN resting' = DOMAIN resting
      /\ \A x \in DOMAIN resting : VolumeOf(x)' = VolumeOf(x)
      /\ OpenIds = DOMAIN resting \cup StopIds
      /\ GoneIds = {}
  BY <1>1, <1>2, FreshId, IdleFacts, BookUnmoved
<1>8. /\ DOMAIN Told = OpenIds \cup GoneIds
      /\ \A x \in DOMAIN resting : Told[x] = VolumeOf(x)
      /\ \A i \in DOMAIN stops : Told[stops[i].id] = stops[i].qty
  BY DEF LedgerInv, Tells
<1>9. /\ IsFcn(v)
      /\ DOMAIN v = DOMAIN Told \cup {id}
      /\ v[id] = order.qty
      /\ \A x \in DOMAIN Told \ {id} : v[x] = Told[x]
  BY <1>4 DEF Put, IsFcn
<1>10. \A x \in DOMAIN resting : v[x] = VolumeOf(x)
  BY <1>7, <1>8, <1>9
<1>11. \A i \in DOMAIN stops : v[stops[i].id] = stops[i].qty
  BY <1>7, <1>8, <1>9 DEF StopIds
<1>12. OpenIds' = OpenIds \cup {id}
  BY <1>6, <1>7 DEF OpenIds
<1>13. Tells(v)'
  BY <1>2, <1>6, <1>7, <1>8, <1>9, <1>10, <1>11, <1>12
     DEF Tells
<1>. QED  BY <1>2, <1>5, <1>6, <1>13, StillTells

----------------------------------------------------------------------------
(* Orders and stops that leave *)

\* One of the orders leaves, and the ledger with it.
LEMMA DroppedTold ==
    ASSUME LedgerInv, LiveIds \cup GoneIds = {}, phase' \in {"done", "stops"},
           NEW id, Told' = Drop(Told, id),
           DOMAIN resting' \cup StopIds' =
               (DOMAIN resting \cup StopIds) \ {id},
           DOMAIN resting' \subseteq DOMAIN resting,
           \A x \in DOMAIN resting' : VolumeOf(x)' = VolumeOf(x),
           \A j \in DOMAIN stops' : \E k \in DOMAIN stops : stops'[j] = stops[k]
    PROVE  LedgerInv'
<1>1. /\ DOMAIN Told = DOMAIN resting \cup StopIds
      /\ \A x \in DOMAIN resting : Told[x] = VolumeOf(x)
      /\ \A i \in DOMAIN stops : Told[stops[i].id] = stops[i].qty
  BY DEF LedgerInv, Tells, OpenIds
<1>2. PICK v : v = Drop(Told, id)
  OBVIOUS
<1>3. /\ IsFcn(v)
      /\ DOMAIN v = DOMAIN Told \ {id}
      /\ \A x \in DOMAIN Told \ {id} : v[x] = Told[x]
  BY <1>2 DEF Drop, Restrict, IsFcn
<1>4. OpenIds' = DOMAIN resting' \cup StopIds' /\ GoneIds' = {}
  BY OutsideMatch
<1>5. DOMAIN v = OpenIds' \cup GoneIds'
  BY <1>1, <1>3, <1>4
<1>6. \A x \in DOMAIN resting' : v[x] = VolumeOf(x)'
  BY <1>1, <1>3, <1>4, <1>5
<1>7. \A j \in DOMAIN stops' : v[stops'[j].id] = stops'[j].qty
  <2>1. \A j \in DOMAIN stops' : stops'[j].id \in DOMAIN v
    BY <1>4, <1>5 DEF StopIds
  <2>2. \A j \in DOMAIN stops' : Told[stops'[j].id] = stops'[j].qty
    BY <1>1
  <2>. QED  BY <1>3, <2>1, <2>2
<1>8. Tells(v)'
  BY <1>3, <1>5, <1>6, <1>7 DEF Tells
<1>. QED  BY <1>2, <1>4, <1>8, StillTells

LEMMA CanceledInBookTold ==
    ASSUME Inv, LedgerInv, ledger' = ledger, NEW id \in Nat, CancelInBook(id)
    PROVE  LedgerInv'
<1>1. /\ phase = "idle"
      /\ phase' = "done"
      /\ id \in DOMAIN resting
      /\ stops' = stops
      /\ out' = <<Canceled(seq + 1, id)>>
      /\ resting' = Drop(resting, id)
      /\ reserves' = Drop(reserves, id)
  BY DEF CancelInBook, Admit, Submit, CancelResting
<1>2. Canceled(seq + 1, id) \in Event
  BY EventsTyped DEF Inv, CallTypeOK
<1>3. Told' = Drop(Told, id)
  <2>1. Told' = Book(<<Canceled(seq + 1, id)>>, command', Told, 1)
    BY <1>1, <1>2, FirstTold
  <2>. QED  BY <2>1, EventBooked
<1>4. id \notin StopIds /\ StopIds' = StopIds
  BY <1>1 DEF Inv, OneHome, StopIds
<1>5. /\ DOMAIN resting' = DOMAIN resting \ {id}
      /\ \A x \in DOMAIN resting' : VolumeOf(x)' = VolumeOf(x)
  BY <1>1, RemovedVolumes
<1>. QED  BY <1>1, <1>3, <1>4, <1>5, IdleFacts, DroppedTold

LEMMA CanceledStopTold ==
    ASSUME Inv, LedgerInv, ledger' = ledger, NEW id \in Nat, CancelStop(id)
    PROVE  LedgerInv'
<1>1. /\ phase = "idle"
      /\ phase' = "done"
      /\ id \notin DOMAIN resting
      /\ UNCHANGED bookVars
      /\ out' = <<Canceled(seq + 1, id)>>
  BY DEF CancelStop, Admit, Submit
<1>2. PICK i \in DOMAIN stops : stops[i].id = id /\ stops' = WithoutStop(i)
  BY DEF CancelStop
<1>3. Canceled(seq + 1, id) \in Event
  BY EventsTyped DEF Inv, CallTypeOK
<1>4. Told' = Drop(Told, id)
  <2>1. Told' = Book(<<Canceled(seq + 1, id)>>, command', Told, 1)
    BY <1>1, <1>3, FirstTold
  <2>. QED  BY <2>1, EventBooked
<1>5. /\ StopIds' = StopIds \ {id}
      /\ \A j \in DOMAIN stops' : \E k \in DOMAIN stops : stops'[j] = stops[k]
  BY <1>2, StopLeaves DEF Inv
<1>6. /\ DOMAIN resting' = DOMAIN resting
      /\ \A x : VolumeOf(x)' = VolumeOf(x)
  BY <1>1, BookUnmoved
<1>. QED  BY <1>1, <1>4, <1>5, <1>6, IdleFacts, DroppedTold

\* A refused stop is the one the event before the refusal names.
LEMMA RefusedStopTold ==
    ASSUME Inv, LedgerInv, ledger' = ledger, NEW i \in DOMAIN stops,
           RefuseStop(i)
    PROVE  LedgerInv'
<1>1. PICK id, reason : id = stops[i].id /\ reason = StopCheck(stops[i])
  OBVIOUS
<1>2. /\ TakeTriggered(i)
      /\ reason # Ok
      /\ out' = out \o <<Triggered(seq, id), Rejected(seq, reason)>>
      /\ UNCHANGED <<bookVars, phase, live>>
  BY <1>1 DEF RefuseStop
<1>3. /\ id \in Nat
      /\ seq \in Nat
      /\ out \in Seq(Event)
      /\ phase = "stops"
      /\ stops' = WithoutStop(i)
      /\ StopIds' = StopIds \ {id}
      /\ id \in StopIds
      /\ command' = command
  BY <1>1, <1>2, TakenStopFacts DEF TakeTriggered
<1>4. PICK told, refused :
         told = Triggered(seq, id) /\ refused = Rejected(seq, reason)
  OBVIOUS
<1>5. told \in Event /\ refused \in Event
  <2>1. reason \in RejectReasons
    BY <1>1, <1>2, PrecheckTyped DEF StopCheck
  <2>. QED  BY <1>3, <1>4, <2>1, EventsTyped
<1>6. PICK some : some = Append(out, told)
  OBVIOUS
<1>7. PICK all : all = Append(some, refused)
  OBVIOUS
<1>8. PICK n \in Nat : n = Len(out)
  BY <1>3
<1>9. /\ some \in Seq(Event)
      /\ Len(some) = n + 1
      /\ some[n + 1] = told
      /\ all[n + 1] = told
      /\ all[n + 2] = refused
      /\ out' = all
  <2>1. /\ some \in Seq(Event)
        /\ Len(some) = n + 1
        /\ some[n + 1] = told
    BY <1>3, <1>5, <1>6, <1>8
  <2>2. /\ all[n + 1] = some[n + 1]
        /\ all[n + 2] = refused
    BY <1>5, <1>7, <2>1
  <2>3. out \o <<told, refused>> = Append(Append(out, told), refused)
    BY <1>3, <1>5
  <2>. QED  BY <1>2, <1>4, <1>6, <1>7, <2>1, <2>2, <2>3
<1>10. BookAll(some, command, ledger) = Told
  <2>1. BookAll(some, command, ledger) = Book(some, command, Told, n + 1)
    BY <1>3, <1>5, <1>6, <1>8, NextBooked DEF Told
  <2>. QED  BY <1>4, <1>9, <2>1, EventBooked
<1>11. Told' = Drop(Told, id)
  <2>1. BookAll(all, command, ledger) = Book(all, command, Told, n + 2)
    BY <1>5, <1>7, <1>9, <1>10, NextBooked
  <2>2. n + 2 \in Nat \ {0, 1} /\ (n + 2) - 1 = n + 1
    OBVIOUS
  <2>3. Book(all, command, Told, n + 2) = Drop(Told, id)
    BY <1>4, <1>9, <2>2, RefusalBooked
  <2>. QED  BY <1>3, <1>9, <2>1, <2>3 DEF Told
<1>12. /\ LiveIds = {}
       /\ GoneIds = {}
       /\ id \notin DOMAIN resting
  BY <1>3 DEF LiveIds, GoneIds, Inv, OneHome
<1>13. /\ DOMAIN resting' = DOMAIN resting
       /\ \A x : VolumeOf(x)' = VolumeOf(x)
  BY <1>2, BookUnmoved
<1>14. \A j \in DOMAIN stops' : \E k \in DOMAIN stops : stops'[j] = stops[k]
  BY <1>3, StopLeaves DEF Inv
<1>. QED  BY <1>2, <1>3, <1>11, <1>12, <1>13, <1>14, DroppedTold

----------------------------------------------------------------------------
(* Orders that change their place, and amendments *)

LEMMA ActivatedTold ==
    ASSUME Inv, LedgerInv, ledger' = ledger, NEW i \in DOMAIN stops,
           ActivateStop(i)
    PROVE  LedgerInv'
<1>1. PICK id : id = stops[i].id
  OBVIOUS
<1>2. /\ TakeTriggered(i)
      /\ out' = Append(out, Triggered(seq, id))
      /\ phase' = "match"
      /\ UNCHANGED bookVars
      /\ live'.order_id = id
      /\ live'.qty = stops[i].qty
      /\ live'.self_canceled = <<>>
  BY <1>1 DEF ActivateStop, LiveOf
<1>3. /\ id \in Nat
      /\ seq \in Nat
      /\ out \in Seq(Event)
      /\ phase = "stops"
      /\ stops' = WithoutStop(i)
      /\ StopIds' = StopIds \ {id}
      /\ id \in StopIds
      /\ command' = command
  BY <1>1, <1>2, TakenStopFacts DEF TakeTriggered
<1>4. Told' = Told
  <2>1. Triggered(seq, id) \in Event
    BY <1>3, EventsTyped
  <2>2. Told' = Book(Append(out, Triggered(seq, id)), command, Told,
                     Len(out) + 1)
    BY <1>2, <1>3, <2>1, NextTold
  <2>3. PICK all : all = Append(out, Triggered(seq, id))
    OBVIOUS
  <2>4. all[Len(out) + 1] = Triggered(seq, id)
    BY <1>3, <2>1, <2>3
  <2>5. Book(all, command, Told, Len(out) + 1) = Told
    BY <2>4, EventBooked
  <2>. QED  BY <2>2, <2>3, <2>5
<1>5. /\ OpenIds = DOMAIN resting \cup StopIds
      /\ GoneIds = {}
      /\ OpenIds' = DOMAIN resting' \cup StopIds' \cup {id}
      /\ GoneIds' = {}
  BY <1>2, <1>3 DEF OpenIds, LiveIds, GoneIds, ToSet
<1>6. /\ DOMAIN resting' = DOMAIN resting
      /\ \A x : VolumeOf(x)' = VolumeOf(x)
  BY <1>2, BookUnmoved
<1>7. PICK v : v = Told
  OBVIOUS
<1>8. /\ IsFcn(v)
      /\ DOMAIN v = OpenIds
      /\ \A x \in DOMAIN resting : v[x] = VolumeOf(x)
      /\ \A k \in DOMAIN stops : v[stops[k].id] = stops[k].qty
  BY <1>5, <1>7 DEF LedgerInv, Tells
<1>9. \A j \in DOMAIN stops' : v[stops'[j].id] = stops'[j].qty
  <2>1. \A j \in DOMAIN stops' : \E k \in DOMAIN stops : stops'[j] = stops[k]
    BY <1>3, StopLeaves DEF Inv
  <2>. QED  BY <1>8, <2>1
<1>10. DOMAIN v = OpenIds' \cup GoneIds'
  BY <1>3, <1>5, <1>6, <1>8
<1>11. v[live'.order_id] = live'.qty
  BY <1>1, <1>2, <1>8
<1>12. Tells(v)'
  BY <1>6, <1>8, <1>9, <1>10, <1>11 DEF Tells
<1>. QED  BY <1>2, <1>4, <1>5, <1>7, <1>12, StillTells

LEMMA AppendedSet ==
    ASSUME NEW ids \in Seq(Nat), NEW id \in Nat
    PROVE  ToSet(Append(ids, id)) = ToSet(ids) \cup {id}
<1>1. /\ DOMAIN Append(ids, id) = 1..(Len(ids) + 1)
      /\ DOMAIN ids = 1..Len(ids)
      /\ Len(ids) \in Nat
      /\ \A i \in 1..Len(ids) : Append(ids, id)[i] = ids[i]
      /\ Append(ids, id)[Len(ids) + 1] = id
  OBVIOUS
<1>. QED  BY <1>1 DEF ToSet

\* A maker that self-trade prevention took off the book is still to be told
\* of.
LEMMA CanceledMakerTold ==
    ASSUME Inv, LedgerInv, ledger' = ledger, phase = "match",
           NEW price \in DOMAIN levels[MakerSide], CancelMaker(price)
    PROVE  LedgerInv'
<1>1. PICK id : id = HeadOf(price)
  OBVIOUS
<1>2. /\ id \in DOMAIN resting
      /\ id \in Nat
      /\ live \in LiveOrder
      /\ live.self_canceled \in Seq(Nat)
  BY <1>1, MakerFacts, LiveFacts
<1>3. /\ resting' = Drop(resting, id)
      /\ reserves' = Drop(reserves, id)
      /\ live' = [live EXCEPT !.self_canceled = Append(@, id)]
      /\ UNCHANGED <<stops, phase, command, out>>
  BY <1>1 DEF CancelMaker, Detach, HeadOf
<1>4. /\ live'.order_id = live.order_id
      /\ live'.qty = live.qty
      /\ live'.self_canceled = Append(live.self_canceled, id)
  BY <1>2, <1>3 DEF LiveOrder
<1>5. Told' = Told
  BY <1>3 DEF Told
<1>6. /\ DOMAIN resting' = DOMAIN resting \ {id}
      /\ \A x \in DOMAIN resting' : VolumeOf(x)' = VolumeOf(x)
  BY <1>3, RemovedVolumes
<1>7. GoneIds' = GoneIds \cup {id}
  <2>1. ToSet(Append(live.self_canceled, id)) =
            ToSet(live.self_canceled) \cup {id}
    BY <1>2, AppendedSet
  <2>. QED  BY <1>3, <1>4, <2>1 DEF GoneIds
<1>8. /\ LiveIds' = LiveIds
      /\ StopIds' = StopIds
      /\ id \notin LiveIds \cup StopIds
  BY <1>2, <1>3, <1>4 DEF LiveIds, StopIds, Inv, OneHome
<1>9. OpenIds' = OpenIds \ {id} /\ id \in OpenIds
  BY <1>2, <1>6, <1>8 DEF OpenIds
<1>10. OpenIds \cap GoneIds = {}
  BY DEF LedgerInv
<1>11. (OpenIds \cap GoneIds = {})'
  BY <1>7, <1>9, <1>10
<1>12. PICK v : v = Told
  OBVIOUS
<1>13. /\ IsFcn(v)
       /\ DOMAIN v = OpenIds \cup GoneIds
       /\ \A x \in DOMAIN resting : v[x] = VolumeOf(x)
       /\ \A k \in DOMAIN stops : v[stops[k].id] = stops[k].qty
       /\ v[live.order_id] = live.qty
  BY <1>12 DEF LedgerInv, Tells
<1>14. DOMAIN v = OpenIds' \cup GoneIds'
  BY <1>7, <1>9, <1>13
<1>15. Tells(v)'
  BY <1>3, <1>4, <1>6, <1>13, <1>14 DEF Tells
<1>. QED  BY <1>3, <1>5, <1>11, <1>12, <1>15, StillTells

\* An order that is reduced in place hides nothing.
LEMMA ReducedTold ==
    ASSUME Inv, LedgerInv, ledger' = ledger, NEW id \in Nat,
           NEW a \in Amendments, ModifyInPlace(id, a)
    PROVE  LedgerInv'
<1>1. PICK first, second : /\ first = Modified(seq + 1, id)
                           /\ second = Resting(seq + 1, id, a.price, a.qty)
  OBVIOUS
<1>2. /\ phase = "idle"
      /\ phase' = "done"
      /\ id \in DOMAIN resting
      /\ id \notin DOMAIN reserves
      /\ a.qty <= resting[id].qty
      /\ stops' = stops
      /\ command' = Modify(id, a)
      /\ out' = <<first, second>>
      /\ IF a.qty < resting[id].qty THEN Reduce(id, a.qty)
         ELSE UNCHANGED bookVars
  BY <1>1 DEF ModifyInPlace, StaysInPlace, Admit, Submit
<1>3. a.qty \in Nat /\ a.price \in Nat
  BY MenuAssumption DEF Amendment
<1>4. first \in Event /\ second \in Event
  <2>1. seq + 1 \in Nat
    BY DEF Inv, CallTypeOK
  <2>. QED  BY <1>1, <1>3, <2>1, EventsTyped
<1>5. Told' = Put(Told, id, a.qty)
  <2>1. PICK some : some = <<first>>
    OBVIOUS
  <2>2. /\ some \in Seq(Event)
        /\ Len(some) = 1
        /\ <<first, second>> = Append(some, second)
        /\ Append(some, second)[2] = second
    BY <1>4, <2>1
  <2>3. BookAll(some, Modify(id, a), ledger) = Put(Told, id, a.qty)
    <3>1. BookAll(some, Modify(id, a), ledger) =
              Book(some, Modify(id, a), ledger, 1)
      BY <1>4, <2>1, FirstBooked
    <3>2. some[1] = Modified(seq + 1, id)
      BY <1>1, <2>1
    <3>3. Modify(id, a).qty = a.qty
      BY DEF Modify
    <3>. QED  BY <1>2, <3>1, <3>2, <3>3, EventBooked, IdleFacts
  <2>4. BookAll(Append(some, second), Modify(id, a), ledger) =
            Book(Append(some, second), Modify(id, a),
                 Put(Told, id, a.qty), 2)
    <3>1. Len(some) + 1 = 2
      BY <2>2
    <3>. QED  BY <1>4, <2>2, <2>3, <3>1, NextBooked
  <2>5. Book(Append(some, second), Modify(id, a), Put(Told, id, a.qty), 2) =
            Put(Told, id, a.qty)
    <3>1. PICK all : all = Append(some, second)
      OBVIOUS
    <3>2. all[2] = Resting(seq + 1, id, a.price, a.qty)
      BY <1>1, <2>2, <3>1
    <3>3. Book(all, Modify(id, a), Put(Told, id, a.qty), 2) =
              Put(Told, id, a.qty)
      BY <3>2, EventBooked
    <3>. QED  BY <3>1, <3>3
  <2>. QED  BY <1>2, <2>2, <2>4, <2>5 DEF Told
<1>6. /\ DOMAIN resting' = DOMAIN resting
      /\ reserves' = reserves
      /\ resting'[id].qty = a.qty
      /\ \A x \in DOMAIN resting \ {id} : resting'[x] = resting[x]
  <2>1. resting[id].qty \in Nat
    BY <1>2, OrderFacts DEF Inv
  <2>2. CASE a.qty < resting[id].qty
    <3>1. resting' = [resting EXCEPT ![id].qty = a.qty] /\ reserves' = reserves
      BY <1>2, <2>2 DEF Reduce
    <3>2. IsMap(resting, Nat, RestingOrder)
      BY DEF Inv, BookInv, BookTypeOK
    <3>3. resting[id] \in RestingOrder
      BY <1>2, <3>2 DEF IsMap
    <3>4. resting'[id] = [resting[id] EXCEPT !.qty = a.qty]
      BY <1>2, <3>1, <3>2 DEF IsMap
    <3>5. resting'[id].qty = a.qty
      BY <3>3, <3>4 DEF RestingOrder
    <3>. QED  BY <1>2, <3>1, <3>2, <3>5 DEF IsMap
  <2>3. CASE ~(a.qty < resting[id].qty)
    <3>1. a.qty = resting[id].qty
      BY <1>2, <1>3, <2>1, <2>3
    <3>2. resting' = resting /\ reserves' = reserves
      BY <1>2, <2>3 DEF bookVars
    <3>. QED  BY <3>1, <3>2
  <2>. QED  BY <2>2, <2>3
<1>7. /\ \A x \in DOMAIN resting \ {id} : VolumeOf(x)' = VolumeOf(x)
      /\ VolumeOf(id)' = a.qty
  <2>1. \A x : Hidden(x)' = Hidden(x)
    BY <1>6 DEF Hidden
  <2>2. Hidden(id)' = 0
    BY <1>2, <1>6 DEF Hidden
  <2>. QED  BY <1>2, <1>3, <1>6, <2>1, <2>2 DEF VolumeOf
<1>8. /\ StopIds' = StopIds
      /\ OpenIds = DOMAIN resting \cup StopIds
      /\ OpenIds' = DOMAIN resting' \cup StopIds'
      /\ GoneIds = {}
      /\ GoneIds' = {}
      /\ id \notin StopIds
  BY <1>2, IdleFacts, OutsideMatch DEF StopIds, Inv, OneHome
<1>9. PICK v : v = Put(Told, id, a.qty)
  OBVIOUS
<1>10. /\ DOMAIN Told = OpenIds
       /\ \A x \in DOMAIN resting : Told[x] = VolumeOf(x)
       /\ \A k \in DOMAIN stops : Told[stops[k].id] = stops[k].qty
  BY <1>8 DEF LedgerInv, Tells
<1>11. /\ IsFcn(v)
       /\ DOMAIN v = DOMAIN Told \cup {id}
       /\ v[id] = a.qty
       /\ \A x \in DOMAIN Told \ {id} : v[x] = Told[x]
  BY <1>9 DEF Put, IsFcn
<1>12. \A x \in DOMAIN resting' : v[x] = VolumeOf(x)'
  BY <1>6, <1>7, <1>8, <1>10, <1>11
<1>13. \A k \in DOMAIN stops : v[stops[k].id] = stops[k].qty
  <2>1. \A k \in DOMAIN stops : stops[k].id \in DOMAIN Told \ {id}
    BY <1>8, <1>10 DEF StopIds
  <2>. QED  BY <1>10, <1>11, <2>1
<1>14. DOMAIN v = OpenIds' \cup GoneIds'
  BY <1>2, <1>6, <1>8, <1>10, <1>11
<1>15. Tells(v)'
  BY <1>2, <1>11, <1>12, <1>13, <1>14 DEF Tells
<1>. QED  BY <1>2, <1>5, <1>8, <1>9, <1>15, StillTells

\* Any other amended order is matched anew.
LEMMA ReplacedTold ==
    ASSUME Inv, LedgerInv, ledger' = ledger, NEW id \in Nat,
           NEW a \in Amendments, ModifyReplace(id, a)
    PROVE  LedgerInv'
<1>1. /\ phase = "idle"
      /\ phase' = "match"
      /\ id \in DOMAIN resting
      /\ resting' = Drop(resting, id)
      /\ reserves' = Drop(reserves, id)
      /\ stops' = stops
      /\ command' = Modify(id, a)
      /\ out' = <<Modified(seq + 1, id)>>
      /\ live'.order_id = id
      /\ live'.qty = a.qty
      /\ live'.self_canceled = <<>>
  BY DEF ModifyReplace, Admit, Submit, CancelResting, ReplacementOf
<1>2. Modified(seq + 1, id) \in Event
  BY EventsTyped DEF Inv, CallTypeOK
<1>3. Told' = Put(Told, id, a.qty)
  <2>1. Told' = Book(<<Modified(seq + 1, id)>>, Modify(id, a), Told, 1)
    BY <1>1, <1>2, FirstTold
  <2>2. Modify(id, a).qty = a.qty
    BY DEF Modify
  <2>. QED  BY <2>1, <2>2, EventBooked
<1>4. /\ DOMAIN resting' = DOMAIN resting \ {id}
      /\ \A x \in DOMAIN resting' : VolumeOf(x)' = VolumeOf(x)
  BY <1>1, RemovedVolumes
<1>5. /\ StopIds' = StopIds
      /\ LiveIds' = {id}
      /\ GoneIds' = {}
      /\ id \notin StopIds
  BY <1>1 DEF StopIds, LiveIds, GoneIds, ToSet, Inv, OneHome
<1>6. /\ OpenIds = DOMAIN resting \cup StopIds
      /\ GoneIds = {}
      /\ OpenIds' = DOMAIN resting' \cup StopIds' \cup {id}
  BY <1>1, <1>5, IdleFacts DEF OpenIds
<1>7. PICK v : v = Put(Told, id, a.qty)
  OBVIOUS
<1>8. /\ DOMAIN Told = OpenIds
      /\ \A x \in DOMAIN resting : Told[x] = VolumeOf(x)
      /\ \A k \in DOMAIN stops : Told[stops[k].id] = stops[k].qty
  BY <1>6 DEF LedgerInv, Tells
<1>9. /\ IsFcn(v)
      /\ DOMAIN v = DOMAIN Told \cup {id}
      /\ v[id] = a.qty
      /\ \A x \in DOMAIN Told \ {id} : v[x] = Told[x]
  BY <1>7 DEF Put, IsFcn
<1>10. \A x \in DOMAIN resting' : v[x] = VolumeOf(x)'
  BY <1>4, <1>6, <1>8, <1>9
<1>11. \A k \in DOMAIN stops : v[stops[k].id] = stops[k].qty
  <2>1. \A k \in DOMAIN stops : stops[k].id \in DOMAIN Told \ {id}
    BY <1>5, <1>6, <1>8 DEF StopIds
  <2>. QED  BY <1>8, <1>9, <2>1
<1>12. DOMAIN v = OpenIds' \cup GoneIds'
  BY <1>1, <1>4, <1>5, <1>6, <1>8, <1>9
<1>13. Tells(v)'
  BY <1>1, <1>9, <1>10, <1>11, <1>12 DEF Tells
<1>. QED  BY <1>1, <1>3, <1>5, <1>7, <1>13, StillTells

----------------------------------------------------------------------------
(* Trades *)

\* Both sides of a trade are debited, and a maker without a rest is closed.
Debits(l, taker, maker, qty, v) ==
    /\ IsFcn(v)
    /\ DOMAIN v = IF l[maker] - qty = 0 THEN DOMAIN l \ {maker} ELSE DOMAIN l
    /\ v[taker] = l[taker] - qty
    /\ l[maker] - qty # 0 => v[maker] = l[maker] - qty
    /\ \A x \in DOMAIN l \ {taker, maker} : v[x] = l[x]

LEMMA TradedLedger ==
    \A l, taker, maker, qty, v :
        /\ {taker, maker} \subseteq DOMAIN l
        /\ taker # maker
        /\ v = CloseIfFilled(Debit(Debit(l, taker, qty), maker, qty), maker)
        => Debits(l, taker, maker, qty, v)
<1>. SUFFICES ASSUME NEW l, NEW taker \in DOMAIN l, NEW maker \in DOMAIN l,
                     taker # maker, NEW qty, NEW v,
                     v = CloseIfFilled(Debit(Debit(l, taker, qty), maker, qty),
                                       maker)
              PROVE  Debits(l, taker, maker, qty, v)
  OBVIOUS
<1>1. PICK one : one = Debit(l, taker, qty)
  OBVIOUS
<1>2. /\ DOMAIN one = DOMAIN l
      /\ one[taker] = l[taker] - qty
      /\ \A x \in DOMAIN l \ {taker} : one[x] = l[x]
  BY <1>1 DEF Debit, Entry, Put
<1>3. PICK two : two = Debit(one, maker, qty)
  OBVIOUS
<1>4. /\ DOMAIN two = DOMAIN l
      /\ two[maker] = l[maker] - qty
      /\ \A x \in DOMAIN l \ {maker} : two[x] = one[x]
      /\ IsFcn(two)
  BY <1>2, <1>3 DEF Debit, Entry, Put, IsFcn
<1>5. v = IF l[maker] - qty = 0 THEN Drop(two, maker) ELSE two
  BY <1>1, <1>3, <1>4 DEF CloseIfFilled, Entry
<1>6. CASE l[maker] - qty = 0
  <2>1. v = Drop(two, maker)
    BY <1>5, <1>6
  <2>2. /\ IsFcn(v)
        /\ DOMAIN v = DOMAIN two \ {maker}
        /\ \A x \in DOMAIN two \ {maker} : v[x] = two[x]
    BY <2>1 DEF Drop, Restrict, IsFcn
  <2>. QED  BY <1>2, <1>4, <1>6, <2>2 DEF Debits
<1>7. CASE l[maker] - qty # 0
  <2>1. v = two
    BY <1>5, <1>7
  <2>. QED  BY <1>2, <1>4, <1>7, <2>1 DEF Debits
<1>. QED  BY <1>6, <1>7

LEMMA TradedTold ==
    ASSUME Inv, Inv', VolumeInv, LedgerInv, ledger' = ledger, phase = "match",
           NEW price \in DOMAIN levels[MakerSide], TradeWithHead(price)
    PROVE  LedgerInv'
<1>1. PICK maker, taker : maker = HeadOf(price) /\ taker = live.order_id
  OBVIOUS
<1>2. PICK traded : traded = Min({live.qty, resting[maker].qty})
  OBVIOUS
<1>3. /\ maker \in DOMAIN resting
      /\ maker \in Nat
      /\ maker = Head(FifoOf(MakerSide, price))
      /\ resting[maker].qty \in Nat
      /\ price \in Nat
      /\ live \in LiveOrder
      /\ live.qty \in Nat
      /\ taker \in Nat
      /\ live.owner \in Owners
      /\ live.side \in Sides
      /\ MakerSide \in Sides
      /\ seq \in Nat
      /\ out \in Seq(Event)
  BY <1>1, MakerFacts, LiveFacts
<1>4. PICK trade : trade = Trade(seq, taker, maker, price, traded, live.side,
                                 TakerFee(price, traded),
                                 MakerFee(price, traded))
  OBVIOUS
<1>5. /\ FillHead(MakerSide, price, traded, live.owner)
      /\ live' = [live EXCEPT !.qty = live.qty - traded, !.last_px = price]
      /\ out' = Append(out, trade)
      /\ UNCHANGED <<stops, phase, command>>
  BY <1>1, <1>2, <1>4 DEF TradeWithHead
<1>6. /\ live'.order_id = taker
      /\ live'.qty = live.qty - traded
      /\ live'.self_canceled = live.self_canceled
  BY <1>1, <1>3, <1>5 DEF LiveOrder
<1>7. traded \in Nat
  BY <1>2, <1>3, MinOfTwo
<1>8. trade \in Event
  BY <1>3, <1>4, <1>7, FeesTyped, EventsTyped
<1>9. Told' = CloseIfFilled(Debit(Debit(Told, taker, traded), maker, traded),
                            maker)
  <2>1. PICK all : all = Append(out, trade)
    OBVIOUS
  <2>2. PICK n : n = Len(out) + 1
    OBVIOUS
  <2>3. Told' = Book(all, command, Told, n)
    BY <1>3, <1>5, <1>8, <2>1, <2>2, NextTold
  <2>4. all[n] = trade
    BY <1>3, <1>8, <2>1, <2>2
  <2>5. Book(all, command, Told, n) =
            CloseIfFilled(Debit(Debit(Told, taker, traded), maker, traded),
                          maker)
    BY <1>4, <2>4, TradeBooked
  <2>. QED  BY <2>3, <2>5
<1>10. /\ OneMove(maker, MakerSide, price, resting[maker].owner)
       /\ VolumeOf(maker)' = VolumeOf(maker) - traded
  <2>1. BookInv /\ OpenCovers
    BY RestingFinite, VolumesCover DEF Inv, VolumeInv, FinitelyMany
  <2>. QED  BY <1>3, <1>5, <1>7, <2>1, FillMoves
<1>11. /\ DOMAIN resting' \ {maker} = DOMAIN resting \ {maker}
       /\ \A x \in DOMAIN resting' \ {maker} : VolumeOf(x)' = VolumeOf(x)
  BY <1>10, OthersKept
<1>12. maker \in DOMAIN resting' <=> VolumeOf(maker)' # 0
  <2>1. maker \notin DOMAIN resting' => VolumeOf(maker)' = 0
    BY DEF VolumeOf
  <2>2. ASSUME maker \in DOMAIN resting'
        PROVE  VolumeOf(maker)' # 0
    <3>1. /\ resting'[maker].qty > 0
          /\ resting' \in [DOMAIN resting' -> RestingOrder]
      BY <2>2 DEF Inv, BookInv, BookTypeOK, IsMap, NothingEmptyRests
    <3>2. resting'[maker].qty \in Nat
      BY <2>2, <3>1 DEF RestingOrder
    <3>3. Hidden(maker)' \in Nat
      BY DEF Inv, BookInv, BookTypeOK, IsMap, Reserve, Hidden
    <3>. QED  BY <2>2, <3>1, <3>2, <3>3 DEF VolumeOf
  <2>. QED  BY <2>1, <2>2
<1>13. /\ taker # maker
       /\ LiveIds = {taker}
       /\ taker \notin DOMAIN resting
       /\ taker \notin StopIds
       /\ maker \notin StopIds
  BY <1>1, <1>3 DEF LiveIds, Inv, OneHome
<1>14. PICK l : l = Told
  OBVIOUS
<1>15. /\ DOMAIN l = OpenIds \cup GoneIds
       /\ \A x \in DOMAIN resting : l[x] = VolumeOf(x)
       /\ \A k \in DOMAIN stops : l[stops[k].id] = stops[k].qty
       /\ l[taker] = live.qty
       /\ OpenIds \cap GoneIds = {}
  BY <1>1, <1>14 DEF LedgerInv, Tells
<1>16. PICK v : v = Told'
  OBVIOUS
<1>17. taker \in DOMAIN l /\ maker \in DOMAIN l
  BY <1>3, <1>13, <1>15 DEF OpenIds
<1>18. v = CloseIfFilled(Debit(Debit(l, taker, traded), maker, traded), maker)
  BY <1>9, <1>14, <1>16
<1>19. /\ IsFcn(v)
       /\ DOMAIN v = IF l[maker] - traded = 0 THEN DOMAIN l \ {maker}
                     ELSE DOMAIN l
       /\ v[taker] = l[taker] - traded
       /\ l[maker] - traded # 0 => v[maker] = l[maker] - traded
       /\ \A x \in DOMAIN l \ {taker, maker} : v[x] = l[x]
  <2>1. Debits(l, taker, maker, traded, v)
    BY <1>13, <1>17, <1>18, TradedLedger
  <2>. QED  BY <2>1 DEF Debits
<1>20. l[maker] - traded = VolumeOf(maker)'
  BY <1>3, <1>10, <1>15
<1>21. /\ StopIds' = StopIds
       /\ LiveIds' = LiveIds
       /\ GoneIds' = GoneIds
  BY <1>1, <1>5, <1>6 DEF StopIds, LiveIds, GoneIds
<1>22. OpenIds' = IF maker \in DOMAIN resting' THEN OpenIds
                  ELSE OpenIds \ {maker}
  BY <1>3, <1>11, <1>13, <1>21 DEF OpenIds
<1>23. maker \notin GoneIds
  BY <1>3, <1>15 DEF OpenIds
<1>24. DOMAIN v = OpenIds' \cup GoneIds'
  BY <1>12, <1>15, <1>19, <1>20, <1>21, <1>22, <1>23
<1>25. (OpenIds \cap GoneIds = {})'
  <2>1. OpenIds' \subseteq OpenIds
    BY <1>22
  <2>. QED  BY <1>15, <1>21, <2>1
<1>26. \A x \in DOMAIN resting' : v[x] = VolumeOf(x)'
  <2>1. CASE maker \in DOMAIN resting'
    <3>1. v[maker] = VolumeOf(maker)'
      BY <1>12, <1>19, <1>20, <2>1
    <3>2. \A x \in DOMAIN resting' \ {maker} : v[x] = VolumeOf(x)'
      BY <1>11, <1>13, <1>15, <1>19 DEF OpenIds
    <3>. QED  BY <3>1, <3>2
  <2>2. CASE maker \notin DOMAIN resting'
    BY <1>11, <1>13, <1>15, <1>19, <2>2 DEF OpenIds
  <2>. QED  BY <2>1, <2>2
<1>27. \A k \in DOMAIN stops : v[stops[k].id] = stops[k].qty
  <2>1. \A k \in DOMAIN stops : stops[k].id \in DOMAIN l \ {taker, maker}
    BY <1>13, <1>15 DEF OpenIds, StopIds
  <2>. QED  BY <1>15, <1>19, <2>1
<1>28. v[live'.order_id] = live'.qty
  BY <1>6, <1>15, <1>19
<1>29. Tells(v)'
  BY <1>5, <1>19, <1>24, <1>26, <1>27, <1>28 DEF Tells
<1>30. phase' # "idle"
  BY <1>5
<1>. QED  BY <1>16, <1>25, <1>29, <1>30, StillTells

----------------------------------------------------------------------------
(* The tail of settle *)

\* The removed makers are booked before what became of the order.
LEMMA FinishBooked ==
    ASSUME Inv, LedgerInv, ledger' = ledger, phase = "match",
           NEW ids \in Seq(Nat), NEW event \in Event, FinishWith(ids, event)
    PROVE  \E all, n : /\ all[n] = event
                       /\ Told' = Book(all, command, Without(Told, ids), n)
<1>1. /\ out' = (out \o SelfCancels(ids)) \o <<event>>
      /\ command' = command
  BY DEF FinishWith
<1>2. seq \in Nat /\ out \in Seq(Event)
  BY LiveFacts
<1>3. PICK cancels : cancels = SelfCancels(ids)
  OBVIOUS
<1>4. /\ cancels \in Seq(Event)
      /\ AreCancels(cancels, ids, seq)
  <2>1. cancels = [i \in 1..Len(ids) |-> Canceled(seq, ids[i])]
    BY <1>3 DEF SelfCancels
  <2>2. cancels \in Seq(Event)
    BY <1>2, <1>3, SelfCancelsTyped
  <2>. QED  BY <2>1, <2>2 DEF AreCancels
<1>5. IsFcn(Told)
  BY DEF LedgerInv, Tells
<1>6. BookAll(out \o cancels, command, ledger) = Without(Told, ids)
  <2>1. IsFcn(BookAll(out, command, ledger))
    BY <1>5 DEF Told
  <2>. QED  BY <1>2, <1>4, <2>1, CancelsBooked DEF Told
<1>7. PICK some : some = out \o cancels
  OBVIOUS
<1>8. some \in Seq(Event)
  BY <1>2, <1>4, <1>7
<1>9. PICK all, n : all = Append(some, event) /\ n = Len(some) + 1
  OBVIOUS
<1>10. all[n] = event /\ some \o <<event>> = all
  BY <1>8, <1>9
<1>11. BookAll(all, command, ledger) = Book(all, command, Without(Told, ids), n)
  <2>1. BookAll(some, command, ledger) = Without(Told, ids)
    BY <1>6, <1>7
  <2>. QED  BY <1>8, <1>9, <2>1, NextBooked
<1>12. out' = all
  BY <1>1, <1>3, <1>7, <1>10
<1>13. Told' = Book(all, command, Without(Told, ids), n)
  BY <1>1, <1>11, <1>12 DEF Told
<1>. QED  BY <1>10, <1>13

\* The order leaves, and the makers that were removed with it or before.
LEMMA LeftTold ==
    ASSUME Inv, LedgerInv, ledger' = ledger, phase = "match",
           NEW ids \in Seq(Nat), NEW event \in Event, FinishWith(ids, event),
           \/ event = Canceled(seq, live.order_id)
           \/ event = Filled(seq, live.order_id) /\ live.qty = 0,
           DOMAIN resting' \subseteq DOMAIN resting,
           ToSet(ids) = GoneIds \cup (DOMAIN resting \ DOMAIN resting'),
           \A x \in DOMAIN resting' : VolumeOf(x)' = VolumeOf(x)
    PROVE  LedgerInv'
<1>1. PICK id : id = live.order_id
  OBVIOUS
<1>2. PICK l, v : l = Told /\ v = Without(Told, ids)
  OBVIOUS
<1>3. PICK all, n : all[n] = event /\ Told' = Book(all, command, v, n)
  BY <1>2, FinishBooked
<1>4. /\ DOMAIN l = OpenIds \cup GoneIds
      /\ \A x \in DOMAIN resting : l[x] = VolumeOf(x)
      /\ \A k \in DOMAIN stops : l[stops[k].id] = stops[k].qty
      /\ l[id] = live.qty
      /\ OpenIds \cap GoneIds = {}
  BY <1>1, <1>2 DEF LedgerInv, Tells
<1>5. /\ LiveIds = {id}
      /\ id \notin DOMAIN resting
      /\ id \notin StopIds
      /\ StopIds \cap DOMAIN resting = {}
  BY <1>1 DEF LiveIds, Inv, OneHome
<1>6. /\ DOMAIN v = DOMAIN l \ ToSet(ids)
      /\ \A x \in DOMAIN l \ ToSet(ids) : v[x] = l[x]
  BY <1>2 DEF Without
<1>7. id \in DOMAIN v /\ v[id] = live.qty
  BY <1>4, <1>5, <1>6 DEF OpenIds
<1>8. PICK w : w = Drop(v, id)
  OBVIOUS
<1>9. w = Told'
  <2>1. CASE event = Canceled(seq, id)
    BY <1>3, <1>8, <2>1, EventBooked
  <2>2. CASE event = Filled(seq, id) /\ live.qty = 0
    <3>1. Told' = CloseIfFilled(v, id)
      BY <1>3, <2>2, EventBooked
    <3>. QED  BY <1>7, <1>8, <2>2, <3>1 DEF CloseIfFilled, Entry
  <2>. QED  BY <1>1, <2>1, <2>2
<1>10. /\ IsFcn(w)
       /\ DOMAIN w = DOMAIN v \ {id}
       /\ \A x \in DOMAIN v \ {id} : w[x] = v[x]
  BY <1>8 DEF Drop, Restrict, IsFcn
<1>11. /\ phase' = "stops"
       /\ stops' = stops
       /\ StopIds' = StopIds
  BY DEF FinishWith, StopIds
<1>12. OpenIds' = DOMAIN resting' \cup StopIds' /\ GoneIds' = {}
  BY <1>11, OutsideMatch
<1>13. DOMAIN w = OpenIds' \cup GoneIds'
  BY <1>4, <1>5, <1>6, <1>10, <1>11, <1>12 DEF OpenIds
<1>14. \A x \in DOMAIN w : w[x] = l[x]
  BY <1>6, <1>10
<1>15. \A x \in DOMAIN resting' : w[x] = VolumeOf(x)'
  BY <1>4, <1>12, <1>13, <1>14
<1>16. \A k \in DOMAIN stops : w[stops[k].id] = stops[k].qty
  <2>1. \A k \in DOMAIN stops : stops[k].id \in DOMAIN w
    BY <1>11, <1>12, <1>13 DEF StopIds
  <2>. QED  BY <1>4, <1>14, <2>1
<1>17. Tells(w)'
  BY <1>10, <1>11, <1>13, <1>15, <1>16 DEF Tells
<1>. QED  BY <1>9, <1>11, <1>12, <1>17, StillTells

LEMMA FinishedTold ==
    ASSUME Inv, LedgerInv, ledger' = ledger, phase = "match",
           \/ \E price \in DOMAIN levels[MakerSide] : CancelTaker(price)
           \/ \E price \in DOMAIN levels[MakerSide] : CancelBoth(price)
           \/ FinishFilled
           \/ CancelRemainder
    PROVE  LedgerInv'
<1>1. /\ live.self_canceled \in Seq(Nat)
      /\ GoneIds = ToSet(live.self_canceled)
      /\ Canceled(seq, live.order_id) \in Event
      /\ Filled(seq, live.order_id) \in Event
  BY LiveFacts, EventsTyped DEF GoneIds
<1>2. ASSUME NEW event \in Event, FinishWith(live.self_canceled, event),
             \/ event = Canceled(seq, live.order_id)
             \/ event = Filled(seq, live.order_id) /\ live.qty = 0,
             UNCHANGED bookVars
      PROVE  LedgerInv'
  <2>1. /\ DOMAIN resting' = DOMAIN resting
        /\ \A x : VolumeOf(x)' = VolumeOf(x)
    BY <1>2, BookUnmoved
  <2>. QED  BY <1>1, <1>2, <2>1, LeftTold
<1>3. ASSUME NEW price \in DOMAIN levels[MakerSide], CancelTaker(price)
      PROVE  LedgerInv'
  BY <1>1, <1>2, <1>3 DEF CancelTaker
<1>4. ASSUME FinishFilled
      PROVE  LedgerInv'
  BY <1>1, <1>2, <1>4 DEF FinishFilled
<1>5. ASSUME CancelRemainder
      PROVE  LedgerInv'
  BY <1>1, <1>2, <1>5 DEF CancelRemainder
<1>6. ASSUME NEW price \in DOMAIN levels[MakerSide], CancelBoth(price)
      PROVE  LedgerInv'
  <2>1. PICK maker, ids : /\ maker = HeadOf(price)
                          /\ ids = Append(live.self_canceled, maker)
    OBVIOUS
  <2>2. /\ maker \in DOMAIN resting
        /\ maker \in Nat
    BY <2>1, MakerFacts
  <2>3. /\ resting' = Drop(resting, maker)
        /\ reserves' = Drop(reserves, maker)
        /\ FinishWith(ids, Canceled(seq, live.order_id))
    BY <1>6, <2>1 DEF CancelBoth, Detach, HeadOf
  <2>4. /\ ids \in Seq(Nat)
        /\ ToSet(ids) = GoneIds \cup {maker}
    BY <1>1, <2>1, <2>2, AppendedSet
  <2>5. /\ DOMAIN resting' = DOMAIN resting \ {maker}
        /\ \A x \in DOMAIN resting' : VolumeOf(x)' = VolumeOf(x)
    BY <2>3, RemovedVolumes
  <2>6. ToSet(ids) = GoneIds \cup (DOMAIN resting \ DOMAIN resting')
    BY <2>2, <2>4, <2>5
  <2>. QED  BY <1>1, <2>3, <2>4, <2>5, <2>6, LeftTold
<1>. QED  BY <1>3, <1>4, <1>5, <1>6

\* What rests is still the order the client knows.
LEMMA RestedTold ==
    ASSUME Inv, LedgerInv, ledger' = ledger, RestRemainder
    PROVE  LedgerInv'
<1>1. phase = "match"
  BY DEF RestRemainder, Matching
<1>2. PICK order \in RestingOrder, hidden \in Nat :
         /\ Insert(live.order_id, order, live.display, hidden)
         /\ order.qty + hidden = live.qty
         /\ live.order_id \in Nat \ DOMAIN resting
         /\ live.display \in Nat
  BY RestFacts
<1>3. PICK id, ids : id = live.order_id /\ ids = live.self_canceled
  OBVIOUS
<1>4. PICK display : display = live.display
  OBVIOUS
<1>5. /\ OneMove(id, order.side, order.price, order.owner)
      /\ VolumeOf(id)' = live.qty
  BY <1>2, <1>3, <1>4, InsertMoves DEF Inv
<1>6. /\ DOMAIN resting' = DOMAIN resting \cup {id}
      /\ \A x \in DOMAIN resting : VolumeOf(x)' = VolumeOf(x)
  <2>1. /\ DOMAIN resting' \ {id} = DOMAIN resting \ {id}
        /\ \A x \in DOMAIN resting' \ {id} : VolumeOf(x)' = VolumeOf(x)
    BY <1>5, OthersKept
  <2>2. id \in DOMAIN resting'
    BY <1>2, <1>3 DEF Insert, Put
  <2>. QED  BY <1>2, <1>3, <2>1, <2>2
<1>7. PICK event, price, qty :
         /\ event \in Event
         /\ event = Resting(seq, id, price, qty)
         /\ FinishWith(ids, event)
  <2>1. PICK qty : qty = IF live.display > 0 /\ live.display < live.qty
                         THEN live.display ELSE live.qty
    OBVIOUS
  <2>2. /\ FinishWith(ids, Resting(seq, id, live.limit_price, qty))
        /\ live.limit_price # None
    BY <1>3, <2>1 DEF RestRemainder, Rests
  <2>3. /\ qty \in Nat
        /\ live.limit_price \in Nat
        /\ seq \in Nat
        /\ id \in Nat
    BY <1>1, <1>3, <2>1, <2>2, LiveFacts
  <2>. QED  BY <2>2, <2>3, EventsTyped
<1>8. PICK l, v : l = Told /\ v = Without(Told, ids)
  OBVIOUS
<1>9. v = Told'
  <2>1. ids \in Seq(Nat)
    BY <1>1, <1>3, LiveFacts
  <2>2. PICK all, n : all[n] = event /\ Told' = Book(all, command, v, n)
    BY <1>1, <1>7, <1>8, <2>1, FinishBooked
  <2>. QED  BY <1>7, <2>2, EventBooked
<1>10. /\ DOMAIN l = OpenIds \cup GoneIds
       /\ \A x \in DOMAIN resting : l[x] = VolumeOf(x)
       /\ \A k \in DOMAIN stops : l[stops[k].id] = stops[k].qty
       /\ l[id] = live.qty
       /\ OpenIds \cap GoneIds = {}
  BY <1>1, <1>3, <1>8 DEF LedgerInv, Tells
<1>11. LiveIds = {id} /\ GoneIds = ToSet(ids)
  BY <1>1, <1>3 DEF LiveIds, GoneIds
<1>12. /\ IsFcn(v)
       /\ DOMAIN v = DOMAIN l \ ToSet(ids)
       /\ \A x \in DOMAIN l \ ToSet(ids) : v[x] = l[x]
  BY <1>8 DEF Without, IsFcn
<1>13. DOMAIN v = OpenIds
  BY <1>10, <1>11, <1>12
<1>14. /\ phase' = "stops"
       /\ stops' = stops
       /\ StopIds' = StopIds
  BY <1>7 DEF FinishWith, StopIds
<1>15. OpenIds' = OpenIds /\ GoneIds' = {}
  <2>1. OpenIds' = DOMAIN resting' \cup StopIds' /\ GoneIds' = {}
    BY <1>14, OutsideMatch
  <2>. QED  BY <1>6, <1>11, <1>14, <2>1 DEF OpenIds
<1>16. \A x \in DOMAIN v : v[x] = l[x]
  BY <1>12
<1>17. \A x \in DOMAIN resting' : v[x] = VolumeOf(x)'
  <2>1. v[id] = VolumeOf(id)'
    BY <1>5, <1>10, <1>11, <1>13, <1>16 DEF OpenIds
  <2>2. \A x \in DOMAIN resting : v[x] = VolumeOf(x)'
    BY <1>6, <1>10, <1>13, <1>16 DEF OpenIds
  <2>. QED  BY <1>6, <2>1, <2>2
<1>18. \A k \in DOMAIN stops : v[stops[k].id] = stops[k].qty
  <2>1. \A k \in DOMAIN stops : stops[k].id \in DOMAIN v
    BY <1>13 DEF OpenIds, StopIds
  <2>. QED  BY <1>10, <1>16, <2>1
<1>19. Tells(v)'
  BY <1>12, <1>13, <1>14, <1>15, <1>17, <1>18 DEF Tells
<1>. QED  BY <1>9, <1>14, <1>15, <1>19, StillTells

----------------------------------------------------------------------------
(* Every step *)

\* The client books the events of the call when it has them.
LEMMA DeliveredTold ==
    ASSUME LedgerInv, Deliver, ledger' = BookAll(out, command, ledger)
    PROVE  LedgerInv'
<1>1. /\ phase = "done"
      /\ phase' = "idle"
      /\ out' = <<>>
      /\ UNCHANGED <<bookVars, stops>>
  BY DEF Deliver
<1>2. Told' = Told
  <2>1. Told' = BookAll(<<>>, command', Told)
    BY <1>1 DEF Told
  <2>. QED  BY <2>1, NothingBooked
<1>3. /\ DOMAIN resting' = DOMAIN resting
      /\ \A id : VolumeOf(id)' = VolumeOf(id)
  BY <1>1, BookUnmoved
<1>4. /\ OpenIds' = OpenIds
      /\ GoneIds' = {}
      /\ GoneIds = {}
  BY <1>1, <1>3 DEF OpenIds, GoneIds, LiveIds, StopIds
<1>5. PICK v : v = Told
  OBVIOUS
<1>6. Tells(v)
  BY <1>5 DEF LedgerInv
<1>7. Tells(v)'
  BY <1>1, <1>3, <1>4, <1>6 DEF Tells
<1>8. Tells(Told)'
  BY <1>2, <1>5, <1>7 DEF Tells
<1>. QED  BY <1>1, <1>4, <1>8 DEF LedgerInv

LEMMA LedgerStuttered ==
    ASSUME LedgerInv, UNCHANGED ledgerVars
    PROVE  LedgerInv'
BY DEF LedgerInv, ledgerVars, vars, bookVars, engineVars, Told, Tells,
       OpenIds, GoneIds, LiveIds, StopIds, VolumeOf, Hidden

LEMMA LedgerKept ==
    Inv /\ VolumeInv /\ LedgerInv /\ [LedgerNext]_ledgerVars => LedgerInv'
<1>1. Inv /\ [Next]_vars => Inv'
  BY NextKeeps DEF StepKeeps
<1>. SUFFICES ASSUME Inv, VolumeInv, LedgerInv, LedgerNext
              PROVE  LedgerInv'
  BY LedgerStuttered
<1>2. CASE Deliver /\ ledger' = BookAll(out, command, ledger)
  BY <1>2, DeliveredTold
<1>3. CASE phase # "done" /\ Next /\ UNCHANGED ledger
  <2>1. Inv' /\ ledger' = ledger
    BY <1>1, <1>3
  <2>2. KnownIds \subseteq Nat
    BY DEF KnownIds, Inv, CallTypeOK
  <2>3. ASSUME NEW order \in NewOrders, SubmitNew(order)
        PROVE  LedgerInv'
    <3>1. CASE RejectCommand(New(order)) \/ RefuseOrder(order)
      BY <2>1, <3>1, CommandsTyped, EntryRefusalsTold
    <3>2. CASE ParkStop(order)
      BY <2>1, <3>2, ParkedTold
    <3>3. CASE AcceptOrder(order)
      BY <2>1, <3>3, AcceptedTold
    <3>. QED  BY <2>3, <3>1, <3>2, <3>3 DEF SubmitNew
  <2>4. ASSUME NEW id \in KnownIds, SubmitCancel(id)
        PROVE  LedgerInv'
    <3>1. CASE CancelInBook(id)
      BY <2>1, <2>2, <3>1, CanceledInBookTold
    <3>2. CASE CancelStop(id)
      BY <2>1, <2>2, <3>2, CanceledStopTold
    <3>3. CASE CancelUnknown(id)
      BY <2>1, <2>2, <3>3, EntryRefusalsTold
    <3>. QED  BY <2>4, <3>1, <3>2, <3>3 DEF SubmitCancel
  <2>5. ASSUME NEW id \in KnownIds, NEW a \in Amendments, SubmitModify(id, a)
        PROVE  LedgerInv'
    <3>1. CASE RejectCommand(Modify(id, a)) \/ ModifyUnknown(id, a)
      BY <2>1, <2>2, <3>1, CommandsTyped, EntryRefusalsTold
    <3>2. CASE ModifyInPlace(id, a)
      BY <2>1, <2>2, <3>2, ReducedTold
    <3>3. CASE ModifyReplace(id, a)
      BY <2>1, <2>2, <3>3, ReplacedTold
    <3>. QED  BY <2>5, <3>1, <3>2, <3>3 DEF SubmitModify
  <2>6. ASSUME phase = "match", MatchStep
        PROVE  LedgerInv'
    <3>1. PICK price \in DOMAIN levels[MakerSide] :
             \/ TradeWithHead(price)
             \/ CancelMaker(price)
             \/ CancelTaker(price)
             \/ CancelBoth(price)
      BY <2>6 DEF MatchStep
    <3>2. CASE TradeWithHead(price)
      BY <2>1, <2>6, <3>2, TradedTold
    <3>3. CASE CancelMaker(price)
      BY <2>1, <2>6, <3>3, CanceledMakerTold
    <3>4. CASE CancelTaker(price) \/ CancelBoth(price)
      BY <2>1, <2>6, <3>4, FinishedTold
    <3>. QED  BY <3>1, <3>2, <3>3, <3>4
  <2>7. ASSUME phase = "match", FinishStep
        PROVE  LedgerInv'
    <3>1. CASE RestRemainder
      BY <2>1, <3>1, RestedTold
    <3>2. CASE FinishFilled \/ CancelRemainder
      BY <2>1, <2>7, <3>2, FinishedTold
    <3>. QED  BY <2>7, <3>1, <3>2 DEF FinishStep
  <2>8. ASSUME StopStep
        PROVE  LedgerInv'
    <3>1. PICK i \in DOMAIN stops : ActivateStop(i) \/ RefuseStop(i)
      BY <2>8 DEF StopStep
    <3>. QED  BY <2>1, <3>1, ActivatedTold, RefusedStopTold
  <2>9. ASSUME StopsSettled
        PROVE  LedgerInv'
    <3>1. /\ UNCHANGED <<bookVars, stops, command, out>>
          /\ phase = "stops"
          /\ phase' = "done"
      BY <2>9 DEF StopsSettled
    <3>2. Told' = Told /\ LiveIds \cup GoneIds = {}
      BY <2>1, <3>1 DEF Told, LiveIds, GoneIds
    <3>. QED  BY <3>1, <3>2, NothingTold
  <2>10. ~Deliver
    BY <1>3 DEF Deliver
  <2>. QED  BY <1>3, <2>3, <2>4, <2>5, <2>6, <2>7, <2>8, <2>9, <2>10
               DEF Next, Run
<1>. QED  BY <1>2, <1>3 DEF LedgerNext

LEMMA LedgerInitInv == LedgerInit => LedgerInv
<1>. SUFFICES ASSUME LedgerInit
              PROVE  LedgerInv
  OBVIOUS
<1>1. /\ out = <<>>
      /\ ledger = <<>>
      /\ stops = <<>>
      /\ phase = "idle"
      /\ resting = <<>>
  BY DEF LedgerInit, Init, BookInit
<1>2. Told = <<>>
  <2>1. Told = BookAll(<<>>, command, <<>>)
    BY <1>1 DEF Told
  <2>. QED  BY <2>1, NothingBooked
<1>3. OpenIds = {} /\ GoneIds = {}
  BY <1>1 DEF OpenIds, GoneIds, LiveIds, StopIds
<1>4. IsFcn(<<>>) /\ DOMAIN <<>> = {}
  BY DEF IsFcn
<1>5. Tells(Told)
  BY <1>1, <1>2, <1>3, <1>4 DEF Tells
<1>. QED  BY <1>1, <1>3, <1>5 DEF LedgerInv

\* Between calls there is nothing left to tell.
LEMMA LedgerReads == Inv /\ LedgerInv => LedgerMatchesBook
<1>. SUFFICES ASSUME Inv, LedgerInv, phase = "idle"
              PROVE  ledger = [id \in DOMAIN resting \cup StopIds |->
                                  IF id \in DOMAIN resting
                                  THEN resting[id].qty + Hidden(id)
                                  ELSE StopQty(id)]
  BY DEF LedgerMatchesBook
<1>1. /\ ledger = Told
      /\ OpenIds = DOMAIN resting \cup StopIds
      /\ GoneIds = {}
  BY IdleFacts
<1>2. /\ IsFcn(ledger)
      /\ DOMAIN ledger = DOMAIN resting \cup StopIds
      /\ \A id \in DOMAIN resting : ledger[id] = VolumeOf(id)
      /\ \A i \in DOMAIN stops : ledger[stops[i].id] = stops[i].qty
  BY <1>1 DEF LedgerInv, Tells
<1>3. ASSUME NEW id \in StopIds
      PROVE  ledger[id] = StopQty(id)
  <2>1. PICK i \in DOMAIN stops : stops[i].id = id
    BY DEF StopIds
  <2>2. \A j \in DOMAIN stops : stops[j].id = id => j = i
    BY <2>1 DEF Inv, OneHome
  <2>3. StopQty(id) = stops[i].qty
    BY <2>1, <2>2 DEF StopQty
  <2>. QED  BY <1>2, <2>1, <2>3
<1>4. \A id \in DOMAIN ledger :
          ledger[id] = IF id \in DOMAIN resting
                       THEN resting[id].qty + Hidden(id) ELSE StopQty(id)
  BY <1>2, <1>3 DEF VolumeOf
<1>. QED  BY <1>2, <1>4 DEF IsFcn

\* A client that books the events of every call, and nothing else, knows what
\* every order and every dormant stop has left, hidden volume included: the
\* events submit_into returns tell of every change and of no other.
THEOREM EventsTellAll == LedgerSpec => []LedgerMatchesBook
<1>1. LedgerInit => Inv /\ VolumeInv /\ LedgerInv
  BY InitInv, VolumeInit, LedgerInitInv DEF LedgerInit
<1>2. [LedgerNext]_ledgerVars => [Next]_vars
  BY DEF LedgerNext, ledgerVars, Next, Run
<1>3. Inv /\ VolumeInv /\ [Next]_vars => (Inv /\ VolumeInv)'
  BY NextKeeps, VolumesKept DEF StepKeeps
<1>. QED  BY <1>1, <1>2, <1>3, LedgerKept, LedgerReads, PTL DEF LedgerSpec
==============================================================================
