----------------------------- MODULE EventLedger -----------------------------
(***************************************************************************)
(* A client that sees the commands and the events submit_into returns, and *)
(* nothing of the book, and keeps for every order how much of it is open.  *)
(* If its ledger always equals what the book and the dormant stops hold,   *)
(* the event stream is complete: no change of the book goes unpublished,   *)
(* no event reports a change that did not happen, and every quantity adds  *)
(* up.                                                                     *)
(***************************************************************************)
EXTENDS EngineProperties

VARIABLE ledger

ledgerVars == <<vars, ledger>>

Entry(l, id) == IF id \in DOMAIN l THEN l[id] ELSE 0
Debit(l, id, qty) == Put(l, id, Entry(l, id) - qty)
CloseIfFilled(l, id) == IF Entry(l, id) = 0 THEN Drop(l, id) ELSE l

\* A maker has no event of its own when it is filled; the taker has.
\* A rejection within a cascade names no order: it is the stop whose
\* activation is the event before it.
Book(events, request, l, i) ==
    LET event == events[i]
    IN  CASE event.type = "Accepted" ->
               Put(l, event.order_id, request.order.qty)
          [] event.type = "Modified" ->
               Put(l, event.order_id, request.qty)
          [] event.type = "Trade" ->
               CloseIfFilled(
                   Debit(Debit(l, event.taker_order_id, event.qty),
                         event.maker_order_id, event.qty),
                   event.maker_order_id)
          [] event.type = "Filled" -> CloseIfFilled(l, event.order_id)
          [] event.type = "Canceled" -> Drop(l, event.order_id)
          [] event.type = "Rejected" ->
               IF i > 1 /\ events[i - 1].type = "Triggered"
               THEN Drop(l, events[i - 1].order_id) ELSE l
          [] event.type \in {"Resting", "Triggered"} -> l

\* One event after the other, those of one command.
BookAll(events, request, l) ==
    LET booked[i \in 0..Len(events)] ==
            IF i = 0 THEN l ELSE Book(events, request, booked[i - 1], i)
    IN  booked[Len(events)]

LedgerInit == Init /\ ledger = <<>>

LedgerNext ==
    \/ phase # "done" /\ Next /\ UNCHANGED ledger
    \/ Deliver /\ ledger' = BookAll(out, command, ledger)

\* As in FairSpec: the thread in a call keeps running.
LedgerSpec ==
    LedgerInit /\ [][LedgerNext]_ledgerVars /\ WF_vars(Run)

StopQty(id) == stops[CHOOSE i \in DOMAIN stops : stops[i].id = id].qty

\* Between calls the client's ledger is the book, hidden volume included,
\* and the dormant stops.
LedgerMatchesBook ==
    phase = "idle" =>
        ledger = [id \in DOMAIN resting \cup StopIds |->
                     IF id \in DOMAIN resting
                     THEN resting[id].qty + Hidden(id)
                     ELSE StopQty(id)]

----------------------------------------------------------------------------
(* Fees                                                                     *)

TradesIn(events) == {i \in DOMAIN events : events[i].type = "Trade"}

TakerFees(events) == [i \in TradesIn(events) |-> events[i].taker_fee]
MakerFees(events) == [i \in TradesIn(events) |-> events[i].maker_fee]
Notionals(events) ==
    [i \in TradesIn(events) |-> events[i].price * events[i].qty]

\* fee is what a rate gives on a notional, rounded toward zero at most once
\* for each of the fills.
RoundedTowardZero(fee, rate_ppm, notional, fills) ==
    LET magnitude == IF fee < 0 THEN -fee ELSE fee
        exact == (IF rate_ppm < 0 THEN -rate_ppm ELSE rate_ppm) * notional
    IN  /\ fee * rate_ppm >= 0
        /\ magnitude * PpmScale <= exact
        /\ magnitude * PpmScale + fills * PpmScale > exact

\* However many makers, peaks and activated stops a call's volume is split
\* into, an order pays and earns no more than its rate on all of it, and
\* falls short by less than a unit a fill.  (FeeMax is out of reach.)
FeesAddUp ==
    phase = "done" =>
        \A id \in 1..(next_order_id - 1) :
            LET taken == {i \in TradesIn(out) : out[i].taker_order_id = id}
                made  == {i \in TradesIn(out) : out[i].maker_order_id = id}
            IN  /\ taken # {} =>
                       RoundedTowardZero(SumFunctionOnSet(TakerFees(out), taken),
                                         TakerPpm,
                                         SumFunctionOnSet(Notionals(out), taken),
                                         Cardinality(taken))
                /\ made # {} =>
                       RoundedTowardZero(SumFunctionOnSet(MakerFees(out), made),
                                         MakerPpm,
                                         SumFunctionOnSet(Notionals(out), made),
                                         Cardinality(made))

\* A venue whose rates do not add up to a loss pays for no trade: rounding
\* never makes a rebate larger than the fee it comes out of.  The one fee that
\* saturation makes larger than what pays for it is i64::MIN.
VenueNeverPays ==
    MakerPpm + TakerPpm >= 0 =>
        \A i \in TradesIn(out) :
            -FeeMax - 1 \notin {out[i].taker_fee, out[i].maker_fee}
              => out[i].taker_fee + out[i].maker_fee >= 0
==============================================================================
