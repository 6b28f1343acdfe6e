------------------------------- MODULE Gateway -------------------------------
(***************************************************************************)
(* Pre-trade validation (gateway.rs, risk.rs, Clob::risk_context): the     *)
(* structural checks every command passes, and the risk checks a limit of  *)
(* 0 (or a step of 0 or 1) switches off.  Each chain of IFs is a chain of  *)
(* early returns: the first check that fails names the reason.             *)
(***************************************************************************)
EXTENDS OrderBook

CONSTANTS TickSize, LotSize, BandTicks, PositionLimit

ASSUME RiskAssumption ==
    /\ TickSize \in Nat
    /\ LotSize \in Nat
    /\ BandTicks \in Nat
    /\ PositionLimit \in Nat

RiskActive ==
    TickSize > 1 \/ LotSize > 1 \/ BandTicks > 0 \/ PositionLimit > 0

TickOk(price) == TickSize <= 1 \/ price % TickSize = 0
LotOk(qty) == LotSize <= 1 \/ qty % LotSize = 0

\* The lower end saturates at 0; the ends are 128 bits wide and do not wrap.
BandOk(mid, price) ==
    \/ BandTicks = 0
    \/ mid = None
    \/ LET offset == BandTicks * (IF TickSize > 1 THEN TickSize ELSE 1)
       IN  mid - offset <= price /\ price <= mid + offset

\* Mutant of PositionOk: volume resting in the book is not counted.
PositionOk_NetOnly(net, open, side, qty) ==
    \/ PositionLimit = 0
    \/ (IF side = "Buy" THEN net ELSE -net) + qty <= PositionLimit

PositionOk(net, open, side, qty) ==
    \/ PositionLimit = 0
    \/ (IF side = "Buy" THEN net ELSE -net) + open + qty <= PositionLimit

----------------------------------------------------------------------------
\* Whom a command is charged to, and that account's exposure without it.
RiskContext(command) ==
    CASE command.op = "New" ->
           [mid |-> Mid, owner |-> command.order.owner,
            side |-> command.order.side,
            net |-> Net(command.order.owner),
            open |-> Open(command.order.owner, command.order.side)]
      [] command.op = "Modify" /\ command.order_id \in DOMAIN resting ->
           LET current == resting[command.order_id]
               own     == current.qty + Hidden(command.order_id)
               open    == Open(current.owner, current.side)
           IN  [mid |-> Mid, owner |-> current.owner, side |-> current.side,
                net |-> Net(current.owner),
                open |-> IF open > own THEN open - own ELSE 0]
      [] OTHER ->
           [mid |-> None, owner |-> Anonymous, side |-> "Buy",
            net |-> 0, open |-> 0]

OrderPrices(order) ==
    CASE order.type \in {"Limit", "Iceberg"} -> {order.price}
      [] order.type = "Market" -> {}
      [] order.type = "Stop" -> {order.trigger}
      [] order.type = "StopLimit" -> {order.trigger, order.price}

CorridorPrices(order) ==
    IF order.type \in {"Limit", "Iceberg"} THEN {order.price} ELSE {}

StructuralNew(order) ==
    IF order.qty = 0 THEN "ZeroQuantity"
    ELSE IF \/ order.type \in {"Limit", "StopLimit", "Iceberg"}
                 /\ order.price = 0
            \/ order.type \in {"Stop", "StopLimit"} /\ order.trigger = 0
         THEN "InvalidPrice"
    ELSE IF order.type = "Iceberg" /\ order.display = 0 THEN "ZeroQuantity"
    ELSE Ok

StructuralModify(modify) ==
    IF modify.qty = 0 THEN "ZeroQuantity"
    ELSE IF modify.price = 0 THEN "InvalidPrice"
    ELSE Ok

Structural(command) ==
    CASE command.op = "New" -> StructuralNew(command.order)
      [] command.op = "Cancel" -> Ok
      [] command.op = "Modify" -> StructuralModify(command)

\* Mutant of LotChecked: the peak of an iceberg is not checked.
LotChecked_QtyOnly(order) == {order.qty}

\* The quantities of an order that must be whole lots.
LotChecked(order) ==
    IF order.type = "Iceberg" THEN {order.qty, order.display} ELSE {order.qty}

RiskNew(order, ctx) ==
    IF \E qty \in LotChecked(order) : ~LotOk(qty) THEN "LotSize"
    ELSE IF \E price \in OrderPrices(order) : ~TickOk(price) THEN "TickSize"
    ELSE IF \E price \in CorridorPrices(order) : ~BandOk(ctx.mid, price)
         THEN "PriceBand"
    ELSE IF /\ order.owner # Anonymous
            /\ ~PositionOk(ctx.net, ctx.open, order.side, order.qty)
         THEN "PositionLimit"
    ELSE Ok

RiskModify(modify, ctx) ==
    IF ~LotOk(modify.qty) THEN "LotSize"
    ELSE IF ~TickOk(modify.price) THEN "TickSize"
    ELSE IF ~BandOk(ctx.mid, modify.price) THEN "PriceBand"
    ELSE IF /\ ctx.owner # Anonymous
            /\ ~PositionOk(ctx.net, ctx.open, ctx.side, modify.qty)
         THEN "PositionLimit"
    ELSE Ok

RiskVerdict(command) ==
    CASE command.op = "New" -> RiskNew(command.order, RiskContext(command))
      [] command.op = "Cancel" -> Ok
      [] command.op = "Modify" -> RiskModify(command, RiskContext(command))

Validate(command) ==
    IF Structural(command) # Ok THEN Structural(command)
    ELSE IF RiskActive THEN RiskVerdict(command)
    ELSE Ok
==============================================================================
