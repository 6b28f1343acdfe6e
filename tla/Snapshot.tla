------------------------------ MODULE Snapshot ------------------------------
(***************************************************************************)
(* A restart of the engine from a snapshot (snapshot.rs, Clob::capture and *)
(* Clob::from_snapshot): between two commands the state is captured, the   *)
(* engine is made anew, and what was captured is put back order by order.  *)
(* Level aggregates, queues and open volume are not in the snapshot; they  *)
(* come out of re-inserting the orders.  The file is renamed into place:   *)
(* it is read with the bytes it was written with; what they say is         *)
(* SnapshotFile's.                                                         *)
(***************************************************************************)
EXTENDS EngineProperties, SnapshotFile

VARIABLES
    saved,      \* the SnapshotState that is being put back, or None
    restored,   \* how many of its orders are in the book again
    before      \* the engine the snapshot was taken of, or None

snapVars == <<saved, restored, before>>

\* What commands depend on: the engine between two calls.
EngineState ==
    [levels |-> levels, resting |-> resting, reserves |-> reserves,
     accounts |-> accounts, seq |-> seq, next_order_id |-> next_order_id,
     stops |-> stops, last_trade_price |-> last_trade_price]

----------------------------------------------------------------------------
\* Mutant of Queue: the orders of a level are taken by id.
Queue_ById(side, price) ==
    SetToSortSeq(ToSet(FifoOf(side, price)), LAMBDA i, j : i < j)

\* The orders of a level in the order its list is walked in.
Queue(side, price) == FifoOf(side, price)

SideOrders(side) ==
    LET prices == SetToSortSeq(DOMAIN levels[side], LAMBDA p, q : p < q)
    IN  FlattenSeq([i \in DOMAIN prices |-> Queue(side, prices[i])])

ReserveOf(id) ==
    IF id \in DOMAIN reserves THEN reserves[id] ELSE None

\* Bids before asks, each side by ascending price, each level as queued.
RestingOrders ==
    LET ids == SideOrders("Buy") \o SideOrders("Sell")
    IN  [i \in DOMAIN ids |->
            [id |-> ids[i], order |-> resting[ids[i]],
             reserve |-> ReserveOf(ids[i])]]

\* Accounts that have a position.
AccountNets == {owner \in Accounts : Net(owner) # 0}

Capture ==
    [seq |-> seq, next_order_id |-> next_order_id,
     last_trade_price |-> last_trade_price, orders |-> RestingOrders,
     stops |-> stops, account_net |-> [owner \in AccountNets |-> Net(owner)]]

\* The process ends with a snapshot of its state; a new one starts empty with
\* what it reads from the file, or is refused.
Restart ==
    /\ phase = "idle"
    /\ LET read == DecodeState(EncodeState(Capture))
       IN  /\ saved' = read.state
           /\ phase' = IF read.err = NoError THEN "restore" ELSE "refused"
    /\ restored' = 0
    /\ before' = EngineState
    /\ levels' = [side \in Sides |-> <<>>]
    /\ resting' = <<>>
    /\ reserves' = <<>>
    /\ accounts' = [owner \in Accounts |-> NoAccount]
    /\ stops' = <<>>
    /\ last_trade_price' = None
    /\ seq' = 0
    /\ next_order_id' = 1
    /\ UNCHANGED <<command, live, out>>

RestoreOrder ==
    /\ phase = "restore"
    /\ restored < Len(saved.orders)
    /\ LET entry == saved.orders[restored + 1]
           reserve == IF entry.reserve # None THEN entry.reserve
                      ELSE [display |-> 0, hidden |-> 0]
       IN  Insert(entry.id, entry.order, reserve.display, reserve.hidden)
    /\ restored' = restored + 1
    /\ UNCHANGED <<engineVars, saved, before>>

RestoreRest ==
    /\ phase = "restore"
    /\ restored = Len(saved.orders)
    /\ accounts' = [owner \in Accounts |->
                       IF owner \in DOMAIN saved.account_net
                       THEN [accounts[owner] EXCEPT
                                !.net = saved.account_net[owner]]
                       ELSE accounts[owner]]
    /\ stops' = saved.stops
    /\ last_trade_price' = saved.last_trade_price
    /\ seq' = saved.seq
    /\ next_order_id' = saved.next_order_id
    /\ phase' = "idle"
    /\ saved' = None
    /\ restored' = 0
    /\ before' = None
    /\ UNCHANGED <<levels, resting, reserves, command, live, out>>

----------------------------------------------------------------------------
SnapshotInit == Init /\ saved = None /\ restored = 0 /\ before = None

SnapshotNext ==
    \/ phase \notin {"restore", "refused"} /\ Next /\ UNCHANGED snapVars
    \/ Restart
    \/ RestoreOrder
    \/ RestoreRest

SnapshotSpec == SnapshotInit /\ [][SnapshotNext]_<<vars, snapVars>>

----------------------------------------------------------------------------
\* The engine a restart comes up with is the one the snapshot was taken of:
\* the queues in their order after refills and amendments, the aggregates,
\* hidden parts, open volumes and positions of either sign, the stops in their
\* order; and no snapshot is refused.
RestoresExactlyStep ==
    /\ phase' # "refused"
    /\ phase = "restore" /\ phase' = "idle" => EngineState' = before

RestoresExactly == [][RestoresExactlyStep]_<<vars, snapVars>>
==============================================================================
