------------------------------ MODULE MarketData ------------------------------
(***************************************************************************)
(* The market data channels (marketdata.rs, l3feed.rs, tape.rs) beside the *)
(* engine: the incremental L2 feed, the incremental L3 feed with a         *)
(* consumer of its deltas, and the bounded trade tape.  The owner of the   *)
(* Clob hands each of them the events of a call, and the book as it is     *)
(* after the call.  A call is one command (submit) or several whose events *)
(* come back in one list (submit_batch).  The consumer takes a snapshot at *)
(* any time between calls and applies the updates that are numbered above  *)
(* it, while others are still on their way to it.                          *)
(*                                                                         *)
(* A level of a feed is a pair of side and price; a displayed order is a   *)
(* pair of id and quantity.                                                *)
(***************************************************************************)
EXTENDS EngineProperties

CONSTANTS
    TapeCap,    \* TradeTape::bounded(TapeCap)
    MaxBatch,   \* bound: commands in one call
    ChannelCap  \* bound: updates on their way to the consumer

ASSUME FeedAssumption == {TapeCap, MaxBatch, ChannelCap} \subseteq Nat

VARIABLES
    l2,         \* L2Feed: level -> displayed quantity
    order_loc,  \* L2Feed: order -> level
    l3,         \* L3Feed: level -> queue of displayed orders
    loc,        \* L3Feed: order -> level
    tape,       \* TradeTape: the last prints
    backlog,    \* the events of the call under way, of commands that are done
    channel,    \* L3 updates on their way
    mirror      \* the consumer: the number of its snapshot, and level -> queue

feedVars == <<l2, order_loc, l3, loc, tape, backlog, channel, mirror>>

Levels == UNION {{side} \X DOMAIN levels[side] : side \in Sides}
LevelOf(id) == <<resting[id].side, resting[id].price>>

\* OrderBook::level_qty and OrderBook::level_orders
LevelQty(level) ==
    IF level \in Levels THEN levels[level[1]][level[2]].total_qty ELSE 0
LevelOrders(level) ==
    IF level \in Levels
    THEN LET fifo == FifoOf(level[1], level[2])
         IN  [i \in DOMAIN fifo |-> <<fifo[i], resting[fifo[i]].qty>>]
    ELSE <<>>

Id(entry) == entry[1]
Ids(queue) == {Id(queue[i]) : i \in DOMAIN queue}

\* What a queue has of a set, in its order.
Only(queue, set) ==
    LET only[i \in 0..Len(queue)] ==
            IF i = 0 THEN <<>>
            ELSE IF queue[i] \in set THEN Append(only[i - 1], queue[i])
            ELSE only[i - 1]
    IN  only[Len(queue)]

----------------------------------------------------------------------------
(* The L2 feed: which levels a command touched follows from its events,     *)
(* their quantity from the book.                                            *)

\* Mutant of OldLevel: the level an amended order leaves is not touched.
OldLevel_Forgotten(locs, id) == {}

\* Where the feed has an order that events name by its id only.
OldLevel(locs, id) == IF id \in DOMAIN locs THEN {locs[id]} ELSE {}

L2Event(seen, event) ==
    CASE event.type = "Trade" ->
           [touched |-> seen.touched
                          \cup {<<Opposite(event.taker_side), event.price>>},
            loc |-> IF event.maker_order_id \in DOMAIN resting THEN seen.loc
                    ELSE Drop(seen.loc, event.maker_order_id)]
      [] event.type = "Resting" /\ event.order_id \in DOMAIN resting ->
           LET level == <<resting[event.order_id].side, event.price>>
           IN  [touched |-> seen.touched \cup {level},
                loc |-> Put(seen.loc, event.order_id, level)]
      [] event.type = "Modified" ->
           [seen EXCEPT !.touched = @ \cup OldLevel(seen.loc, event.order_id)]
      [] event.type \in {"Canceled", "Filled"} ->
           [touched |-> seen.touched \cup OldLevel(seen.loc, event.order_id),
            loc |-> Drop(seen.loc, event.order_id)]
      [] OTHER -> seen

L2Diff(touched) ==
    LET qty(level) == IF level \in touched THEN LevelQty(level) ELSE l2[level]
    IN  [level \in {k \in DOMAIN l2 \cup touched : qty(k) # 0} |-> qty(level)]

\* One event after the other.
L2Seen(events) ==
    LET seen[i \in 0..Len(events)] ==
            IF i = 0 THEN [touched |-> {}, loc |-> order_loc]
            ELSE L2Event(seen[i - 1], events[i])
    IN  seen[Len(events)]

ApplyL2(events) ==
    LET seen == L2Seen(events)
    IN  /\ l2' = L2Diff(seen.touched)
        /\ order_loc' = seen.loc

----------------------------------------------------------------------------
(* The L3 feed: touched levels as above, but found with the locations from  *)
(* before the command; then one level after the other, bids before asks and *)
(* best price first, is compared with the book.                             *)

L3Touched(event) ==
    CASE event.type = "Trade" -> {<<Opposite(event.taker_side), event.price>>}
      [] event.type = "Resting" /\ event.order_id \in DOMAIN resting ->
           {<<resting[event.order_id].side, event.price>>}
      [] event.type \in {"Modified", "Canceled", "Filled"} ->
           OldLevel(loc, event.order_id)
      [] OTHER -> {}

\* The order diff_level visits levels in.
DiffedBefore(k, l) ==
    \/ k[1] = "Buy" /\ l[1] = "Sell"
    \/ k[1] = l[1] /\ Better(k[1], k[2], l[2])

\* Mutant of Kept: the order of those that stayed is not looked at.
Kept_AnyOrder(old, new) ==
    Max({k \in 0..Len(new) : \A i \in 1..k : Id(new[i]) \in Ids(old)})

\* How many orders at the head of the new queue kept their relative order.
Kept(old, new) ==
    LET place(id) == CHOOSE i \in DOMAIN old : Id(old[i]) = id
    IN  Max({k \in 0..Len(new) :
                /\ \A i \in 1..k : Id(new[i]) \in Ids(old)
                /\ \A i, j \in 1..k :
                      i < j => place(Id(new[i])) < place(Id(new[j]))})

\* Mutant of Relocated: an order that left is not forgotten.
Relocated_KeepsGone(locs, gone, come, level) ==
    [id \in DOMAIN locs \cup come |-> IF id \in come THEN level ELSE locs[id]]

Relocated(locs, gone, come, level) ==
    [id \in (DOMAIN locs \ gone) \cup come |->
        IF id \in come THEN level ELSE locs[id]]

DiffLevel(feed, level) ==
    LET old  == IF level \in DOMAIN feed.l3 THEN feed.l3[level] ELSE <<>>
        new  == LevelOrders(level)
        keep == SubSeq(new, 1, Kept(old, new))
        come == SubSeq(new, Kept(old, new) + 1, Len(new))
        gone == Only(old, {entry \in ToSet(old) : Id(entry) \notin Ids(keep)})
    IN  [todo |-> feed.todo \ {level},
         l3 |-> IF new = <<>> THEN Drop(feed.l3, level)
                ELSE Put(feed.l3, level, new),
         loc |-> Relocated(feed.loc, Ids(gone), Ids(come), level),
         removed |-> feed.removed \o gone,
         reduced |-> feed.reduced \o Only(keep, ToSet(keep) \ ToSet(old)),
         added |-> feed.added \o
            [i \in DOMAIN come |-> [level |-> level, entry |-> come[i]]]]

\* The level diff_level is called for next.
NextLevel(todo) ==
    CHOOSE level \in todo : \A k \in todo \ {level} : DiffedBefore(level, k)

\* All levels that were touched, one after the other.
L3Diffed(touched) ==
    LET diffed[n \in 0..Cardinality(touched)] ==
            IF n = 0 THEN [todo |-> touched, l3 |-> l3, loc |-> loc,
                           removed |-> <<>>, reduced |-> <<>>, added |-> <<>>]
            ELSE LET feed == diffed[n - 1]
                 IN  DiffLevel(feed, NextLevel(feed.todo))
    IN  diffed[Cardinality(touched)]

\* The number the updates of a call are tagged with: of its first command.
CommandSeq(events) == Head(events).seq

ApplyL3(events) ==
    LET feed == L3Diffed(UNION {L3Touched(events[i]) : i \in DOMAIN events})
    IN  /\ l3' = feed.l3
        /\ loc' = feed.loc
        /\ channel' = Append(channel,
                [seq |-> CommandSeq(events), removed |-> feed.removed,
                 reduced |-> feed.reduced, added |-> feed.added])

----------------------------------------------------------------------------
(* The trade tape *)

\* Mutant of Record: a full tape drops the new print.
Record_DropsNewest(prints, print) ==
    IF Len(prints) < TapeCap THEN Append(prints, print) ELSE prints

\* A full tape drops its oldest print.
Record(prints, print) ==
    IF Len(prints) < TapeCap THEN Append(prints, print)
    ELSE Tail(Append(prints, print))

\* A print has no ids of orders.
PrintOf(trade) ==
    [seq |-> trade.seq, price |-> trade.price, qty |-> trade.qty,
     taker_side |-> trade.taker_side]

ApplyTape(events) ==
    LET taped[i \in 0..Len(events)] ==
            IF i = 0 THEN tape
            ELSE IF events[i].type = "Trade"
            THEN Record(taped[i - 1], PrintOf(events[i]))
            ELSE taped[i - 1]
    IN  tape' = taped[Len(events)]

----------------------------------------------------------------------------
(* The consumer of the L3 feed *)

\* The consumer: orders leave the queues they are in, change their quantity
\* there, or enter at the tail of a level.
Removed(queues, entries) ==
    LET left(level) ==
            Only(queues[level],
                 {e \in ToSet(queues[level]) : Id(e) \notin Ids(entries)})
    IN  [level \in {k \in DOMAIN queues : left(k) # <<>>} |-> left(level)]

Reduced(queues, entries) ==
    LET now(entry) == IF Id(entry) \notin Ids(entries) THEN entry
                      ELSE CHOOSE e \in ToSet(entries) : Id(e) = Id(entry)
    IN  [level \in DOMAIN queues |->
            [i \in DOMAIN queues[level] |-> now(queues[level][i])]]

Added(queues, adds) ==
    LET at(level) == Only(adds, {a \in ToSet(adds) : a.level = level})
        old(level) == IF level \in DOMAIN queues THEN queues[level] ELSE <<>>
    IN  [level \in DOMAIN queues \cup {adds[i].level : i \in DOMAIN adds} |->
            old(level) \o [i \in DOMAIN at(level) |-> at(level)[i].entry]]

\* The deltas of an update: removals, reductions, additions.
Updated(queues, update) ==
    Added(Reduced(Removed(queues, update.removed), update.reduced),
          update.added)

\* L3Feed::from_book has the queues of the L3 snapshot.
L3FromBook == [level \in Levels |-> LevelOrders(level)]

\* Mutant of L3Snapshot: tagged with the number of the next command.
L3Snapshot_Ahead == [seq |-> seq + 1, queues |-> L3FromBook]

L3Snapshot == [seq |-> seq, queues |-> L3FromBook]

----------------------------------------------------------------------------
FeedInit ==
    /\ Init
    /\ l2 = <<>>
    /\ order_loc = <<>>
    /\ l3 = <<>>
    /\ loc = <<>>
    /\ tape = <<>>
    /\ backlog = <<>>
    /\ channel = <<>>
    /\ mirror = None

\* A command of submit_batch that is not its last is done.
NextOfBatch ==
    /\ Deliver
    /\ backlog' = backlog \o out
    /\ seq < MaxCommands
    /\ seq - CommandSeq(backlog') + 1 < MaxBatch
    /\ UNCHANGED <<l2, order_loc, l3, loc, tape, channel, mirror>>

\* The call returns, and the owner brings the feeds up to date.
Publish ==
    /\ Deliver
    /\ Len(channel) < ChannelCap
    /\ ApplyL2(backlog \o out)
    /\ ApplyL3(backlog \o out)
    /\ ApplyTape(backlog \o out)
    /\ backlog' = <<>>
    /\ UNCHANGED mirror

BetweenCalls == phase = "idle" /\ backlog = <<>>

Join ==
    /\ BetweenCalls
    /\ mirror = None
    /\ mirror' = L3Snapshot
    /\ UNCHANGED <<vars, l2, order_loc, l3, loc, tape, backlog, channel>>

\* The oldest update arrives; one the snapshot has already is skipped.  What
\* arrives during a call might as well have arrived before it.
Receive ==
    /\ BetweenCalls
    /\ channel # <<>>
    /\ channel' = Tail(channel)
    /\ mirror' = IF mirror = None \/ Head(channel).seq <= mirror.seq THEN mirror
                 ELSE [mirror EXCEPT !.queues = Updated(@, Head(channel))]
    /\ UNCHANGED <<vars, l2, order_loc, l3, loc, tape, backlog>>

FeedNext ==
    \/ phase # "done" /\ Next /\ UNCHANGED feedVars
    \/ NextOfBatch
    \/ Publish
    \/ Join
    \/ Receive

FeedSpec == FeedInit /\ [][FeedNext]_<<vars, feedVars>>

----------------------------------------------------------------------------
\* L2Feed::from_book: the book added up order by order
L2FromBook ==
    [level \in Levels |->
        SumFunctionOnSet(Shown, {id \in DOMAIN resting : LevelOf(id) = level})]
LocFromBook == [id \in DOMAIN resting |-> LevelOf(id)]

\* Between calls the L2 feed is the one a restart would seed from the book:
\* every level a command changed was found from the events, silent refills and
\* amended orders included, also when later commands of a batch have changed
\* the book again, and no order is remembered at a level it has left.
L2InSync ==
    BetweenCalls => l2 = L2FromBook /\ order_loc = LocFromBook

\* A consumer that joined at any time, with the updates of earlier calls still
\* on their way, has every queue of the book when all has arrived, with every
\* order at its place: no update is applied to a snapshot that has it, none is
\* missed.
L3InSync ==
    BetweenCalls /\ mirror # None /\ channel = <<>>
        => mirror.queues = L3FromBook

\* The feed knows for every order the level the book has it at.
L3KnowsOrders == BetweenCalls => loc = LocFromBook

\* The newest print of the tape is the trade the stops are triggered by,
\* and the tape keeps its bound.
TapeEndsAtLastTrade ==
    /\ Len(tape) <= TapeCap
    /\ BetweenCalls /\ TapeCap > 0 =>
          /\ (tape = <<>>) = (last_trade_price = None)
          /\ tape # <<>> => Last(tape).price = last_trade_price
==============================================================================
