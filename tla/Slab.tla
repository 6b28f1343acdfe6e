-------------------------------- MODULE Slab --------------------------------
(***************************************************************************)
(* The slab of nodes and the linked lists of the price levels (slab.rs),   *)
(* under the only calls the book makes of them (book/mod.rs,               *)
(* book/matching.rs).  OrderBook has the queues as sequences and the index *)
(* and slab as one map; this module shows that the lists are those         *)
(* sequences, with slots that are handed out again while the links of      *)
(* their last use are still in them.                                       *)
(*                                                                         *)
(* A level is in ends exactly while the code keeps a PriceLevel.  Slots    *)
(* count from 1.  Of the order in a node only its id matters here.         *)
(***************************************************************************)
EXTENDS Integers, SequencesExt

CONSTANTS
    None,       \* the absent value of an Option
    Prices,     \* the levels
    MaxOrders   \* bound: orders in a behaviour

ASSUME SlabAssumption == MaxOrders \in Nat /\ None \notin Nat

VARIABLES
    nodes,      \* Slab.nodes
    free,       \* Slab.free
    ends,       \* level -> head and tail
    index,      \* order id -> level and slot
    entered     \* orders so far

vars == <<nodes, free, ends, index, entered>>

Init ==
    /\ nodes = <<>>
    /\ free = <<>>
    /\ ends = <<>>
    /\ index = <<>>
    /\ entered = 0

----------------------------------------------------------------------------
(* The slab: slots are handed out again last in, first out. *)

Alloc(slab, id) ==
    LET node == [id |-> id, prev |-> None, next |-> None]
    IN  IF slab.free = <<>>
        THEN [nodes |-> Append(slab.nodes, node), free |-> <<>>,
              slot |-> Len(slab.nodes) + 1]
        ELSE [nodes |-> [slab.nodes EXCEPT ![Last(slab.free)] = node],
              free |-> Front(slab.free), slot |-> Last(slab.free)]

Dealloc(slots, slot) == Append(slots, slot)

----------------------------------------------------------------------------
(* The lists: ns are the nodes, level has head and tail. *)

\* Mutant of LinkBack: the links of the slot's last place stay.
LinkBack_StaleNext(ns, level, slot) ==
    LET linked == [ns EXCEPT ![slot].prev = level.tail]
    IN  [nodes |-> IF level.tail = None THEN linked
                   ELSE [linked EXCEPT ![level.tail].next = slot],
         level |-> [head |-> IF level.tail = None THEN slot ELSE level.head,
                    tail |-> slot]]

LinkBack(ns, level, slot) ==
    LET linked == [ns EXCEPT ![slot].prev = level.tail, ![slot].next = None]
    IN  [nodes |-> IF level.tail = None THEN linked
                   ELSE [linked EXCEPT ![level.tail].next = slot],
         level |-> [head |-> IF level.tail = None THEN slot ELSE level.head,
                    tail |-> slot]]

\* Mutant of Unlink: the tail is not moved back.
Unlink_KeepsTail(ns, level, slot) ==
    LET prev == ns[slot].prev
        next == ns[slot].next
        ahead == IF prev = None THEN ns ELSE [ns EXCEPT ![prev].next = next]
    IN  [nodes |-> IF next = None THEN ahead
                   ELSE [ahead EXCEPT ![next].prev = prev],
         level |-> [head |-> IF prev = None THEN next ELSE level.head,
                    tail |-> level.tail]]

Unlink(ns, level, slot) ==
    LET prev == ns[slot].prev
        next == ns[slot].next
        ahead == IF prev = None THEN ns ELSE [ns EXCEPT ![prev].next = next]
    IN  [nodes |-> IF next = None THEN ahead
                   ELSE [ahead EXCEPT ![next].prev = prev],
         level |-> [head |-> IF prev = None THEN next ELSE level.head,
                    tail |-> IF next = None THEN prev ELSE level.tail]]

----------------------------------------------------------------------------
(* The calls *)

Put(map, key, value) ==
    [k \in DOMAIN map \cup {key} |-> IF k = key THEN value ELSE map[k]]

EmptyLevel == [head |-> None, tail |-> None]
LevelAt(price) == IF price \in DOMAIN ends THEN ends[price] ELSE EmptyLevel

\* OrderBook::insert
Enter(price) ==
    LET id    == entered + 1
        slab  == Alloc([nodes |-> nodes, free |-> free], id)
        list  == LinkBack(slab.nodes, LevelAt(price), slab.slot)
    IN  /\ entered < MaxOrders
        /\ entered' = id
        /\ nodes' = list.nodes
        /\ free' = slab.free
        /\ ends' = Put(ends, price, list.level)
        /\ index' = Put(index, id, [price |-> price, slot |-> slab.slot])

\* Mutant of Leaves: the order stays in the index.
Leaves_Kept(id) == index

Leaves(id) == Restrict(index, DOMAIN index \ {id})

\* OrderBook::cancel, detach, and a fill that leaves nothing
Leave(id) ==
    LET at   == index[id]
        list == Unlink(nodes, ends[at.price], at.slot)
    IN  /\ nodes' = list.nodes
        /\ free' = Dealloc(free, at.slot)
        /\ ends' = IF list.level.head = None
                   THEN Restrict(ends, DOMAIN ends \ {at.price})
                   ELSE [ends EXCEPT ![at.price] = list.level]
        /\ index' = Leaves(id)
        /\ UNCHANGED entered

\* A fill that makes the head of a level show its next peak
Refill(price) ==
    LET slot   == ends[price].head
        left   == Unlink(nodes, ends[price], slot)
        joined == LinkBack(left.nodes, left.level, slot)
    IN  /\ nodes' = joined.nodes
        /\ ends' = [ends EXCEPT ![price] = joined.level]
        /\ UNCHANGED <<free, index, entered>>

Next ==
    \/ \E price \in Prices : Enter(price)
    \/ \E id \in DOMAIN index : Leave(id)
    \/ \E price \in DOMAIN ends : Refill(price)

Spec == Init /\ [][Next]_vars

----------------------------------------------------------------------------
\* The slots of a level, followed from its head; a cycle would show as a list
\* longer than the slab.
After(slot) == IF slot = None THEN None ELSE nodes[slot].next

Slots(price) ==
    LET walk[i \in 1..(Len(nodes) + 1)] ==
            IF i = 1 THEN LevelAt(price).head ELSE After(walk[i - 1])
        reached == {i \in 1..(Len(nodes) + 1) : walk[i] # None}
    IN  [i \in 1..Cardinality(reached) |-> walk[i]]

QueueOf(price) == [i \in DOMAIN Slots(price) |-> nodes[Slots(price)[i]].id]

\* The linked lists are the queues: nothing is lost, doubled or moved by
\* links left over in a slot, by a level made anew, or by the order of the
\* updates.
Queues == INSTANCE LevelQueues
             WITH queues <- [price \in Prices |-> QueueOf(price)]
ImplementsQueues == Queues!Spec

\* A level's list holds what the index has at that level, and the links back
\* are the links forward: an order can be unlinked from the middle.
LinksAgree ==
    \A price \in DOMAIN ends :
        LET slots == ToSet(Slots(price))
        IN  /\ nodes[ends[price].head].prev = None
            /\ nodes[ends[price].tail].next = None
            /\ \A s \in slots \ {ends[price].tail} :
                  nodes[nodes[s].next].prev = s
            /\ slots = {index[id].slot :
                            id \in {k \in DOMAIN index : index[k].price = price}}

\* Every slot is free once or holds one order of the index: none leaks, and
\* none is handed out while a list runs through it.
SlotsAccountedFor ==
    LET held == {index[id].slot : id \in DOMAIN index}
    IN  /\ IsInjective(free)
        /\ ToSet(free) \cap held = {}
        /\ ToSet(free) \cup held = DOMAIN nodes
        /\ \A id \in DOMAIN index : nodes[index[id].slot].id = id
==============================================================================
