----------------------------- MODULE SlabProofs -----------------------------
(***************************************************************************)
(* No slot of the slab leaks and none is handed out while an order is in   *)
(* it, for any number of orders, levels and refills.  The links never lead *)
(* out of the slab, and linking and unlinking change nothing but links, so *)
(* the slots change hands in alloc and dealloc alone.                      *)
(*                                                                         *)
(* The lists are queues: in every state each level's links run through a   *)
(* sequence of slots, forward and back; link_back appends to it, unlink    *)
(* removes from it, and no two levels share a slot.                        *)
(***************************************************************************)
EXTENDS Slab, Sums, SequenceTheorems

\* A link of a slab with n slots.
Link(n) == 1..n \cup {None}
NodeOf(n) == [id : Nat, prev : Link(n), next : Link(n)]

\* A level on the way: it may be empty.
ListOf(n) == [head : Link(n), tail : Link(n)]
ListOK(n, level) ==
    /\ level \in ListOf(n)
    /\ level.head = None => level.tail = None

\* What SlotsAccountedFor needs to be inductive: ids are given out once,
\* links lead to slots, and the levels that are kept have a head.
SlabTypeOK ==
    /\ entered \in Nat
    /\ nodes \in Seq(NodeOf(Len(nodes)))
    /\ free \in Seq(1..Len(nodes))
    /\ DOMAIN index \subseteq 1..entered
    /\ \A price \in DOMAIN ends :
          ListOK(Len(nodes), ends[price]) /\ ends[price].head # None

SlabInv == SlabTypeOK /\ SlotsAccountedFor

\* The nodes of two slabs hold the same ids.
SameIds(n, before, after) ==
    /\ before \in Seq(NodeOf(n)) /\ Len(before) = n
    /\ after \in Seq(NodeOf(n)) /\ Len(after) = n
    /\ \A s \in 1..n : after[s].id = before[s].id

LEMMA NoneIsNoSlot == None \notin Nat
BY SlabAssumption

\* A change of one link of one node.
LEMMA RelinkKeeps ==
    ASSUME NEW n \in Nat, NEW ns \in Seq(NodeOf(n)), Len(ns) = n,
           NEW s \in 1..n, NEW l \in Link(n)
    PROVE  /\ SameIds(n, ns, [ns EXCEPT ![s].prev = l])
           /\ SameIds(n, ns, [ns EXCEPT ![s].next = l])
<1>1. ns[s] \in NodeOf(n)
  OBVIOUS
<1>2. [ns[s] EXCEPT !.prev = l] \in NodeOf(n)
      /\ [ns[s] EXCEPT !.next = l] \in NodeOf(n)
  BY <1>1 DEF NodeOf
<1>3. /\ [ns EXCEPT ![s].prev = l] \in Seq(NodeOf(n))
      /\ Len([ns EXCEPT ![s].prev = l]) = n
      /\ \A t \in 1..n : [ns EXCEPT ![s].prev = l][t].id = ns[t].id
  BY <1>1, <1>2 DEF NodeOf
<1>4. /\ [ns EXCEPT ![s].next = l] \in Seq(NodeOf(n))
      /\ Len([ns EXCEPT ![s].next = l]) = n
      /\ \A t \in 1..n : [ns EXCEPT ![s].next = l][t].id = ns[t].id
  BY <1>1, <1>2 DEF NodeOf
<1>. QED  BY <1>3, <1>4 DEF SameIds

LEMMA SameIdsTrans ==
    ASSUME NEW n, NEW a, NEW b, NEW c, SameIds(n, a, b), SameIds(n, b, c)
    PROVE  SameIds(n, a, c)
BY DEF SameIds

\* push_back links a slot into a list and changes nothing but links.
LEMMA LinkBackKeeps ==
    ASSUME NEW n \in Nat, NEW ns \in Seq(NodeOf(n)), Len(ns) = n,
           NEW s \in 1..n, NEW level, ListOK(n, level)
    PROVE  LET list == LinkBack(ns, level, s)
           IN  /\ SameIds(n, ns, list.nodes)
               /\ ListOK(n, list.level)
               /\ list.level.head # None
<1>. DEFINE back == [ns EXCEPT ![s].prev = level.tail]
            linked == [back EXCEPT ![s].next = None]
            list == LinkBack(ns, level, s)
<1>1. level.tail \in Link(n) /\ None \in Link(n) /\ s \in Link(n)
      /\ level.head \in Link(n)
  BY DEF ListOK, ListOf, Link
<1>2. SameIds(n, ns, back)
  BY <1>1, RelinkKeeps
<1>3. SameIds(n, back, linked)
  <2>1. back \in Seq(NodeOf(n)) /\ Len(back) = n
    BY <1>2 DEF SameIds
  <2>. HIDE DEF back
  <2>. QED  BY <2>1, <1>1, RelinkKeeps
<1>4. SameIds(n, ns, linked)
  BY <1>2, <1>3, SameIdsTrans
<1>5. list.level = [head |-> IF level.tail = None THEN s ELSE level.head,
                    tail |-> s]
      /\ list.nodes = IF level.tail = None THEN linked
                      ELSE [linked EXCEPT ![level.tail].next = s]
  BY DEF LinkBack
<1>6. SameIds(n, ns, list.nodes)
  <2>1. linked \in Seq(NodeOf(n)) /\ Len(linked) = n
    BY <1>4 DEF SameIds
  <2>. HIDE DEF linked, list, back
  <2>2. CASE level.tail = None
    BY <2>2, <1>4, <1>5
  <2>3. CASE level.tail # None
    <3>1. level.tail \in 1..n
      BY <2>3, <1>1 DEF Link
    <3>2. SameIds(n, linked, [linked EXCEPT ![level.tail].next = s])
      BY <2>1, <3>1, <1>1, RelinkKeeps
    <3>. QED  BY <2>3, <3>2, <1>4, <1>5, SameIdsTrans
  <2>. QED  BY <2>2, <2>3
<1>7. ListOK(n, list.level) /\ list.level.head # None
  <2>1. s # None
    BY NoneIsNoSlot
  <2>. HIDE DEF list
  <2>. QED  BY <2>1, <1>1, <1>5 DEF ListOK, ListOf
<1>. QED  BY <1>6, <1>7

\* unlink takes a slot out of a list that has a head, and changes nothing
\* but links.
LEMMA UnlinkKeeps ==
    ASSUME NEW n \in Nat, NEW ns \in Seq(NodeOf(n)), Len(ns) = n,
           NEW s \in 1..n, NEW level
    PROVE  LET list == Unlink(ns, level, s)
           IN  /\ SameIds(n, ns, list.nodes)
               /\ ListOK(n, level) /\ level.head # None
                     => ListOK(n, list.level)
<1>. DEFINE prev == ns[s].prev
            next == ns[s].next
            ahead == IF prev = None THEN ns ELSE [ns EXCEPT ![prev].next = next]
            list == Unlink(ns, level, s)
<1>1. prev \in Link(n) /\ next \in Link(n)
  <2>1. ns[s] \in NodeOf(n)
    OBVIOUS
  <2>. QED  BY <2>1 DEF NodeOf
<1>2. list.level = [head |-> IF prev = None THEN next ELSE level.head,
                    tail |-> IF next = None THEN prev ELSE level.tail]
      /\ list.nodes = IF next = None THEN ahead
                      ELSE [ahead EXCEPT ![next].prev = prev]
  BY DEF Unlink
<1>. HIDE DEF list, prev, next
<1>3. SameIds(n, ns, ahead)
  <2>1. CASE prev = None
    BY <2>1 DEF SameIds
  <2>2. CASE prev # None
    BY <2>2, <1>1, RelinkKeeps DEF Link
  <2>. QED  BY <2>1, <2>2
<1>4. SameIds(n, ns, list.nodes)
  <2>1. ahead \in Seq(NodeOf(n)) /\ Len(ahead) = n
    BY <1>3 DEF SameIds
  <2>. HIDE DEF ahead
  <2>2. CASE next = None
    BY <2>2, <1>3, <1>2
  <2>3. CASE next # None
    <3>1. next \in 1..n
      BY <2>3, <1>1 DEF Link
    <3>2. SameIds(n, ahead, [ahead EXCEPT ![next].prev = prev])
      BY <2>1, <3>1, <1>1, RelinkKeeps
    <3>. QED  BY <2>3, <3>2, <1>3, <1>2, SameIdsTrans
  <2>. QED  BY <2>2, <2>3
<1>5. ListOK(n, level) /\ level.head # None => ListOK(n, list.level)
  BY <1>1, <1>2 DEF ListOK, ListOf
<1>. QED  BY <1>4, <1>5 DEF list

----------------------------------------------------------------------------
(* What the links do not touch *)

\* The slots of the index after its nodes were only relinked.
LEMMA IdsStay ==
    ASSUME NEW n \in Nat, NEW before, NEW after, SameIds(n, before, after),
           NEW map, \A id \in DOMAIN map : map[id].slot \in 1..n
    PROVE  (\A id \in DOMAIN map : before[map[id].slot].id = id)
              => \A id \in DOMAIN map : after[map[id].slot].id = id
BY DEF SameIds

\* A list that fits a slab fits a larger one.
LEMMA ListsGrow ==
    ASSUME NEW n \in Nat, NEW m \in Nat, n <= m, NEW level, ListOK(n, level)
    PROVE  ListOK(m, level)
BY DEF ListOK, ListOf, Link

LEMMA SeqWidens ==
    ASSUME NEW S, NEW T, S \subseteq T, NEW q \in Seq(S)
    PROVE  q \in Seq(T)
OBVIOUS

\* What is left of a sequence without its last element.
LEMMA FrontFacts ==
    ASSUME NEW S, NEW q \in Seq(S), NEW m \in Nat \ {0}, Len(q) = m
    PROVE  /\ SubSeq(q, 1, m - 1) \in Seq(S)
           /\ DOMAIN SubSeq(q, 1, m - 1) = 1..(m - 1)
           /\ \A i \in 1..(m - 1) : SubSeq(q, 1, m - 1)[i] = q[i]
OBVIOUS

LEMMA NodesGrow ==
    ASSUME NEW n \in Nat, NEW m \in Nat, n <= m
    PROVE  NodeOf(n) \subseteq NodeOf(m)
BY DEF NodeOf, Link

\* Facts of the invariant, in the form the steps use them.
LEMMA Accounted ==
    ASSUME SlabInv
    PROVE  /\ Len(nodes) \in Nat
           /\ DOMAIN nodes = 1..Len(nodes)
           /\ \A id \in DOMAIN index : /\ index[id].slot \in 1..Len(nodes)
                                       /\ nodes[index[id].slot].id = id
           /\ \A i \in DOMAIN free, id \in DOMAIN index :
                 free[i] # index[id].slot
           /\ \A s \in 1..Len(nodes) :
                 \/ \E i \in DOMAIN free : free[i] = s
                 \/ \E id \in DOMAIN index : index[id].slot = s
           /\ \A i, j \in DOMAIN free : free[i] = free[j] => i = j
<1>1. Len(nodes) \in Nat /\ DOMAIN nodes = 1..Len(nodes)
  BY DEF SlabInv, SlabTypeOK
<1>2. \A id \in DOMAIN index : /\ index[id].slot \in 1..Len(nodes)
                              /\ nodes[index[id].slot].id = id
  BY <1>1 DEF SlabInv, SlotsAccountedFor
<1>3. \A i \in DOMAIN free, id \in DOMAIN index : free[i] # index[id].slot
  BY DEF SlabInv, SlotsAccountedFor, ToSet
<1>4. \A s \in 1..Len(nodes) :
         \/ \E i \in DOMAIN free : free[i] = s
         \/ \E id \in DOMAIN index : index[id].slot = s
  BY <1>1 DEF SlabInv, SlotsAccountedFor, ToSet
<1>5. \A i, j \in DOMAIN free : free[i] = free[j] => i = j
  BY DEF SlabInv, SlotsAccountedFor, IsInjective
<1>. QED  BY <1>1, <1>2, <1>3, <1>4, <1>5

\* And the way back, for the slab after a call.
LEMMA AccountAfter ==
    ASSUME NEW n \in Nat,
           nodes' \in Seq(NodeOf(n)), Len(nodes') = n,
           free' \in Seq(1..n),
           \A id \in DOMAIN index' : /\ index'[id].slot \in 1..n
                                     /\ nodes'[index'[id].slot].id = id,
           \A i \in DOMAIN free', id \in DOMAIN index' :
              free'[i] # index'[id].slot,
           \A s \in 1..n : \/ \E i \in DOMAIN free' : free'[i] = s
                           \/ \E id \in DOMAIN index' : index'[id].slot = s,
           \A i, j \in DOMAIN free' : free'[i] = free'[j] => i = j
    PROVE  SlotsAccountedFor'
<1>. DEFINE held == {index'[id].slot : id \in DOMAIN index'}
<1>1. DOMAIN nodes' = 1..n
  OBVIOUS
<1>2. \A i \in DOMAIN free' : free'[i] \in 1..n
  OBVIOUS
<1>3. ToSet(free') \cup held = 1..n
  BY <1>2 DEF ToSet
<1>4. ToSet(free') \cap held = {}
  BY DEF ToSet
<1>5. IsInjective(free')
  BY DEF IsInjective
<1>. QED  BY <1>1, <1>3, <1>4, <1>5 DEF SlotsAccountedFor

----------------------------------------------------------------------------
(* The calls *)

\* alloc gives a slot no order is in, and keeps every other node.
LEMMA AllocGives ==
    ASSUME SlabInv, NEW id \in Nat, NEW slab, NEW n, n = Len(slab.nodes),
           slab = Alloc([nodes |-> nodes, free |-> free], id)
    PROVE  /\ n \in Nat /\ Len(nodes) <= n
           /\ slab.nodes \in Seq(NodeOf(n))
           /\ slab.free \in Seq(1..n)
           /\ slab.slot \in 1..n
           /\ slab.nodes[slab.slot].id = id
           /\ \A k \in DOMAIN index :
                 /\ slab.slot # index[k].slot
                 /\ slab.nodes[index[k].slot].id = k
           /\ \A i \in DOMAIN slab.free :
                 /\ slab.free[i] # slab.slot
                 /\ i \in DOMAIN free /\ slab.free[i] = free[i]
           /\ \A s \in 1..n : \/ s = slab.slot
                              \/ \E i \in DOMAIN slab.free : slab.free[i] = s
                              \/ \E k \in DOMAIN index : index[k].slot = s
<1>. DEFINE node == [id |-> id, prev |-> None, next |-> None]
            old == Len(nodes)
            m == Len(free)
<1>0. /\ nodes \in Seq(NodeOf(old)) /\ free \in Seq(1..old)
      /\ old \in Nat /\ m \in Nat /\ DOMAIN free = 1..m
      /\ Len(nodes) = old /\ Len(free) = m
  BY DEF SlabInv, SlabTypeOK
<1>. HIDE DEF old, m
<1>4. \A k \in DOMAIN index : /\ index[k].slot \in 1..old
                              /\ nodes[index[k].slot].id = k
  BY <1>0, Accounted
<1>5. \A i \in 1..m, k \in DOMAIN index : free[i] # index[k].slot
  BY <1>0, Accounted
<1>6. \A s \in 1..old : \/ \E i \in 1..m : free[i] = s
                        \/ \E k \in DOMAIN index : index[k].slot = s
  BY <1>0, Accounted
<1>7. \A i, j \in 1..m : free[i] = free[j] => i = j
  BY <1>0, Accounted
<1>1. node.id = id /\ \A k \in Nat : node \in NodeOf(k)
  BY DEF NodeOf, Link
<1>2. CASE free = <<>>
  <2>0. slab = [nodes |-> Append(nodes, node), free |-> <<>>, slot |-> old + 1]
    BY <1>2 DEF Alloc, old
  <2>1. /\ slab.nodes = Append(nodes, node)
        /\ slab.free = <<>>
        /\ slab.slot = old + 1
    BY <2>0
  <2>. HIDE DEF node
  <2>2. n = old + 1 /\ n \in Nat /\ old <= n
    <3>1. Len(Append(nodes, node)) = old + 1
      BY <1>0
    <3>. QED  BY <3>1, <2>1, <1>0
  <2>3. nodes \in Seq(NodeOf(n)) /\ node \in NodeOf(n)
    <3>1. NodeOf(old) \subseteq NodeOf(n)
      BY <1>0, <2>2, NodesGrow
    <3>. QED  BY <3>1, <2>2, <1>0, <1>1, SeqWidens
  <2>4. /\ slab.nodes \in Seq(NodeOf(n))
        /\ slab.nodes[n] = node
        /\ \A s \in 1..old : slab.nodes[s] = nodes[s]
    <3>1. /\ Append(nodes, node) \in Seq(NodeOf(n))
          /\ Append(nodes, node)[old + 1] = node
          /\ \A s \in 1..old : Append(nodes, node)[s] = nodes[s]
      BY <2>3, <1>0
    <3>. QED  BY <3>1, <2>1, <2>2
  <2>5. slab.free \in Seq(1..n) /\ DOMAIN slab.free = {}
    <3>1. <<>> \in Seq(1..n) /\ DOMAIN <<>> = {}
      OBVIOUS
    <3>. QED  BY <3>1, <2>1
  <2>6. \A k \in DOMAIN index : /\ slab.slot # index[k].slot
                                /\ slab.nodes[index[k].slot].id = k
    BY <2>1, <2>4, <1>0, <1>4
  <2>7. \A s \in 1..n : \/ s = slab.slot
                        \/ \E k \in DOMAIN index : index[k].slot = s
    <3>1. m = 0
      BY <1>0, <1>2
    <3>2. \A s \in 1..old : \E k \in DOMAIN index : index[k].slot = s
      BY <3>1, <1>6
    <3>. QED  BY <2>1, <2>2, <1>0, <3>2
  <2>8. /\ slab.slot \in 1..n
        /\ slab.nodes[slab.slot].id = id
    BY <2>1, <2>2, <2>4, <1>0, <1>1
  <2>. QED  BY <2>2, <2>4, <2>5, <2>6, <2>7, <2>8, <1>0
<1>3. CASE free # <<>>
  <2>. DEFINE filled == [nodes EXCEPT ![free[m]] = node]
              left == SubSeq(free, 1, m - 1)
  <2>0. slab = [nodes |-> filled, free |-> left, slot |-> free[m]]
    BY <1>3 DEF Alloc, Last, Front, m
  <2>. HIDE DEF node
  <2>1. /\ slab.nodes = [nodes EXCEPT ![free[m]] = node]
        /\ slab.free = SubSeq(free, 1, m - 1)
        /\ slab.slot = free[m]
    <3>. HIDE DEF filled, left
    <3>1. slab.nodes = filled /\ slab.free = left /\ slab.slot = free[m]
      BY <2>0
    <3>. QED  BY <3>1 DEF filled, left
  <2>2. m \in Nat \ {0} /\ free[m] \in 1..old
    BY <1>3, <1>0
  <2>3. n = old
    <3>1. Len([nodes EXCEPT ![free[m]] = node]) = old
      BY <1>0
    <3>. QED  BY <3>1, <2>1
  <2>4. /\ slab.nodes \in Seq(NodeOf(n))
        /\ slab.nodes[free[m]] = node
        /\ \A s \in 1..n \ {free[m]} : slab.nodes[s] = nodes[s]
    <3>1. node \in NodeOf(old) /\ DOMAIN nodes = 1..old
      BY <1>0, <1>1
    <3>2. /\ [nodes EXCEPT ![free[m]] = node] \in Seq(NodeOf(old))
          /\ [nodes EXCEPT ![free[m]] = node][free[m]] = node
          /\ \A s \in 1..old \ {free[m]} :
                [nodes EXCEPT ![free[m]] = node][s] = nodes[s]
      BY <3>1, <2>2, <1>0
    <3>. QED  BY <3>2, <2>1, <2>3
  <2>5. /\ slab.free \in Seq(1..n)
        /\ DOMAIN slab.free = 1..(m - 1)
        /\ \A i \in 1..(m - 1) : slab.free[i] = free[i]
    <3>1. /\ SubSeq(free, 1, m - 1) \in Seq(1..old)
          /\ DOMAIN SubSeq(free, 1, m - 1) = 1..(m - 1)
          /\ \A i \in 1..(m - 1) : SubSeq(free, 1, m - 1)[i] = free[i]
      BY <2>2, <1>0, FrontFacts
    <3>. QED  BY <3>1, <2>1, <2>3
  <2>6. \A k \in DOMAIN index : /\ slab.slot # index[k].slot
                                /\ slab.nodes[index[k].slot].id = k
    <3>1. m \in 1..m
      BY <2>2
    <3>2. \A k \in DOMAIN index : slab.slot # index[k].slot
      BY <3>1, <2>1, <1>5
    <3>. QED  BY <3>2, <2>1, <2>3, <2>4, <1>4
  <2>7. \A i \in DOMAIN slab.free : /\ slab.free[i] # slab.slot
                                    /\ i \in DOMAIN free
                                    /\ slab.free[i] = free[i]
    <3>1. \A i \in 1..(m - 1) : i \in 1..m /\ i # m /\ m \in 1..m
      BY <2>2
    <3>2. \A i \in 1..(m - 1) : free[i] # free[m]
      BY <3>1, <1>7
    <3>. QED  BY <3>1, <3>2, <2>1, <2>5, <1>0
  <2>8. \A s \in 1..n : \/ s = slab.slot
                        \/ \E i \in DOMAIN slab.free : slab.free[i] = s
                        \/ \E k \in DOMAIN index : index[k].slot = s
    <3>. SUFFICES ASSUME NEW s \in 1..n, s # slab.slot,
                         NEW i \in 1..m, free[i] = s
                  PROVE  \E j \in DOMAIN slab.free : slab.free[j] = s
      BY <2>3, <1>6
    <3>1. i \in 1..(m - 1)
      BY <2>2, <2>1, <1>0
    <3>. QED  BY <3>1, <2>5
  <2>9. /\ n \in Nat /\ Len(nodes) <= n
        /\ slab.slot \in 1..n
        /\ slab.nodes[slab.slot].id = id
    BY <2>1, <2>2, <2>3, <2>4, <1>0, <1>1
  <2>. QED  BY <2>4, <2>5, <2>6, <2>7, <2>8, <2>9
<1>. QED  BY <1>2, <1>3

LEMMA EnterKeeps ==
    ASSUME SlabInv, NEW price \in Prices, Enter(price)
    PROVE  SlabInv'
<1>. DEFINE id == entered + 1
            slab == Alloc([nodes |-> nodes, free |-> free], id)
            level == LevelAt(price)
            list == LinkBack(slab.nodes, level, slab.slot)
            old == Len(nodes)
            n == Len(slab.nodes)
<1>1. /\ entered' = id
      /\ nodes' = list.nodes
      /\ free' = slab.free
      /\ ends' = Put(ends, price, list.level)
      /\ index' = Put(index, id, [price |-> price, slot |-> slab.slot])
  BY DEF Enter
<1>2. id \in Nat /\ entered \in Nat /\ DOMAIN index \subseteq 1..entered
      /\ id = entered + 1
  BY DEF SlabInv, SlabTypeOK
<1>. HIDE DEF id
<1>3. slab = Alloc([nodes |-> nodes, free |-> free], id)
      /\ n = Len(slab.nodes) /\ level = LevelAt(price)
      /\ list = LinkBack(slab.nodes, level, slab.slot)
  OBVIOUS
<1>. HIDE DEF slab, n, level, list
<1>4. /\ n \in Nat /\ old <= n
      /\ slab.nodes \in Seq(NodeOf(n))
      /\ slab.free \in Seq(1..n)
      /\ slab.slot \in 1..n
  BY <1>2, <1>3, AllocGives
<1>5. /\ slab.nodes[slab.slot].id = id
      /\ \A k \in DOMAIN index : slab.slot # index[k].slot
      /\ \A k \in DOMAIN index : slab.nodes[index[k].slot].id = k
  BY <1>2, <1>3, AllocGives
<1>6. \A i \in DOMAIN slab.free : /\ slab.free[i] # slab.slot
                                  /\ i \in DOMAIN free
                                  /\ slab.free[i] = free[i]
  BY <1>2, <1>3, AllocGives
<1>7. \A s \in 1..n : \/ s = slab.slot
                      \/ \E i \in DOMAIN slab.free : slab.free[i] = s
                      \/ \E k \in DOMAIN index : index[k].slot = s
  BY <1>2, <1>3, AllocGives, SMTT(20)
<1>8. /\ \A p \in DOMAIN ends : ListOK(n, ends[p]) /\ ends[p].head # None
      /\ ListOK(n, level)
  <2>1. old \in Nat
    BY Accounted
  <2>2. \A p \in DOMAIN ends : ListOK(old, ends[p]) /\ ends[p].head # None
    BY DEF SlabInv, SlabTypeOK
  <2>3. \A p \in DOMAIN ends : ListOK(n, ends[p]) /\ ends[p].head # None
    BY <2>1, <2>2, <1>4, ListsGrow
  <2>4. ListOK(n, EmptyLevel)
    BY DEF EmptyLevel, ListOK, ListOf, Link
  <2>. QED  BY <2>3, <2>4, <1>3 DEF LevelAt
<1>9. /\ SameIds(n, slab.nodes, nodes')
      /\ ListOK(n, list.level) /\ list.level.head # None
  <2>1. /\ SameIds(n, slab.nodes, LinkBack(slab.nodes, level, slab.slot).nodes)
        /\ ListOK(n, LinkBack(slab.nodes, level, slab.slot).level)
        /\ LinkBack(slab.nodes, level, slab.slot).level.head # None
    <3>1. Len(slab.nodes) = n
      BY <1>3
    <3>. QED  BY <3>1, <1>4, <1>8, LinkBackKeeps
  <2>. QED  BY <2>1, <1>1, <1>3
<1>10. /\ nodes' \in Seq(NodeOf(n)) /\ Len(nodes') = n
       /\ \A s \in 1..n : nodes'[s].id = slab.nodes[s].id
  BY <1>9 DEF SameIds
<1>11. /\ DOMAIN index' = DOMAIN index \cup {id}
       /\ id \notin DOMAIN index
       /\ index'[id].slot = slab.slot
       /\ \A k \in DOMAIN index : index'[k] = index[k]
  <2>1. id \notin DOMAIN index
    BY <1>2
  <2>. QED  BY <2>1, <1>1 DEF Put
<1>12. \A k \in DOMAIN index' : /\ index'[k].slot \in 1..n
                                /\ nodes'[index'[k].slot].id = k
  <2>1. \A k \in DOMAIN index : index[k].slot \in 1..n
    <3>1. \A k \in DOMAIN index : index[k].slot \in 1..old
      BY Accounted
    <3>2. old \in Nat
      BY Accounted
    <3>. QED  BY <3>1, <3>2, <1>4
  <2>2. \A k \in DOMAIN index : nodes'[index[k].slot].id = k
    BY <2>1, <1>5, <1>10
  <2>3. nodes'[slab.slot].id = id
    BY <1>4, <1>5, <1>10
  <2>. QED  BY <2>1, <2>2, <2>3, <1>4, <1>11
<1>13. \A i \in DOMAIN free', k \in DOMAIN index' : free'[i] # index'[k].slot
  <2>1. \A i \in DOMAIN free, k \in DOMAIN index : free[i] # index[k].slot
    BY Accounted
  <2>. QED  BY <2>1, <1>1, <1>6, <1>11
<1>14. \A s \in 1..n : \/ \E i \in DOMAIN free' : free'[i] = s
                       \/ \E k \in DOMAIN index' : index'[k].slot = s
  <2>. SUFFICES ASSUME NEW s \in 1..n
                PROVE  \/ \E i \in DOMAIN free' : free'[i] = s
                       \/ \E k \in DOMAIN index' : index'[k].slot = s
    OBVIOUS
  <2>1. CASE s = slab.slot
    BY <2>1, <1>11
  <2>2. CASE \E i \in DOMAIN slab.free : slab.free[i] = s
    BY <2>2, <1>1
  <2>3. CASE \E k \in DOMAIN index : index[k].slot = s
    BY <2>3, <1>11
  <2>. QED  BY <2>1, <2>2, <2>3, <1>7
<1>15. \A i, j \in DOMAIN free' : free'[i] = free'[j] => i = j
  <2>1. \A i, j \in DOMAIN free : free[i] = free[j] => i = j
    BY Accounted
  <2>. QED  BY <2>1, <1>1, <1>6
<1>16. \A p \in DOMAIN ends' : ListOK(n, ends'[p]) /\ ends'[p].head # None
  <2>1. \A p \in DOMAIN ends' : \/ ends'[p] = list.level
                                \/ p \in DOMAIN ends /\ ends'[p] = ends[p]
    BY <1>1 DEF Put
  <2>. QED  BY <2>1, <1>8, <1>9
<1>17. SlotsAccountedFor'
  <2>1. free' \in Seq(1..n)
    BY <1>1, <1>4
  <2>. QED  BY <2>1, <1>4, <1>10, <1>12, <1>13, <1>14, <1>15, AccountAfter
<1>18. DOMAIN index' \subseteq 1..entered'
  BY <1>1, <1>2, <1>11
<1>. QED  BY <1>1, <1>2, <1>4, <1>10, <1>16, <1>17, <1>18
          DEF SlabInv, SlabTypeOK

LEMMA LeaveKeeps ==
    ASSUME SlabInv, NEW id \in DOMAIN index, Leave(id)
    PROVE  SlabInv'
<1>. DEFINE at == index[id]
            list == Unlink(nodes, ends[at.price], at.slot)
            n == Len(nodes)
            m == Len(free)
<1>1. /\ nodes' = list.nodes
      /\ free' = Append(free, at.slot)
      /\ ends' = IF list.level.head = None
                 THEN Restrict(ends, DOMAIN ends \ {at.price})
                 ELSE [ends EXCEPT ![at.price] = list.level]
      /\ index' = Restrict(index, DOMAIN index \ {id})
      /\ entered' = entered
  BY DEF Leave, Dealloc, Leaves
<1>2. /\ nodes \in Seq(NodeOf(n)) /\ n \in Nat
      /\ free \in Seq(1..n) /\ m \in Nat /\ DOMAIN free = 1..m
      /\ entered \in Nat /\ DOMAIN index \subseteq 1..entered
      /\ \A p \in DOMAIN ends : ListOK(n, ends[p]) /\ ends[p].head # None
  BY DEF SlabInv, SlabTypeOK
<1>3. at.slot \in 1..n
  BY Accounted
<1>. HIDE DEF n, m
<1>16. Len(nodes) = n /\ Len(free) = m
  BY DEF n, m
<1>17. \A k \in DOMAIN index : index[k].slot \in 1..n
                             /\ nodes[index[k].slot].id = k
  BY <1>16, Accounted
<1>18. \A i \in 1..m, k \in DOMAIN index : free[i] # index[k].slot
  BY <1>2, Accounted
<1>19. \A s \in 1..n : \/ \E i \in 1..m : free[i] = s
                       \/ \E k \in DOMAIN index : index[k].slot = s
  BY <1>2, <1>16, Accounted
<1>20. \A i, j \in 1..m : free[i] = free[j] => i = j
  BY <1>2, Accounted
<1>21. \A i \in 1..m : free[i] # at.slot
  BY <1>18
<1>22. \A k \in DOMAIN index : index[k].slot = at.slot => k = id
  BY <1>17
<1>. HIDE DEF at
<1>4. /\ SameIds(n, nodes, list.nodes)
      /\ at.price \in DOMAIN ends => ListOK(n, list.level)
  BY <1>2, <1>3, <1>16, UnlinkKeeps
<1>. HIDE DEF list
<1>5. nodes' \in Seq(NodeOf(n)) /\ Len(nodes') = n
  BY <1>1, <1>4 DEF SameIds
<1>6. /\ free' \in Seq(1..n) /\ DOMAIN free' = 1..(m + 1)
      /\ free'[m + 1] = at.slot
      /\ \A i \in 1..m : free'[i] = free[i]
  BY <1>1, <1>2, <1>3, <1>16
<1>7. /\ DOMAIN index' = DOMAIN index \ {id}
      /\ \A k \in DOMAIN index' : index'[k] = index[k]
  BY <1>1 DEF Restrict
<1>8. \A k \in DOMAIN index' : index'[k].slot # at.slot
  BY <1>7, <1>22
<1>9. \A k \in DOMAIN index' : /\ index'[k].slot \in 1..n
                               /\ nodes'[index'[k].slot].id = k
  BY <1>1, <1>4, <1>7, <1>17 DEF SameIds
<1>10. \A i \in DOMAIN free', k \in DOMAIN index' : free'[i] # index'[k].slot
  <2>. SUFFICES ASSUME NEW i \in DOMAIN free', NEW k \in DOMAIN index'
                PROVE  free'[i] # index'[k].slot
    OBVIOUS
  <2>1. CASE i = m + 1
    BY <2>1, <1>6, <1>8
  <2>2. CASE i # m + 1
    <3>1. i \in DOMAIN free /\ free'[i] = free[i]
      BY <2>2, <1>2, <1>6
    <3>. QED  BY <3>1, <1>2, <1>7, <1>18
  <2>. QED  BY <2>1, <2>2
<1>11. \A s \in 1..n : \/ \E i \in DOMAIN free' : free'[i] = s
                       \/ \E k \in DOMAIN index' : index'[k].slot = s
  <2>. SUFFICES ASSUME NEW s \in 1..n
                PROVE  \/ \E i \in DOMAIN free' : free'[i] = s
                       \/ \E k \in DOMAIN index' : index'[k].slot = s
    OBVIOUS
  <2>1. CASE \E i \in 1..m : free[i] = s
    BY <2>1, <1>2, <1>6, SMTT(20)
  <2>2. CASE s = at.slot
    <3>1. m + 1 \in DOMAIN free'
      BY <1>2, <1>6
    <3>. QED  BY <3>1, <2>2, <1>6
  <2>3. CASE \E k \in DOMAIN index : k # id /\ index[k].slot = s
    BY <2>3, <1>7
  <2>. QED  BY <2>1, <2>2, <2>3, <1>19 DEF at
<1>12. \A i, j \in DOMAIN free' : free'[i] = free'[j] => i = j
  <2>. SUFFICES ASSUME NEW i \in 1..(m + 1), NEW j \in 1..(m + 1),
                       free'[i] = free'[j]
                PROVE  i = j
    BY <1>6
  <2>1. CASE i \in 1..m /\ j \in 1..m
    BY <2>1, <1>6, <1>20
  <2>2. CASE i = m + 1 /\ j \in 1..m
    BY <2>2, <1>6, <1>21
  <2>3. CASE i \in 1..m /\ j = m + 1
    BY <2>3, <1>6, <1>21
  <2>. QED  BY <2>1, <2>2, <2>3, <1>2
<1>13. \A p \in DOMAIN ends' : ListOK(n, ends'[p]) /\ ends'[p].head # None
  <2>1. CASE list.level.head = None
    <3>1. \A p \in DOMAIN ends' : p \in DOMAIN ends /\ ends'[p] = ends[p]
      BY <2>1, <1>1 DEF Restrict
    <3>. QED  BY <3>1, <1>2
  <2>2. CASE list.level.head # None
    <3>1. ends' = [ends EXCEPT ![at.price] = list.level]
      BY <2>2, <1>1
    <3>2. \A p \in DOMAIN ends' :
             /\ p \in DOMAIN ends
             /\ ends'[p] = IF p = at.price THEN list.level ELSE ends[p]
      BY <3>1
    <3>. QED  BY <2>2, <3>2, <1>2, <1>4
  <2>. QED  BY <2>1, <2>2
<1>14. SlotsAccountedFor'
  BY <1>2, <1>5, <1>6, <1>9, <1>10, <1>11, <1>12, AccountAfter
<1>15. DOMAIN index' \subseteq 1..entered'
  BY <1>1, <1>2, <1>7
<1>. QED  BY <1>1, <1>2, <1>5, <1>6, <1>13, <1>14, <1>15 DEF SlabInv, SlabTypeOK

LEMMA RefillKeeps ==
    ASSUME SlabInv, NEW price \in DOMAIN ends, Refill(price)
    PROVE  SlabInv'
<1>. DEFINE slot == ends[price].head
            left == Unlink(nodes, ends[price], slot)
            joined == LinkBack(left.nodes, left.level, slot)
            n == Len(nodes)
<1>1. /\ nodes' = joined.nodes
      /\ ends' = [ends EXCEPT ![price] = joined.level]
      /\ free' = free /\ index' = index /\ entered' = entered
  BY DEF Refill
<1>2. /\ nodes \in Seq(NodeOf(n)) /\ n \in Nat
      /\ free \in Seq(1..n)
      /\ \A p \in DOMAIN ends : ListOK(n, ends[p]) /\ ends[p].head # None
  BY DEF SlabInv, SlabTypeOK
<1>3. slot \in 1..n
  BY <1>2 DEF ListOK, ListOf, Link
<1>. HIDE DEF slot
<1>4. SameIds(n, nodes, left.nodes) /\ ListOK(n, left.level)
  BY <1>2, <1>3, UnlinkKeeps
<1>. HIDE DEF left
<1>5. SameIds(n, left.nodes, joined.nodes)
      /\ ListOK(n, joined.level) /\ joined.level.head # None
  <2>1. left.nodes \in Seq(NodeOf(n)) /\ Len(left.nodes) = n
    BY <1>4 DEF SameIds
  <2>. QED  BY <2>1, <1>2, <1>3, <1>4, LinkBackKeeps
<1>. HIDE DEF joined
<1>6. SameIds(n, nodes, nodes')
  BY <1>1, <1>4, <1>5, SameIdsTrans
<1>7. nodes' \in Seq(NodeOf(n)) /\ Len(nodes') = n
  BY <1>6 DEF SameIds
<1>8. \A k \in DOMAIN index : nodes'[index[k].slot].id = k
  BY <1>6, Accounted DEF SameIds
<1>9. SlotsAccountedFor'
  <2>1. DOMAIN nodes' = DOMAIN nodes
    BY <1>2, <1>7
  <2>. QED  BY <2>1, <1>1, <1>8 DEF SlabInv, SlotsAccountedFor
<1>10. \A p \in DOMAIN ends' : ListOK(n, ends'[p]) /\ ends'[p].head # None
  <2>1. \A p \in DOMAIN ends' :
           /\ p \in DOMAIN ends
           /\ ends'[p] = IF p = price THEN joined.level ELSE ends[p]
    BY <1>1
  <2>. QED  BY <2>1, <1>2, <1>5
<1>. QED  BY <1>1, <1>2, <1>7, <1>9, <1>10 DEF SlabInv, SlabTypeOK

----------------------------------------------------------------------------
LEMMA SlabFromStart == Init => SlabInv
<1>. SUFFICES ASSUME Init
              PROVE  SlabInv
  OBVIOUS
<1>1. nodes = <<>> /\ free = <<>> /\ Len(nodes) = 0 /\ DOMAIN nodes = {}
      /\ DOMAIN free = {}
  BY DEF Init
<1>2. DOMAIN index = {} /\ DOMAIN ends = {} /\ entered = 0
  BY DEF Init
<1>3. SlabTypeOK
  BY <1>1, <1>2 DEF SlabTypeOK
<1>4. SlotsAccountedFor
  BY <1>1, <1>2 DEF SlotsAccountedFor, ToSet, IsInjective
<1>. QED  BY <1>3, <1>4 DEF SlabInv

LEMMA SlabKept == SlabInv /\ [Next]_vars => SlabInv'
<1>. SUFFICES ASSUME SlabInv, [Next]_vars
              PROVE  SlabInv'
  OBVIOUS
<1>1. CASE \E price \in Prices : Enter(price)
  BY <1>1, EnterKeeps
<1>2. CASE \E id \in DOMAIN index : Leave(id)
  BY <1>2, LeaveKeeps
<1>3. CASE \E price \in DOMAIN ends : Refill(price)
  BY <1>3, RefillKeeps
<1>4. CASE UNCHANGED vars
  BY <1>4 DEF vars, SlabInv, SlabTypeOK, SlotsAccountedFor
<1>. QED  BY <1>1, <1>2, <1>3, <1>4 DEF Next

\* Every slot is free once or holds one order of the index, for any number
\* of orders and levels: alloc and dealloc lose no slot and give none twice.
THEOREM NoSlotLeaks == Spec => []SlotsAccountedFor
<1>1. SlabInv => SlotsAccountedFor
  BY DEF SlabInv
<1>. QED  BY <1>1, SlabFromStart, SlabKept, PTL DEF Spec

----------------------------------------------------------------------------
(* Lists as sequences of slots *)

\* The slots c, in that order, are the doubly linked list of a level.
IsChain(ns, level, c) ==
    /\ IsInjective(c)
    /\ level.head = IF Len(c) = 0 THEN None ELSE c[1]
    /\ level.tail = IF Len(c) = 0 THEN None ELSE c[Len(c)]
    /\ \A i \in 1..Len(c) :
          /\ ns[c[i]].prev = IF i = 1 THEN None ELSE c[i - 1]
          /\ ns[c[i]].next = IF i = Len(c) THEN None ELSE c[i + 1]

LEMMA IntervalSize ==
    ASSUME NEW n \in Nat
    PROVE  IsFiniteSet(1..n) /\ Cardinality(1..n) = n
<1>1. /\ IsFiniteSet(1..n)
      /\ Cardinality(1..n) = IF 1 > n THEN 0 ELSE n - 1 + 1
  BY FS_Interval
<1>. QED  BY <1>1

\* No list is longer than its slab.
LEMMA ChainIsShort ==
    ASSUME NEW n \in Nat, NEW c \in Seq(1..n), IsInjective(c)
    PROVE  Len(c) <= n
<1>1. c \in [1..Len(c) -> 1..n] /\ Len(c) \in Nat
  OBVIOUS
<1>2. \A i, j \in 1..Len(c) : c[i] = c[j] => i = j
  BY <1>1 DEF IsInjective
<1>3. IsFiniteSet(1..n) /\ Cardinality(1..n) = n
  BY IntervalSize
<1>4. IsFiniteSet(1..Len(c)) /\ Cardinality(1..Len(c)) = Len(c)
  BY <1>1, IntervalSize
<1>5. SUFFICES ASSUME n < Len(c) PROVE FALSE
  BY <1>1
<1>6. \E i, j \in 1..Len(c) : i # j /\ c[i] = c[j]
  BY <1>1, <1>3, <1>4, <1>5, FS_PigeonHole
<1>. QED  BY <1>2, <1>6

----------------------------------------------------------------------------
(* The walk from the head of a level *)

IsWalk(head, g) ==
    g = [i \in 1..(Len(nodes) + 1) |->
            IF i = 1 THEN head ELSE After(g[i - 1])]

\* What a walk finds after the slots of a chain.
ChainStep(c, i) == IF i <= Len(c) THEN c[i] ELSE None

LEMMA ChainIsWalked ==
    ASSUME nodes \in Seq(NodeOf(Len(nodes))), NEW level,
           NEW c \in Seq(1..Len(nodes)), IsChain(nodes, level, c)
    PROVE  IsWalk(level.head, [i \in 1..(Len(nodes) + 1) |-> ChainStep(c, i)])
<1>. DEFINE n == Len(nodes)
            k == Len(c)
            w == [i \in 1..(n + 1) |-> ChainStep(c, i)]
<1>1. /\ n \in Nat /\ k \in Nat
      /\ \A i \in 1..k : c[i] \in 1..n /\ c[i] # None
  BY NoneIsNoSlot
<1>2. /\ level.head = IF k = 0 THEN None ELSE c[1]
      /\ \A i \in 1..k : nodes[c[i]].next = IF i = k THEN None ELSE c[i + 1]
  BY DEF IsChain
<1>. HIDE DEF n, k
<1>3. ASSUME NEW i \in 1..(n + 1)
      PROVE  ChainStep(c, i) = IF i = 1 THEN level.head ELSE After(w[i - 1])
  <2>1. CASE i = 1
    <3>1. ChainStep(c, 1) = level.head
      BY <1>1, <1>2 DEF ChainStep, k
    <3>. QED  BY <2>1, <3>1
  <2>2. CASE i # 1
    <3>1. i - 1 \in 1..(n + 1) /\ (i - 1) + 1 = i
      BY <2>2, <1>1
    <3>2. w[i - 1] = ChainStep(c, i - 1)
      BY <3>1
    <3>3. CASE i - 1 \in 1..k
      <4>1. ChainStep(c, i - 1) = c[i - 1] /\ c[i - 1] # None
        BY <3>3, <1>1 DEF ChainStep, k
      <4>2. nodes[c[i - 1]].next = IF i - 1 = k THEN None ELSE c[i]
        BY <3>1, <3>3, <1>2
      <4>3. ChainStep(c, i) = IF i - 1 = k THEN None ELSE c[i]
        BY <3>1, <3>3, <1>1 DEF ChainStep, k
      <4>. QED  BY <2>2, <3>2, <4>1, <4>2, <4>3 DEF After
    <3>4. CASE i - 1 \notin 1..k
      <4>1. ~(i - 1 <= k) /\ ~(i <= k)
        BY <3>1, <3>4, <1>1
      <4>2. ChainStep(c, i - 1) = None /\ ChainStep(c, i) = None
        BY <4>1 DEF ChainStep, k
      <4>. QED  BY <2>2, <3>2, <4>2 DEF After
    <3>. QED  BY <3>3, <3>4
  <2>. QED  BY <2>1, <2>2
<1>4. w = [i \in 1..(n + 1) |-> IF i = 1 THEN level.head ELSE After(w[i - 1])]
  BY <1>3
<1>. QED  BY <1>4 DEF IsWalk, n

LEMMA WalksAgree ==
    ASSUME Len(nodes) \in Nat, NEW head, NEW g, NEW h,
           IsWalk(head, g), IsWalk(head, h)
    PROVE  g = h
<1>. DEFINE n == Len(nodes)
            Same == {i \in Nat : i \in 1..(n + 1) => g[i] = h[i]}
<1>1. \A i \in 1..(n + 1) :
         /\ g[i] = IF i = 1 THEN head ELSE After(g[i - 1])
         /\ h[i] = IF i = 1 THEN head ELSE After(h[i - 1])
  BY DEF IsWalk
<1>2. 0 \in Same
  OBVIOUS
<1>3. ASSUME NEW i \in Nat, i \in Same PROVE i + 1 \in Same
  <2>1. SUFFICES ASSUME i + 1 \in 1..(n + 1) PROVE g[i + 1] = h[i + 1]
    OBVIOUS
  <2>2. CASE i = 0
    BY <2>1, <2>2, <1>1
  <2>3. CASE i # 0
    <3>1. i \in 1..(n + 1) /\ (i + 1) - 1 = i /\ i + 1 # 1
      BY <2>1, <2>3
    <3>2. g[i] = h[i]
      BY <3>1, <1>3
    <3>. QED  BY <2>1, <3>1, <3>2, <1>1
  <2>. QED  BY <2>2, <2>3
<1>4. Nat \subseteq Same
  <2>. HIDE DEF Same
  <2>. QED  BY <1>2, <1>3, NatInductive
<1>5. \A i \in 1..(n + 1) : g[i] = h[i]
  BY <1>4
<1>6. DOMAIN g = 1..(n + 1) /\ DOMAIN h = 1..(n + 1)
  BY DEF IsWalk
<1>7. /\ g = [i \in 1..(n + 1) |-> g[i]]
      /\ h = [i \in 1..(n + 1) |-> h[i]]
  BY DEF IsWalk
<1>. QED  BY <1>5, <1>7

\* Walking a level that is a chain finds the chain.
LEMMA SlotsFollow ==
    ASSUME nodes \in Seq(NodeOf(Len(nodes))), NEW price,
           NEW c \in Seq(1..Len(nodes)), IsChain(nodes, LevelAt(price), c)
    PROVE  Slots(price) = c
<1>. DEFINE n == Len(nodes)
            k == Len(c)
            w == [i \in 1..(n + 1) |-> ChainStep(c, i)]
            g == CHOOSE x : IsWalk(LevelAt(price).head, x)
            reached == {i \in 1..(n + 1) : g[i] # None}
<1>1. IsWalk(LevelAt(price).head, w)
  BY ChainIsWalked
<1>2. IsWalk(LevelAt(price).head, g)
  BY <1>1
<1>3. n \in Nat
  OBVIOUS
<1>4. g = w
  BY <1>1, <1>2, <1>3, WalksAgree
<1>5. Slots(price) = [i \in 1..Cardinality(reached) |-> g[i]]
  BY DEF Slots, IsWalk
<1>. HIDE DEF g
<1>6. k \in Nat /\ k <= n /\ \A i \in 1..k : c[i] # None
  <2>1. IsInjective(c)
    BY DEF IsChain
  <2>. QED  BY <2>1, ChainIsShort, NoneIsNoSlot
<1>7. reached = 1..k
  BY <1>3, <1>4, <1>6 DEF ChainStep
<1>8. Cardinality(reached) = k
  BY <1>6, <1>7, IntervalSize
<1>9. \A i \in 1..k : g[i] = c[i]
  BY <1>3, <1>4, <1>6 DEF ChainStep
<1>10. c = [i \in 1..k |-> c[i]]
  OBVIOUS
<1>. QED  BY <1>5, <1>8, <1>9, <1>10

----------------------------------------------------------------------------
(* What linking does to a list *)

WithPrev(ns, s, l) == [ns EXCEPT ![s].prev = l]
WithNext(ns, s, l) == [ns EXCEPT ![s].next = l]

\* The nodes of a slab of n slots.
IsSlab(n, ns) == ns \in Seq(NodeOf(n)) /\ Len(ns) = n

LEMMA PrevChanged ==
    ASSUME NEW n \in Nat, NEW ns, IsSlab(n, ns),
           NEW s \in 1..n, NEW l \in Link(n)
    PROVE  /\ IsSlab(n, WithPrev(ns, s, l))
           /\ \A t \in 1..n :
                 /\ WithPrev(ns, s, l)[t].prev = IF t = s THEN l ELSE ns[t].prev
                 /\ WithPrev(ns, s, l)[t].next = ns[t].next
                 /\ t # s => WithPrev(ns, s, l)[t] = ns[t]
<1>1. ns[s] \in NodeOf(n) /\ DOMAIN ns = 1..n
  BY DEF IsSlab
<1>2. \A t \in 1..n : WithPrev(ns, s, l)[t] =
         IF t = s THEN [ns[s] EXCEPT !.prev = l] ELSE ns[t]
  BY <1>1 DEF WithPrev
<1>3. /\ [ns[s] EXCEPT !.prev = l].prev = l
      /\ [ns[s] EXCEPT !.prev = l].next = ns[s].next
  BY <1>1 DEF NodeOf
<1>4. IsSlab(n, WithPrev(ns, s, l))
  <2>1. ns \in Seq(NodeOf(n)) /\ Len(ns) = n
    BY DEF IsSlab
  <2>2. SameIds(n, ns, [ns EXCEPT ![s].prev = l])
    BY <2>1, RelinkKeeps
  <2>. QED  BY <2>2 DEF SameIds, IsSlab, WithPrev
<1>. QED  BY <1>2, <1>3, <1>4

LEMMA NextChanged ==
    ASSUME NEW n \in Nat, NEW ns, IsSlab(n, ns),
           NEW s \in 1..n, NEW l \in Link(n)
    PROVE  /\ IsSlab(n, WithNext(ns, s, l))
           /\ \A t \in 1..n :
                 /\ WithNext(ns, s, l)[t].next = IF t = s THEN l ELSE ns[t].next
                 /\ WithNext(ns, s, l)[t].prev = ns[t].prev
                 /\ t # s => WithNext(ns, s, l)[t] = ns[t]
<1>1. ns[s] \in NodeOf(n) /\ DOMAIN ns = 1..n
  BY DEF IsSlab
<1>2. \A t \in 1..n : WithNext(ns, s, l)[t] =
         IF t = s THEN [ns[s] EXCEPT !.next = l] ELSE ns[t]
  BY <1>1 DEF WithNext
<1>3. /\ [ns[s] EXCEPT !.next = l].next = l
      /\ [ns[s] EXCEPT !.next = l].prev = ns[s].prev
  BY <1>1 DEF NodeOf
<1>4. IsSlab(n, WithNext(ns, s, l))
  <2>1. ns \in Seq(NodeOf(n)) /\ Len(ns) = n
    BY DEF IsSlab
  <2>2. SameIds(n, ns, [ns EXCEPT ![s].next = l])
    BY <2>1, RelinkKeeps
  <2>. QED  BY <2>2 DEF SameIds, IsSlab, WithNext
<1>. QED  BY <1>2, <1>3, <1>4

\* The links after link_back, of each node.
LEMMA LinkBackLinks ==
    ASSUME NEW n \in Nat, NEW ns, IsSlab(n, ns),
           NEW s \in 1..n, NEW level, level.tail \in Link(n), level.tail # s,
           NEW t \in 1..n
    PROVE  LET after == LinkBack(ns, level, s).nodes
           IN  /\ after[t].prev = IF t = s THEN level.tail ELSE ns[t].prev
               /\ after[t].next = IF t = s THEN None
                                  ELSE IF t = level.tail THEN s ELSE ns[t].next
               /\ t # s /\ t # level.tail => after[t] = ns[t]
<1>1. None \in Link(n) /\ s \in Link(n) /\ None \notin 1..n
  BY NoneIsNoSlot DEF Link
<1>2. PICK back : back = WithPrev(ns, s, level.tail)
  OBVIOUS
<1>3. PICK linked : linked = WithNext(back, s, None)
  OBVIOUS
<1>4. LinkBack(ns, level, s).nodes =
         IF level.tail = None THEN linked ELSE WithNext(linked, level.tail, s)
  <2>1. linked = [ns EXCEPT ![s].prev = level.tail, ![s].next = None]
    BY <1>2, <1>3 DEF WithPrev, WithNext
  <2>. QED  BY <2>1 DEF LinkBack, WithNext
<1>6. /\ IsSlab(n, back)
      /\ back[t].prev = IF t = s THEN level.tail ELSE ns[t].prev
      /\ back[t].next = ns[t].next
      /\ t # s => back[t] = ns[t]
  BY <1>2, PrevChanged
<1>7. /\ IsSlab(n, linked)
      /\ linked[t].prev = IF t = s THEN level.tail ELSE ns[t].prev
      /\ linked[t].next = IF t = s THEN None ELSE ns[t].next
      /\ t # s => linked[t] = ns[t]
  BY <1>1, <1>3, <1>6, NextChanged
<1>8. CASE level.tail = None
  BY <1>1, <1>4, <1>7, <1>8
<1>9. CASE level.tail # None
  <2>1. level.tail \in 1..n /\ level.tail # s
    BY <1>9 DEF Link
  <2>2. PICK after2 : after2 = WithNext(linked, level.tail, s)
    OBVIOUS
  <2>3. /\ after2[t].next = IF t = level.tail THEN s ELSE linked[t].next
        /\ after2[t].prev = linked[t].prev
        /\ t # level.tail => after2[t] = linked[t]
    <3>1. PICK last \in 1..n : last = level.tail
      BY <2>1
    <3>2. s \in Link(n) /\ IsSlab(n, linked)
      BY <1>7 DEF Link
    <3>3. after2 = WithNext(linked, last, s)
      BY <2>2, <3>1
    <3>4. \A x \in 1..n :
             /\ WithNext(linked, last, s)[x].next =
                    IF x = last THEN s ELSE linked[x].next
             /\ WithNext(linked, last, s)[x].prev = linked[x].prev
             /\ x # last => WithNext(linked, last, s)[x] = linked[x]
      BY <3>2, NextChanged
    <3>. QED  BY <3>1, <3>3, <3>4
  <2>4. LinkBack(ns, level, s).nodes = after2
    BY <1>4, <1>9, <2>2
  <2>. QED  BY <1>7, <2>1, <2>3, <2>4
<1>. QED  BY <1>8, <1>9

\* link_back puts a slot that is in no list behind the last one.
LEMMA LinkBackAppends ==
    ASSUME NEW n \in Nat, NEW ns, IsSlab(n, ns),
           NEW s \in 1..n, NEW level, NEW c \in Seq(1..n),
           IsChain(ns, level, c), \A i \in 1..Len(c) : c[i] # s
    PROVE  LET list == LinkBack(ns, level, s)
           IN  /\ IsChain(list.nodes, list.level, Append(c, s))
               /\ \A t \in 1..n : t # s /\ (\A i \in 1..Len(c) : c[i] # t)
                     => list.nodes[t] = ns[t]
<1>. DEFINE list == LinkBack(ns, level, s)
<1>1. PICK k \in Nat : k = Len(c)
  OBVIOUS
<1>2. /\ \A i \in 1..k : c[i] \in 1..n /\ c[i] # None
      /\ \A i, j \in 1..k : c[i] = c[j] => i = j
      /\ s # None
  <2>1. DOMAIN c = 1..k /\ \A i \in 1..k : c[i] \in 1..n
    BY <1>1
  <2>2. \A i, j \in 1..k : c[i] = c[j] => i = j
    BY <2>1 DEF IsChain, IsInjective
  <2>. QED  BY <2>1, <2>2, NoneIsNoSlot
<1>3. /\ level.head = IF k = 0 THEN None ELSE c[1]
      /\ level.tail = IF k = 0 THEN None ELSE c[k]
      /\ \A i \in 1..k :
            /\ ns[c[i]].prev = IF i = 1 THEN None ELSE c[i - 1]
            /\ ns[c[i]].next = IF i = k THEN None ELSE c[i + 1]
  BY <1>1 DEF IsChain
<1>4. level.tail \in Link(n) /\ level.tail # s
  BY <1>1, <1>2, <1>3 DEF Link
<1>5. PICK d : d = Append(c, s)
  OBVIOUS
<1>6. /\ d \in Seq(1..n) /\ Len(d) = k + 1
      /\ d[k + 1] = s /\ \A i \in 1..k : d[i] = c[i]
  BY <1>1, <1>5
<1>7. list.level = [head |-> IF level.tail = None THEN s ELSE level.head,
                    tail |-> s]
  BY DEF LinkBack
<1>8. \A t \in 1..n :
         /\ list.nodes[t].prev = IF t = s THEN level.tail ELSE ns[t].prev
         /\ list.nodes[t].next = IF t = s THEN None
                                 ELSE IF t = level.tail THEN s ELSE ns[t].next
         /\ t # s /\ t # level.tail => list.nodes[t] = ns[t]
  BY <1>4, LinkBackLinks
<1>. HIDE DEF list
<1>9. list.level.head = d[1] /\ list.level.tail = s
  BY <1>1, <1>2, <1>3, <1>6, <1>7
<1>10. IsInjective(d)
  <2>1. DOMAIN d = 1..(k + 1)
    BY <1>1, <1>6
  <2>2. ASSUME NEW i \in 1..(k + 1), NEW j \in 1..(k + 1), d[i] = d[j]
        PROVE  i = j
    <3>1. CASE i \in 1..k /\ j \in 1..k
      BY <3>1, <1>2, <1>6, <2>2
    <3>2. CASE i \in 1..k /\ j = k + 1
      BY <3>2, <1>1, <1>2, <1>6, <2>2
    <3>3. CASE i = k + 1 /\ j \in 1..k
      BY <3>3, <1>1, <1>2, <1>6, <2>2
    <3>. QED  BY <3>1, <3>2, <3>3
  <2>. QED  BY <2>1, <2>2 DEF IsInjective
<1>11. ASSUME NEW i \in 1..(k + 1)
       PROVE  /\ list.nodes[d[i]].prev = IF i = 1 THEN None ELSE d[i - 1]
              /\ list.nodes[d[i]].next = IF i = k + 1 THEN None ELSE d[i + 1]
  <2>1. CASE i = k + 1
    BY <1>1, <1>3, <1>6, <1>8, <2>1
  <2>2. CASE i \in 1..k
    <3>1. d[i] = c[i] /\ c[i] \in 1..n /\ c[i] # s /\ i # k + 1
      BY <1>1, <1>2, <1>6, <2>2
    <3>2. c[i] = level.tail <=> i = k
      BY <1>2, <1>3, <2>2
    <3>3. list.nodes[d[i]].prev = IF i = 1 THEN None ELSE d[i - 1]
      <4>1. list.nodes[d[i]].prev = ns[c[i]].prev
        BY <1>8, <3>1
      <4>2. i # 1 => d[i - 1] = c[i - 1]
        BY <1>6, <2>2
      <4>. QED  BY <1>3, <2>2, <4>1, <4>2
    <3>4. list.nodes[d[i]].next = d[i + 1]
      <4>1. list.nodes[d[i]].next = IF i = k THEN s ELSE ns[c[i]].next
        BY <1>8, <3>1, <3>2
      <4>2. i # k => d[i + 1] = c[i + 1]
        BY <1>6, <2>2
      <4>3. i = k => d[i + 1] = s
        BY <1>6
      <4>. QED  BY <1>3, <2>2, <4>1, <4>2, <4>3
    <3>. QED  BY <3>1, <3>3, <3>4
  <2>. QED  BY <2>1, <2>2
<1>12. IsChain(list.nodes, list.level, d)
  BY <1>1, <1>6, <1>9, <1>10, <1>11 DEF IsChain
<1>13. \A t \in 1..n : t # s /\ (\A i \in 1..k : c[i] # t)
                          => list.nodes[t] = ns[t]
  <2>1. \A t \in 1..n : (\A i \in 1..k : c[i] # t) => t # level.tail
    <3>1. k # 0 => k \in 1..k
      OBVIOUS
    <3>2. \A t \in 1..n : t # None
      BY NoneIsNoSlot
    <3>. QED  BY <1>3, <3>1, <3>2
  <2>. QED  BY <1>8, <2>1
<1>. QED  BY <1>1, <1>5, <1>12, <1>13 DEF list

\* The links after unlink, of each node; the slot lies between prev and next.
LEMMA UnlinkLinks ==
    ASSUME NEW n \in Nat, NEW ns, IsSlab(n, ns),
           NEW s \in 1..n, NEW level, NEW prev, NEW next,
           prev = ns[s].prev, next = ns[s].next,
           NEW t \in 1..n
    PROVE  LET after == Unlink(ns, level, s).nodes
           IN  /\ after[t].prev = IF t = next THEN prev ELSE ns[t].prev
               /\ after[t].next = IF t = prev THEN next ELSE ns[t].next
               /\ t # prev /\ t # next => after[t] = ns[t]
<1>1. prev \in Link(n) /\ next \in Link(n) /\ None \notin 1..n
  <2>1. ns[s] \in NodeOf(n)
    BY DEF IsSlab
  <2>. QED  BY <2>1, NoneIsNoSlot DEF NodeOf
<1>2. PICK ahead : ahead = IF prev = None THEN ns ELSE WithNext(ns, prev, next)
  OBVIOUS
<1>3. Unlink(ns, level, s).nodes =
         IF next = None THEN ahead ELSE WithPrev(ahead, next, prev)
  BY <1>2 DEF Unlink, WithPrev, WithNext
<1>4. /\ IsSlab(n, ahead)
      /\ ahead[t].next = IF t = prev THEN next ELSE ns[t].next
      /\ ahead[t].prev = ns[t].prev
      /\ t # prev => ahead[t] = ns[t]
  <2>1. CASE prev = None
    BY <1>1, <1>2, <2>1
  <2>2. CASE prev # None
    <3>1. prev \in 1..n
      BY <1>1, <2>2 DEF Link
    <3>2. PICK before \in 1..n : before = prev
      BY <3>1
    <3>3. PICK behind \in Link(n) : behind = next
      BY <1>1
    <3>4. PICK changed : changed = WithNext(ns, before, behind)
      OBVIOUS
    <3>5. /\ IsSlab(n, changed)
          /\ changed[t].next = IF t = before THEN behind ELSE ns[t].next
          /\ changed[t].prev = ns[t].prev
          /\ t # before => changed[t] = ns[t]
      BY <3>4, NextChanged
    <3>6. ahead = changed
      BY <1>2, <2>2, <3>2, <3>3, <3>4
    <3>. QED  BY <3>2, <3>3, <3>5, <3>6
  <2>. QED  BY <2>1, <2>2
<1>5. CASE next = None
  BY <1>1, <1>3, <1>4, <1>5
<1>6. CASE next # None
  <2>1. next \in 1..n
    BY <1>1, <1>6 DEF Link
  <2>2. PICK after2 : after2 = WithPrev(ahead, next, prev)
    OBVIOUS
  <2>3. /\ after2[t].prev = IF t = next THEN prev ELSE ahead[t].prev
        /\ after2[t].next = ahead[t].next
        /\ t # next => after2[t] = ahead[t]
    <3>1. PICK behind \in 1..n : behind = next
      BY <2>1
    <3>2. prev \in Link(n) /\ IsSlab(n, ahead)
      BY <1>1, <1>4
    <3>3. after2 = WithPrev(ahead, behind, prev)
      BY <2>2, <3>1
    <3>4. \A x \in 1..n :
             /\ WithPrev(ahead, behind, prev)[x].prev =
                    IF x = behind THEN prev ELSE ahead[x].prev
             /\ WithPrev(ahead, behind, prev)[x].next = ahead[x].next
             /\ x # behind => WithPrev(ahead, behind, prev)[x] = ahead[x]
      BY <3>2, PrevChanged
    <3>. QED  BY <3>1, <3>3, <3>4
  <2>4. Unlink(ns, level, s).nodes = after2
    BY <1>3, <1>6, <2>2
  <2>. QED  BY <1>4, <2>3, <2>4
<1>. QED  BY <1>5, <1>6

\* What RemoveAt leaves.
LEMMA RemovedAt ==
    ASSUME NEW S, NEW c \in Seq(S), NEW i \in 1..Len(c)
    PROVE  /\ RemoveAt(c, i) \in Seq(S)
           /\ Len(RemoveAt(c, i)) = Len(c) - 1
           /\ \A j \in 1..(Len(c) - 1) :
                 RemoveAt(c, i)[j] = IF j < i THEN c[j] ELSE c[j + 1]
<1>0. PICK k \in Nat : k = Len(c)
  OBVIOUS
<1>1. PICK a : a = SubSeq(c, 1, i - 1)
  OBVIOUS
<1>2. PICK b : b = SubSeq(c, i + 1, Len(c))
  OBVIOUS
<1>3. a \in Seq(S) /\ Len(a) = i - 1 /\ \A j \in 1..(i - 1) : a[j] = c[j]
  BY <1>0, <1>1
<1>4. /\ b \in Seq(S) /\ Len(b) = k - i
      /\ \A j \in 1..(k - i) : b[j] = c[j + i]
  BY <1>0, <1>2
<1>5. RemoveAt(c, i) = a \o b
  BY <1>1, <1>2 DEF RemoveAt
<1>6. /\ a \o b \in Seq(S) /\ Len(a \o b) = Len(a) + Len(b)
      /\ \A j \in 1..(Len(a) + Len(b)) :
            (a \o b)[j] = IF j <= Len(a) THEN a[j] ELSE b[j - Len(a)]
  BY <1>3, <1>4, ConcatProperties
<1>7. Len(a) + Len(b) = k - 1
  BY <1>0, <1>3, <1>4
<1>8. ASSUME NEW j \in 1..(k - 1)
      PROVE  (a \o b)[j] = IF j < i THEN c[j] ELSE c[j + 1]
  <2>1. CASE j < i
    BY <1>0, <1>3, <1>6, <1>7, <2>1
  <2>2. CASE ~(j < i)
    <3>1. j - (i - 1) \in 1..(k - i) /\ j - (i - 1) + i = j + 1
      BY <1>0, <2>2
    <3>2. (a \o b)[j] = b[j - (i - 1)]
      BY <1>0, <1>3, <1>6, <1>7, <2>2
    <3>. QED  BY <1>0, <1>4, <2>2, <3>1, <3>2
  <2>. QED  BY <2>1, <2>2
<1>. QED  BY <1>0, <1>5, <1>6, <1>7, <1>8

\* unlink takes a slot out of the list, wherever it stands.
LEMMA UnlinkRemoves ==
    ASSUME NEW n \in Nat, NEW ns, IsSlab(n, ns), NEW level,
           NEW c \in Seq(1..n), IsChain(ns, level, c), NEW i \in 1..Len(c)
    PROVE  LET list == Unlink(ns, level, c[i])
           IN  /\ IsChain(list.nodes, list.level, RemoveAt(c, i))
               /\ \A t \in 1..n : (\A j \in 1..Len(c) : c[j] # t)
                     => list.nodes[t] = ns[t]
<1>. DEFINE list == Unlink(ns, level, c[i])
<1>1. PICK k \in Nat : k = Len(c)
  OBVIOUS
<1>2. /\ \A j \in 1..k : c[j] \in 1..n /\ c[j] # None
      /\ \A j, m \in 1..k : c[j] = c[m] => j = m
      /\ i \in 1..k
  <2>1. DOMAIN c = 1..k /\ \A j \in 1..k : c[j] \in 1..n
    BY <1>1
  <2>2. \A j, m \in 1..k : c[j] = c[m] => j = m
    BY <2>1 DEF IsChain, IsInjective
  <2>. QED  BY <1>1, <2>1, <2>2, NoneIsNoSlot
<1>3. /\ level.head = IF k = 0 THEN None ELSE c[1]
      /\ level.tail = IF k = 0 THEN None ELSE c[k]
      /\ \A j \in 1..k :
            /\ ns[c[j]].prev = IF j = 1 THEN None ELSE c[j - 1]
            /\ ns[c[j]].next = IF j = k THEN None ELSE c[j + 1]
  BY <1>1 DEF IsChain
<1>4. PICK prev : prev = ns[c[i]].prev
  OBVIOUS
<1>5. PICK next : next = ns[c[i]].next
  OBVIOUS
<1>6. /\ prev = IF i = 1 THEN None ELSE c[i - 1]
      /\ next = IF i = k THEN None ELSE c[i + 1]
  BY <1>2, <1>3, <1>4, <1>5
<1>7. \A t \in 1..n :
         /\ list.nodes[t].prev = IF t = next THEN prev ELSE ns[t].prev
         /\ list.nodes[t].next = IF t = prev THEN next ELSE ns[t].next
         /\ t # prev /\ t # next => list.nodes[t] = ns[t]
  <2>. SUFFICES ASSUME NEW t \in 1..n
                PROVE  /\ list.nodes[t].prev = IF t = next THEN prev ELSE ns[t].prev
                       /\ list.nodes[t].next = IF t = prev THEN next ELSE ns[t].next
                       /\ t # prev /\ t # next => list.nodes[t] = ns[t]
    OBVIOUS
  <2>1. PICK s \in 1..n : s = c[i]
    BY <1>2
  <2>2. prev = ns[s].prev /\ next = ns[s].next
    BY <1>4, <1>5, <2>1
  <2>3. PICK after : after = Unlink(ns, level, s).nodes
    OBVIOUS
  <2>4. /\ after[t].prev = IF t = next THEN prev ELSE ns[t].prev
        /\ after[t].next = IF t = prev THEN next ELSE ns[t].next
        /\ t # prev /\ t # next => after[t] = ns[t]
    BY <2>2, <2>3, UnlinkLinks
  <2>. QED  BY <2>1, <2>3, <2>4
<1>8. list.level = [head |-> IF prev = None THEN next ELSE level.head,
                    tail |-> IF next = None THEN prev ELSE level.tail]
  BY <1>4, <1>5 DEF Unlink
<1>. HIDE DEF list
<1>9. PICK d : d = RemoveAt(c, i)
  OBVIOUS
<1>10. /\ d \in Seq(1..n) /\ Len(d) = k - 1
       /\ \A j \in 1..(k - 1) : d[j] = IF j < i THEN c[j] ELSE c[j + 1]
  <2>1. /\ d \in Seq(1..n) /\ Len(d) = Len(c) - 1
        /\ \A j \in 1..(Len(c) - 1) : d[j] = IF j < i THEN c[j] ELSE c[j + 1]
    BY <1>9, RemovedAt
  <2>. QED  BY <1>1, <2>1
<1>11. \A j \in 1..k : /\ c[j] = prev <=> j = i - 1
                       /\ c[j] = next <=> j = i + 1
  <2>. SUFFICES ASSUME NEW j \in 1..k
                PROVE  /\ c[j] = prev <=> j = i - 1
                       /\ c[j] = next <=> j = i + 1
    OBVIOUS
  <2>1. c[j] = prev <=> j = i - 1
    BY <1>2, <1>6
  <2>2. c[j] = next <=> j = i + 1
    BY <1>2, <1>6
  <2>. QED  BY <2>1, <2>2
<1>12. IsInjective(d)
  <2>1. DOMAIN d = 1..(k - 1)
    BY <1>10
  <2>2. ASSUME NEW j \in 1..(k - 1), NEW m \in 1..(k - 1), d[j] = d[m]
        PROVE  j = m
    <3>1. PICK a \in 1..k : a = IF j < i THEN j ELSE j + 1
      OBVIOUS
    <3>2. PICK b \in 1..k : b = IF m < i THEN m ELSE m + 1
      OBVIOUS
    <3>3. c[a] = c[b]
      BY <1>10, <2>2, <3>1, <3>2
    <3>4. a = b
      BY <1>2, <3>3
    <3>. QED  BY <3>1, <3>2, <3>4
  <2>. QED  BY <2>1, <2>2 DEF IsInjective
<1>13. /\ list.level.head = IF k - 1 = 0 THEN None ELSE d[1]
       /\ list.level.tail = IF k - 1 = 0 THEN None ELSE d[k - 1]
  <2>1. list.level.head = IF i = 1 THEN next ELSE c[1]
    BY <1>2, <1>3, <1>6, <1>8
  <2>2. list.level.tail = IF i = k THEN prev ELSE c[k]
    BY <1>2, <1>3, <1>6, <1>8
  <2>3. list.level.head = IF k - 1 = 0 THEN None ELSE d[1]
    <3>1. CASE k = 1
      BY <1>2, <1>6, <2>1, <3>1
    <3>2. CASE k # 1
      <4>1. 1 \in 1..(k - 1) /\ d[1] = IF 1 < i THEN c[1] ELSE c[2]
        BY <1>2, <1>10, <3>2
      <4>. QED  BY <1>2, <1>6, <2>1, <3>2, <4>1
    <3>. QED  BY <3>1, <3>2
  <2>4. list.level.tail = IF k - 1 = 0 THEN None ELSE d[k - 1]
    <3>1. CASE k = 1
      BY <1>2, <1>6, <2>2, <3>1
    <3>2. CASE k # 1
      <4>1. k - 1 \in 1..(k - 1) /\ k - 1 + 1 = k
            /\ d[k - 1] = IF k - 1 < i THEN c[k - 1] ELSE c[k]
        BY <1>2, <1>10, <3>2
      <4>. QED  BY <1>2, <1>6, <2>2, <3>2, <4>1
    <3>. QED  BY <3>1, <3>2
  <2>. QED  BY <2>3, <2>4
<1>14. ASSUME NEW j \in 1..(k - 1)
       PROVE  /\ list.nodes[d[j]].prev = IF j = 1 THEN None ELSE d[j - 1]
              /\ list.nodes[d[j]].next = IF j = k - 1 THEN None ELSE d[j + 1]
  <2>1. PICK a \in 1..k : a = IF j < i THEN j ELSE j + 1
    OBVIOUS
  <2>2. d[j] = c[a] /\ c[a] \in 1..n /\ a # i
    BY <1>2, <1>10, <2>1, SMTT(20)
  <2>3. /\ list.nodes[d[j]].prev = IF a = i + 1 THEN prev ELSE ns[c[a]].prev
        /\ list.nodes[d[j]].next = IF a = i - 1 THEN next ELSE ns[c[a]].next
    BY <1>7, <1>11, <2>2
  <2>4. list.nodes[d[j]].prev = IF j = 1 THEN None ELSE d[j - 1]
    <3>1. CASE j = 1
      <4>1. a = 1 \/ (a = 2 /\ i = 1)
        BY <1>2, <2>1, <3>1
      <4>. QED  BY <1>2, <1>3, <1>6, <2>2, <2>3, <3>1, <4>1
    <3>2. CASE j # 1
      <4>1. j - 1 \in 1..(k - 1) /\ (j - 1) + 1 = j
        BY <3>2
      <4>2. d[j - 1] = IF j - 1 < i THEN c[j - 1] ELSE c[j]
        BY <1>10, <4>1
      <4>3. ns[c[a]].prev = IF a = 1 THEN None ELSE c[a - 1]
        BY <1>3
      <4>4. CASE j < i
        <5>1. a = j /\ j - 1 < i /\ a # i + 1 /\ a # 1
          BY <1>2, <2>1, <3>2, <4>4
        <5>. QED  BY <2>3, <3>2, <4>2, <4>3, <5>1
      <4>5. CASE j = i
        <5>1. a = i + 1 /\ i # 1 /\ j - 1 < i
          BY <1>2, <2>1, <3>2, <4>5
        <5>. QED  BY <1>6, <2>3, <3>2, <4>2, <4>5, <5>1
      <4>6. CASE j > i
        <5>1. a = j + 1 /\ ~(j - 1 < i) /\ a # i + 1 /\ a # 1 /\ a - 1 = j
          BY <1>2, <2>1, <3>2, <4>6
        <5>. QED  BY <2>3, <3>2, <4>2, <4>3, <5>1
      <4>. QED  BY <1>2, <4>4, <4>5, <4>6
    <3>. QED  BY <3>1, <3>2
  <2>5. list.nodes[d[j]].next = IF j = k - 1 THEN None ELSE d[j + 1]
    <3>1. CASE j = k - 1
      <4>1. a = k \/ (a = k - 1 /\ i = k)
        BY <1>2, <2>1, <3>1
      <4>2. a = k => a # i - 1
        BY <1>2
      <4>. QED  BY <1>2, <1>3, <1>6, <2>2, <2>3, <3>1, <4>1, <4>2
    <3>2. CASE j # k - 1
      <4>1. j + 1 \in 1..(k - 1)
        BY <3>2
      <4>2. d[j + 1] = IF j + 1 < i THEN c[j + 1] ELSE c[j + 2]
        BY <1>10, <4>1
      <4>3. ns[c[a]].next = IF a = k THEN None ELSE c[a + 1]
        BY <1>3
      <4>4. CASE j + 1 < i
        <5>1. a = j /\ a # i - 1 /\ a # k
          BY <1>2, <2>1, <3>2, <4>4
        <5>. QED  BY <2>3, <3>2, <4>2, <4>3, <4>4, <5>1
      <4>5. CASE j + 1 = i
        <5>1. a = i - 1 /\ i # k /\ ~(j + 1 < i) /\ j + 2 = i + 1
          BY <1>2, <2>1, <3>2, <4>5
        <5>. QED  BY <1>6, <2>3, <3>2, <4>2, <4>5, <5>1
      <4>6. CASE j + 1 > i
        <5>1. a = j + 1 /\ ~(j + 1 < i) /\ a # i - 1 /\ a # k /\ a + 1 = j + 2
          BY <1>2, <2>1, <3>2, <4>6
        <5>. QED  BY <2>3, <3>2, <4>2, <4>3, <5>1
      <4>. QED  BY <1>2, <4>4, <4>5, <4>6
    <3>. QED  BY <3>1, <3>2
  <2>. QED  BY <2>4, <2>5
<1>15. IsChain(list.nodes, list.level, d)
  BY <1>10, <1>12, <1>13, <1>14 DEF IsChain
<1>16. \A t \in 1..n : (\A j \in 1..k : c[j] # t) => list.nodes[t] = ns[t]
  <2>1. \A t \in 1..n : (\A j \in 1..k : c[j] # t) => t # prev /\ t # next
    <3>1. i # 1 => i - 1 \in 1..k
      BY <1>2
    <3>2. i # k => i + 1 \in 1..k
      BY <1>2
    <3>3. \A t \in 1..n : t # None
      BY NoneIsNoSlot
    <3>. QED  BY <1>6, <3>1, <3>2, <3>3
  <2>. QED  BY <1>7, <2>1
<1>. QED  BY <1>1, <1>9, <1>15, <1>16 DEF list

----------------------------------------------------------------------------
(* The lists of the slab, as an invariant *)

\* The list c holds what the index has at a price.
Holds(map, price, c) ==
    /\ \A i \in 1..Len(c) : \E id \in DOMAIN map :
          map[id].price = price /\ map[id].slot = c[i]
    /\ \A id \in DOMAIN map :
          map[id].price = price => \E i \in 1..Len(c) : c[i] = map[id].slot

Linked ==
    /\ DOMAIN ends \subseteq Prices
    /\ \A id \in DOMAIN index : index[id].price \in Prices
    /\ \A price \in Prices :
          /\ Slots(price) \in Seq(1..Len(nodes))
          /\ IsChain(nodes, LevelAt(price), Slots(price))
          /\ Holds(index, price, Slots(price))

WalksFindChains ==
    nodes \in Seq(NodeOf(Len(nodes))) =>
        \A price \in Prices : \A c \in Seq(1..Len(nodes)) :
            IsChain(nodes, LevelAt(price), c) => Slots(price) = c

LEMMA ChainsAreFound == WalksFindChains
BY SlotsFollow DEF WalksFindChains

LEMMA ChainsAreFoundNext == WalksFindChains'
BY ChainsAreFound, PTL

\* The invariant after a step, from the lists it leaves.
LEMMA LinkedNext ==
    ASSUME nodes' \in Seq(NodeOf(Len(nodes'))),
           DOMAIN ends' \subseteq Prices,
           \A id \in DOMAIN index' : index'[id].price \in Prices,
           NEW chains,
           \A price \in Prices :
              /\ chains[price] \in Seq(1..Len(nodes'))
              /\ IsChain(nodes', LevelAt(price)', chains[price])
              /\ Holds(index', price, chains[price])
    PROVE  Linked' /\ \A price \in Prices : Slots(price)' = chains[price]
<1>1. \A price \in Prices : Slots(price)' = chains[price]
  BY ChainsAreFoundNext DEF WalksFindChains
<1>2. \A price \in Prices :
         /\ Slots(price)' \in Seq(1..Len(nodes'))
         /\ IsChain(nodes', LevelAt(price)', Slots(price)')
         /\ Holds(index', price, Slots(price)')
  BY <1>1
<1>. QED  BY <1>1, <1>2 DEF Linked

LEMMA ChainStays ==
    ASSUME NEW ns, NEW ms, NEW level, NEW c, IsChain(ns, level, c),
           \A i \in 1..Len(c) : ms[c[i]] = ns[c[i]]
    PROVE  IsChain(ms, level, c)
BY DEF IsChain

LEMMA ChainOfEnds ==
    ASSUME NEW ns, NEW a, NEW b, a.head = b.head, a.tail = b.tail,
           NEW c, IsChain(ns, a, c)
    PROVE  IsChain(ns, b, c)
BY DEF IsChain

\* No slot is in the lists of two levels.
LEMMA ChainsApart ==
    ASSUME SlabInv, Linked, NEW p \in Prices, NEW q \in Prices, p # q,
           NEW i \in 1..Len(Slots(p)), NEW j \in 1..Len(Slots(q))
    PROVE  Slots(p)[i] # Slots(q)[j]
<1>1. PICK a \in DOMAIN index :
         index[a].price = p /\ index[a].slot = Slots(p)[i]
  BY DEF Linked, Holds
<1>2. PICK b \in DOMAIN index :
         index[b].price = q /\ index[b].slot = Slots(q)[j]
  BY DEF Linked, Holds
<1>3. nodes[index[a].slot].id = a /\ nodes[index[b].slot].id = b
  BY Accounted
<1>. QED  BY <1>1, <1>2, <1>3

----------------------------------------------------------------------------
(* The ids in a list *)

Ids(ns, c) == [i \in 1..Len(c) |-> ns[c[i]].id]

LEMMA IdsTyped ==
    ASSUME NEW n \in Nat, NEW ns, IsSlab(n, ns), NEW c \in Seq(1..n)
    PROVE  /\ Ids(ns, c) \in Seq(Nat)
           /\ Len(Ids(ns, c)) = Len(c)
           /\ \A i \in 1..Len(c) : Ids(ns, c)[i] = ns[c[i]].id
<1>1. \A i \in 1..Len(c) : ns[c[i]].id \in Nat
  <2>1. \A t \in 1..n : ns[t] \in NodeOf(n)
    BY DEF IsSlab
  <2>2. \A i \in 1..Len(c) : c[i] \in 1..n
    OBVIOUS
  <2>. QED  BY <2>1, <2>2 DEF NodeOf
<1>2. Ids(ns, c) \in [1..Len(c) -> Nat]
  BY <1>1 DEF Ids
<1>3. Len(c) \in Nat
  OBVIOUS
<1>4. Ids(ns, c) \in Seq(Nat)
  BY <1>2, <1>3
<1>5. DOMAIN Ids(ns, c) = 1..Len(c)
  BY <1>2
<1>6. Len(Ids(ns, c)) = Len(c)
  BY <1>3, <1>4, <1>5, LenProperties
<1>. QED  BY <1>4, <1>6 DEF Ids

LEMMA IdsSame ==
    ASSUME NEW ns, NEW ms, NEW c, \A i \in 1..Len(c) : ms[c[i]].id = ns[c[i]].id
    PROVE  Ids(ms, c) = Ids(ns, c)
BY DEF Ids

LEMMA IdsAppended ==
    ASSUME NEW n \in Nat, NEW ns, IsSlab(n, ns), NEW c \in Seq(1..n),
           NEW s \in 1..n
    PROVE  Ids(ns, Append(c, s)) = Append(Ids(ns, c), ns[s].id)
<1>1. PICK k \in Nat : k = Len(c)
  OBVIOUS
<1>2. PICK d : d = Append(c, s)
  OBVIOUS
<1>3. /\ d \in Seq(1..n) /\ Len(d) = k + 1
      /\ d[k + 1] = s /\ \A i \in 1..k : d[i] = c[i]
  BY <1>1, <1>2
<1>4. PICK q : q = Ids(ns, c)
  OBVIOUS
<1>5. q \in Seq(Nat) /\ Len(q) = k /\ \A i \in 1..k : q[i] = ns[c[i]].id
  BY <1>1, <1>4, IdsTyped
<1>6. PICK r : r = Ids(ns, d)
  OBVIOUS
<1>7. /\ r \in Seq(Nat) /\ Len(r) = k + 1
      /\ \A i \in 1..(k + 1) : r[i] = ns[d[i]].id
  <2>1. /\ r \in Seq(Nat) /\ Len(r) = Len(d)
        /\ \A i \in 1..Len(d) : r[i] = ns[d[i]].id
    <3>1. d \in Seq(1..n)
      BY <1>3
    <3>. QED  BY <1>6, <3>1, IdsTyped
  <2>. QED  BY <1>3, <2>1
<1>8. ns[s].id \in Nat
  <2>1. k + 1 \in 1..(k + 1)
    OBVIOUS
  <2>2. r[k + 1] \in Nat
    BY <1>7, <2>1
  <2>. QED  BY <1>3, <1>7, <2>1, <2>2
<1>9. PICK a : a = Append(q, ns[s].id)
  OBVIOUS
<1>10. /\ a \in Seq(Nat) /\ Len(a) = k + 1
       /\ a[k + 1] = ns[s].id /\ \A i \in 1..k : a[i] = q[i]
  BY <1>5, <1>8, <1>9, SMTT(20)
<1>11. ASSUME NEW i \in 1..(k + 1) PROVE r[i] = a[i]
  <2>1. CASE i = k + 1
    BY <2>1, <1>3, <1>7, <1>10
  <2>2. CASE i # k + 1
    <3>1. i \in 1..k
      BY <2>2
    <3>. QED  BY <3>1, <1>3, <1>5, <1>7, <1>10
  <2>. QED  BY <2>1, <2>2
<1>12. r = a
  BY <1>7, <1>10, <1>11, SeqEqual
<1>. QED  BY <1>2, <1>4, <1>6, <1>9, <1>12

LEMMA IdsRemoved ==
    ASSUME NEW n \in Nat, NEW ns, IsSlab(n, ns), NEW c \in Seq(1..n),
           NEW i \in 1..Len(c)
    PROVE  Ids(ns, RemoveAt(c, i)) = RemoveAt(Ids(ns, c), i)
<1>1. PICK k \in Nat : k = Len(c)
  OBVIOUS
<1>2. PICK d : d = RemoveAt(c, i)
  OBVIOUS
<1>3. /\ d \in Seq(1..n) /\ Len(d) = k - 1
      /\ \A j \in 1..(k - 1) : d[j] = IF j < i THEN c[j] ELSE c[j + 1]
  BY <1>1, <1>2, RemovedAt
<1>4. PICK q : q = Ids(ns, c)
  OBVIOUS
<1>5. /\ q \in Seq(Nat) /\ Len(q) = k /\ i \in 1..Len(q)
      /\ \A j \in 1..k : q[j] = ns[c[j]].id
  BY <1>1, <1>4, IdsTyped
<1>6. PICK r : r = Ids(ns, d)
  OBVIOUS
<1>7. /\ r \in Seq(Nat) /\ Len(r) = k - 1
      /\ \A j \in 1..(k - 1) : r[j] = ns[d[j]].id
  <2>1. /\ r \in Seq(Nat) /\ Len(r) = Len(d)
        /\ \A j \in 1..Len(d) : r[j] = ns[d[j]].id
    <3>1. d \in Seq(1..n)
      BY <1>3
    <3>. QED  BY <1>6, <3>1, IdsTyped
  <2>. QED  BY <1>3, <2>1
<1>8. PICK a : a = RemoveAt(q, i)
  OBVIOUS
<1>9. /\ a \in Seq(Nat) /\ Len(a) = k - 1
      /\ \A j \in 1..(k - 1) : a[j] = IF j < i THEN q[j] ELSE q[j + 1]
  BY <1>5, <1>8, RemovedAt
<1>10. ASSUME NEW j \in 1..(k - 1) PROVE r[j] = a[j]
  <2>1. j \in 1..k /\ j + 1 \in 1..k
    OBVIOUS
  <2>. QED  BY <1>3, <1>5, <1>7, <1>9, <2>1
<1>11. r = a
  BY <1>7, <1>9, <1>10, SeqEqual
<1>. QED  BY <1>2, <1>4, <1>6, <1>8, <1>11

\* A refill moves the head behind the rest.
LEMMA FirstRemoved ==
    ASSUME NEW S, NEW q \in Seq(S), q # <<>>
    PROVE  RemoveAt(q, 1) = Tail(q) /\ q[1] = Head(q)
<1>1. PICK k \in Nat \ {0} : k = Len(q)
  BY EmptySeq
<1>2. 1 \in 1..Len(q)
  BY <1>1
<1>3. PICK a : a = RemoveAt(q, 1)
  OBVIOUS
<1>4. /\ a \in Seq(S) /\ Len(a) = k - 1
      /\ \A j \in 1..(k - 1) : a[j] = q[j + 1]
  BY <1>1, <1>2, <1>3, RemovedAt
<1>5. PICK b : b = Tail(q)
  OBVIOUS
<1>6. /\ b \in Seq(S) /\ Len(b) = k - 1
      /\ \A j \in 1..(k - 1) : b[j] = q[j + 1]
  BY <1>1, <1>5
<1>7. a = b
  BY <1>4, <1>6, SeqEqual
<1>. QED  BY <1>3, <1>5, <1>7

LEMMA QueuesAreIds ==
    Linked => \A price \in Prices : QueueOf(price) = Ids(nodes, Slots(price))
BY DEF Linked, QueueOf, Ids

----------------------------------------------------------------------------
(* What the calls do to the queues *)

LEMMA AllocKeeps ==
    ASSUME SlabInv, NEW id \in Nat, NEW slab,
           slab = Alloc([nodes |-> nodes, free |-> free], id)
    PROVE  \A t \in 1..Len(nodes) : t # slab.slot => slab.nodes[t] = nodes[t]
<1>. DEFINE node == [id |-> id, prev |-> None, next |-> None]
<1>1. nodes \in Seq(NodeOf(Len(nodes))) /\ DOMAIN nodes = 1..Len(nodes)
  BY DEF SlabInv, SlabTypeOK
<1>2. CASE free = <<>>
  <2>1. slab.nodes = Append(nodes, node)
    BY <1>2 DEF Alloc
  <2>. HIDE DEF node
  <2>2. \A t \in 1..Len(nodes) : Append(nodes, node)[t] = nodes[t]
    BY <1>1
  <2>. QED  BY <2>1, <2>2
<1>3. CASE free # <<>>
  <2>1. slab.nodes = [nodes EXCEPT ![slab.slot] = node]
    BY <1>3 DEF Alloc
  <2>. HIDE DEF node
  <2>. QED  BY <2>1, <1>1
<1>. QED  BY <1>2, <1>3

\* Facts of the lists, in the form the steps use them.
LEMMA ListFacts ==
    ASSUME SlabInv, Linked, NEW p \in Prices
    PROVE  /\ IsSlab(Len(nodes), nodes) /\ Len(nodes) \in Nat
           /\ Slots(p) \in Seq(1..Len(nodes))
           /\ IsChain(nodes, LevelAt(p), Slots(p))
           /\ \A i \in 1..Len(Slots(p)) : Slots(p)[i] \in 1..Len(nodes)
           /\ p \in DOMAIN ends <=> Len(Slots(p)) # 0
           /\ p \in DOMAIN ends => LevelAt(p) = ends[p]
<1>1. IsSlab(Len(nodes), nodes) /\ Len(nodes) \in Nat
  BY DEF SlabInv, SlabTypeOK, IsSlab
<1>2. /\ Slots(p) \in Seq(1..Len(nodes))
      /\ IsChain(nodes, LevelAt(p), Slots(p))
  BY DEF Linked
<1>3. \A i \in 1..Len(Slots(p)) : Slots(p)[i] \in 1..Len(nodes)
  BY <1>2
<1>4. p \in DOMAIN ends <=> LevelAt(p).head # None
  BY DEF SlabInv, SlabTypeOK, LevelAt, EmptyLevel
<1>5. LevelAt(p).head = None <=> Len(Slots(p)) = 0
  <2>1. LevelAt(p).head = IF Len(Slots(p)) = 0 THEN None ELSE Slots(p)[1]
    BY <1>2 DEF IsChain
  <2>2. Len(Slots(p)) \in Nat
    BY <1>2
  <2>3. Len(Slots(p)) # 0 => Slots(p)[1] # None
    BY <1>3, <2>2, NoneIsNoSlot
  <2>. QED  BY <2>1, <2>3
<1>. QED  BY <1>1, <1>2, <1>3, <1>4, <1>5 DEF LevelAt

LEMMA EnterQueues ==
    ASSUME SlabInv, Linked, NEW price \in Prices, Enter(price)
    PROVE  /\ Linked'
           /\ \A p \in Prices :
                 QueueOf(p)' = IF p = price THEN Append(QueueOf(p), entered')
                               ELSE QueueOf(p)
<1>1. PICK id : id = entered + 1
  OBVIOUS
<1>2. PICK slab : slab = Alloc([nodes |-> nodes, free |-> free], id)
  OBVIOUS
<1>3. PICK list : list = LinkBack(slab.nodes, LevelAt(price), slab.slot)
  OBVIOUS
<1>4. /\ entered' = id
      /\ nodes' = list.nodes
      /\ ends' = Put(ends, price, list.level)
      /\ index' = Put(index, id, [price |-> price, slot |-> slab.slot])
  BY <1>1, <1>2, <1>3 DEF Enter
<1>5. id \in Nat /\ id \notin DOMAIN index
  BY <1>1 DEF SlabInv, SlabTypeOK
<1>6. PICK old \in Nat : old = Len(nodes)
  BY Accounted
<1>7. PICK n : n = Len(slab.nodes)
  OBVIOUS
<1>8. /\ n \in Nat /\ old <= n
      /\ IsSlab(n, slab.nodes)
      /\ slab.slot \in 1..n
      /\ slab.nodes[slab.slot].id = id
      /\ \A k \in DOMAIN index : slab.slot # index[k].slot
  BY <1>2, <1>5, <1>6, <1>7, AllocGives DEF IsSlab
<1>9. \A t \in 1..old : t # slab.slot => slab.nodes[t] = nodes[t]
  BY <1>2, <1>5, <1>6, AllocKeeps
<1>10. \A p \in Prices : \A i \in 1..Len(Slots(p)) :
          Slots(p)[i] \in 1..old /\ Slots(p)[i] # slab.slot
  <2>1. \A p \in Prices : \A i \in 1..Len(Slots(p)) :
           \E k \in DOMAIN index : index[k].slot = Slots(p)[i]
    BY DEF Linked, Holds
  <2>. QED  BY <1>6, <1>8, <2>1, ListFacts
<1>11. \A p \in Prices : /\ Slots(p) \in Seq(1..n)
                         /\ IsChain(slab.nodes, LevelAt(p), Slots(p))
  <2>. SUFFICES ASSUME NEW p \in Prices
                PROVE  /\ Slots(p) \in Seq(1..n)
                       /\ IsChain(slab.nodes, LevelAt(p), Slots(p))
    OBVIOUS
  <2>1. Slots(p) \in Seq(1..old) /\ IsChain(nodes, LevelAt(p), Slots(p))
    BY <1>6, ListFacts
  <2>2. 1..old \subseteq 1..n
    BY <1>8
  <2>3. Slots(p) \in Seq(1..n)
    BY <2>1, <2>2, SeqWidens
  <2>4. \A i \in 1..Len(Slots(p)) : slab.nodes[Slots(p)[i]] = nodes[Slots(p)[i]]
    BY <1>9, <1>10
  <2>. QED  BY <2>1, <2>3, <2>4, ChainStays
<1>12. /\ IsChain(nodes', list.level, Append(Slots(price), slab.slot))
       /\ \A t \in 1..n :
             t # slab.slot /\ (\A i \in 1..Len(Slots(price)) : Slots(price)[i] # t)
                => nodes'[t] = slab.nodes[t]
  <2>1. PICK c \in Seq(1..n) : c = Slots(price)
    BY <1>11
  <2>2. IsChain(slab.nodes, LevelAt(price), c) /\ \A i \in 1..Len(c) : c[i] # slab.slot
    BY <1>10, <1>11, <2>1
  <2>3. /\ IsChain(list.nodes, list.level, Append(c, slab.slot))
        /\ \A t \in 1..n : t # slab.slot /\ (\A i \in 1..Len(c) : c[i] # t)
              => list.nodes[t] = slab.nodes[t]
    BY <1>3, <1>8, <2>2, LinkBackAppends, SMTT(20)
  <2>. QED  BY <1>4, <2>1, <2>3
<1>13. \A p \in Prices : p # price =>
          \A i \in 1..Len(Slots(p)) : nodes'[Slots(p)[i]] = slab.nodes[Slots(p)[i]]
  <2>1. \A p \in Prices : p # price =>
           \A i \in 1..Len(Slots(p)), j \in 1..Len(Slots(price)) :
              Slots(price)[j] # Slots(p)[i]
    BY ChainsApart
  <2>2. \A p \in Prices : \A i \in 1..Len(Slots(p)) :
           Slots(p)[i] \in 1..n /\ Slots(p)[i] # slab.slot
    BY <1>8, <1>10
  <2>. QED  BY <1>12, <2>1, <2>2
<1>14. IsSlab(n, nodes') /\ \A t \in 1..n : nodes'[t].id = slab.nodes[t].id
  <2>1. ListOK(old, LevelAt(price))
    BY <1>6 DEF SlabInv, SlabTypeOK, LevelAt, EmptyLevel, ListOK, ListOf, Link
  <2>2. ListOK(n, LevelAt(price))
    BY <1>8, <2>1, ListsGrow
  <2>3. PICK level : level = LevelAt(price)
    OBVIOUS
  <2>4. SameIds(n, slab.nodes, LinkBack(slab.nodes, level, slab.slot).nodes)
    <3>1. slab.nodes \in Seq(NodeOf(n)) /\ Len(slab.nodes) = n
      BY <1>8 DEF IsSlab
    <3>. QED  BY <1>8, <2>2, <2>3, <3>1, LinkBackKeeps
  <2>. QED  BY <1>3, <1>4, <2>3, <2>4 DEF SameIds, IsSlab
<1>15. Len(nodes') = n /\ nodes' \in Seq(NodeOf(Len(nodes')))
  BY <1>14 DEF IsSlab
<1>16. PICK chains : chains = [p \in Prices |->
          IF p = price THEN Append(Slots(p), slab.slot) ELSE Slots(p)]
  OBVIOUS
<1>17. chains[price] = Append(Slots(price), slab.slot)
       /\ \A p \in Prices : p # price => chains[p] = Slots(p)
  BY <1>16
<1>18. LevelAt(price)' = list.level
       /\ \A p \in Prices : p # price => LevelAt(p)' = LevelAt(p)
  BY <1>4 DEF LevelAt, Put
<1>19. \A p \in Prices : chains[p] \in Seq(1..n) /\ IsChain(nodes', LevelAt(p)', chains[p])
  <2>1. chains[price] \in Seq(1..n)
    BY <1>8, <1>11, <1>17
  <2>2. IsChain(nodes', LevelAt(price)', chains[price])
    BY <1>12, <1>17, <1>18
  <2>3. ASSUME NEW p \in Prices, p # price
        PROVE  chains[p] \in Seq(1..n) /\ IsChain(nodes', LevelAt(p)', chains[p])
    <3>1. IsChain(nodes', LevelAt(p), Slots(p))
      BY <1>11, <1>13, <2>3, ChainStays
    <3>. QED  BY <1>11, <1>17, <1>18, <2>3, <3>1
  <2>. QED  BY <2>1, <2>2, <2>3
<1>20. /\ DOMAIN index' = DOMAIN index \cup {id}
       /\ index'[id].price = price /\ index'[id].slot = slab.slot
       /\ \A k \in DOMAIN index : index'[k] = index[k]
  BY <1>4, <1>5 DEF Put
<1>21. \A p \in Prices : Holds(index', p, chains[p])
  <2>1. ASSUME NEW p \in Prices, p # price
        PROVE  Holds(index', p, chains[p])
    <3>1. Holds(index, p, Slots(p))
      BY DEF Linked
    <3>2. chains[p] = Slots(p)
      BY <1>17, <2>1
    <3>3. ASSUME NEW i \in 1..Len(Slots(p))
          PROVE  \E a \in DOMAIN index' :
                    index'[a].price = p /\ index'[a].slot = Slots(p)[i]
      <4>1. PICK a \in DOMAIN index :
               index[a].price = p /\ index[a].slot = Slots(p)[i]
        BY <3>1 DEF Holds
      <4>2. a \in DOMAIN index' /\ index'[a] = index[a]
        BY <1>20
      <4>. QED  BY <4>1, <4>2
    <3>4. ASSUME NEW a \in DOMAIN index', index'[a].price = p
          PROVE  \E i \in 1..Len(Slots(p)) : Slots(p)[i] = index'[a].slot
      <4>1. a \in DOMAIN index /\ index'[a] = index[a]
        BY <1>20, <2>1, <3>4
      <4>. QED  BY <3>1, <3>4, <4>1 DEF Holds
    <3>. QED  BY <3>2, <3>3, <3>4 DEF Holds
  <2>2. Holds(index', price, chains[price])
    <3>1. PICK k \in Nat : k = Len(Slots(price))
      BY <1>11
    <3>2. PICK c : c = chains[price]
      OBVIOUS
    <3>3. /\ Len(c) = k + 1 /\ c[k + 1] = slab.slot
          /\ \A i \in 1..k : c[i] = Slots(price)[i]
      BY <1>11, <1>17, <3>1, <3>2
    <3>4. /\ \A i \in 1..k : \E a \in DOMAIN index :
                index[a].price = price /\ index[a].slot = Slots(price)[i]
          /\ \A a \in DOMAIN index : index[a].price = price =>
                \E i \in 1..k : Slots(price)[i] = index[a].slot
      BY <3>1 DEF Linked, Holds
    <3>5. \A i \in 1..(k + 1) : \E a \in DOMAIN index' :
             index'[a].price = price /\ index'[a].slot = c[i]
      <4>1. ASSUME NEW i \in 1..k
            PROVE  \E a \in DOMAIN index' :
                      index'[a].price = price /\ index'[a].slot = c[i]
        <5>1. PICK a \in DOMAIN index :
                 index[a].price = price /\ index[a].slot = Slots(price)[i]
          BY <3>4
        <5>2. a \in DOMAIN index' /\ index'[a] = index[a]
          BY <1>20
        <5>. QED  BY <3>3, <5>1, <5>2
      <4>. QED  BY <1>20, <3>3, <4>1
    <3>6. \A a \in DOMAIN index' : index'[a].price = price =>
             \E i \in 1..(k + 1) : c[i] = index'[a].slot
      <4>1. k + 1 \in 1..(k + 1) /\ \A i \in 1..k : i \in 1..(k + 1)
        OBVIOUS
      <4>. QED  BY <1>20, <3>3, <3>4, <4>1
    <3>. QED  BY <3>2, <3>3, <3>5, <3>6 DEF Holds
  <2>. QED  BY <2>1, <2>2
<1>22. DOMAIN ends' \subseteq Prices
       /\ \A k \in DOMAIN index' : index'[k].price \in Prices
  BY <1>4, <1>20 DEF Linked, Put
<1>23. Linked' /\ \A p \in Prices : Slots(p)' = chains[p]
  BY <1>15, <1>19, <1>21, <1>22, LinkedNext
<1>24. \A p \in Prices : QueueOf(p)' = Ids(nodes', chains[p])
  <2>1. \A p \in Prices : QueueOf(p)' = [i \in DOMAIN chains[p] |-> nodes'[chains[p][i]].id]
    BY <1>23 DEF QueueOf
  <2>2. \A p \in Prices : DOMAIN chains[p] = 1..Len(chains[p])
    BY <1>19
  <2>. QED  BY <2>1, <2>2 DEF Ids
<1>25. \A p \in Prices : Ids(nodes', Slots(p)) = Ids(nodes, Slots(p))
  <2>1. \A p \in Prices : \A i \in 1..Len(Slots(p)) :
           nodes'[Slots(p)[i]].id = nodes[Slots(p)[i]].id
    BY <1>8, <1>9, <1>10, <1>14
  <2>. QED  BY <2>1, IdsSame
<1>26. \A p \in Prices : p # price => QueueOf(p)' = QueueOf(p)
  BY <1>17, <1>24, <1>25, QueuesAreIds
<1>27. QueueOf(price)' = Append(QueueOf(price), entered')
  <2>1. Ids(nodes', Append(Slots(price), slab.slot))
           = Append(Ids(nodes', Slots(price)), nodes'[slab.slot].id)
    BY <1>8, <1>11, <1>14, IdsAppended
  <2>2. nodes'[slab.slot].id = entered'
    BY <1>4, <1>8, <1>14
  <2>. QED  BY <1>17, <1>24, <1>25, <2>1, <2>2, QueuesAreIds
<1>. QED  BY <1>23, <1>26, <1>27

LEMMA LeaveQueues ==
    ASSUME SlabInv, Linked, NEW id \in DOMAIN index, Leave(id)
    PROVE  /\ Linked'
           /\ \E price \in Prices : \E place \in DOMAIN QueueOf(price) :
                 \A p \in Prices :
                    QueueOf(p)' = IF p = price THEN RemoveAt(QueueOf(p), place)
                                  ELSE QueueOf(p)
<1>1. PICK price \in Prices : price = index[id].price
  BY DEF Linked
<1>2. PICK slot : slot = index[id].slot
  OBVIOUS
<1>3. PICK n \in Nat : n = Len(nodes)
  BY Accounted
<1>4. PICK c \in Seq(1..n) : c = Slots(price)
  BY <1>3, ListFacts
<1>5. PICK i \in 1..Len(c) : c[i] = slot
  BY <1>1, <1>2, <1>4 DEF Linked, Holds
<1>6. /\ IsSlab(n, nodes) /\ IsChain(nodes, LevelAt(price), c)
      /\ slot \in 1..n
      /\ price \in DOMAIN ends /\ LevelAt(price) = ends[price]
  <2>1. Len(c) # 0
    BY <1>5
  <2>. QED  BY <1>3, <1>4, <1>5, <2>1, ListFacts
<1>7. PICK list : list = Unlink(nodes, LevelAt(price), slot)
  OBVIOUS
<1>8. /\ nodes' = list.nodes
      /\ ends' = IF list.level.head = None
                 THEN Restrict(ends, DOMAIN ends \ {price})
                 ELSE [ends EXCEPT ![price] = list.level]
      /\ index' = Restrict(index, DOMAIN index \ {id})
  BY <1>1, <1>2, <1>6, <1>7 DEF Leave, Leaves
<1>9. PICK d : d = RemoveAt(c, i)
  OBVIOUS
<1>10. /\ IsChain(nodes', list.level, d)
       /\ \A t \in 1..n : (\A j \in 1..Len(c) : c[j] # t) => nodes'[t] = nodes[t]
  <2>1. PICK level : level = LevelAt(price)
    OBVIOUS
  <2>2. PICK after : after = Unlink(nodes, level, c[i])
    OBVIOUS
  <2>3. IsSlab(n, nodes) /\ IsChain(nodes, level, c)
    BY <1>6, <2>1
  <2>4. /\ IsChain(after.nodes, after.level, RemoveAt(c, i))
        /\ \A t \in 1..n : (\A j \in 1..Len(c) : c[j] # t)
              => after.nodes[t] = nodes[t]
    <3>1. n \in Nat /\ c \in Seq(1..n) /\ i \in 1..Len(c)
      OBVIOUS
    <3>2. /\ IsChain(Unlink(nodes, level, c[i]).nodes,
                     Unlink(nodes, level, c[i]).level, RemoveAt(c, i))
          /\ \A t \in 1..n : (\A j \in 1..Len(c) : c[j] # t)
                => Unlink(nodes, level, c[i]).nodes[t] = nodes[t]
      BY <2>3, <3>1, UnlinkRemoves
    <3>. QED  BY <2>2, <3>2
  <2>5. list = after
    BY <1>5, <1>7, <2>1, <2>2
  <2>. QED  BY <1>8, <1>9, <2>4, <2>5
<1>11. PICK k \in Nat : k = Len(c)
  BY <1>4
<1>12. /\ d \in Seq(1..n) /\ Len(d) = k - 1 /\ i \in 1..k
       /\ \A j \in 1..(k - 1) : d[j] = IF j < i THEN c[j] ELSE c[j + 1]
  BY <1>9, <1>11, RemovedAt
<1>13. IsSlab(n, nodes') /\ \A t \in 1..n : nodes'[t].id = nodes[t].id
  <2>1. PICK level : level = LevelAt(price)
    OBVIOUS
  <2>2. SameIds(n, nodes, Unlink(nodes, level, slot).nodes)
    <3>1. nodes \in Seq(NodeOf(n)) /\ Len(nodes) = n
      BY <1>6 DEF IsSlab
    <3>. QED  BY <1>6, <3>1, UnlinkKeeps
  <2>. QED  BY <1>7, <1>8, <2>1, <2>2 DEF SameIds, IsSlab
<1>14. Len(nodes') = n /\ nodes' \in Seq(NodeOf(Len(nodes')))
  BY <1>13 DEF IsSlab
<1>15. PICK chains : chains = [p \in Prices |-> IF p = price THEN d ELSE Slots(p)]
  OBVIOUS
<1>16. chains[price] = d /\ \A p \in Prices : p # price => chains[p] = Slots(p)
  BY <1>15
<1>17. \A p \in Prices : p # price => LevelAt(p)' = LevelAt(p)
  <2>1. CASE list.level.head = None
    <3>1. ends' = Restrict(ends, DOMAIN ends \ {price})
      BY <1>8, <2>1
    <3>2. DOMAIN ends' = DOMAIN ends \ {price}
          /\ \A p \in DOMAIN ends' : ends'[p] = ends[p]
      BY <3>1 DEF Restrict
    <3>. QED  BY <3>2 DEF LevelAt
  <2>2. CASE list.level.head # None
    <3>1. ends' = [ends EXCEPT ![price] = list.level]
      BY <1>8, <2>2
    <3>2. DOMAIN ends' = DOMAIN ends
          /\ \A p \in DOMAIN ends' : p # price => ends'[p] = ends[p]
      BY <3>1
    <3>. QED  BY <3>2 DEF LevelAt
  <2>. QED  BY <2>1, <2>2
<1>18. IsChain(nodes', LevelAt(price)', d)
  <2>1. CASE list.level.head = None
    <3>1. LevelAt(price)' = EmptyLevel
      BY <1>8, <2>1 DEF LevelAt, Restrict
    <3>2. list.level.tail = None
      <4>1. /\ list.level.head = IF Len(d) = 0 THEN None ELSE d[1]
            /\ list.level.tail = IF Len(d) = 0 THEN None ELSE d[Len(d)]
        BY <1>10 DEF IsChain
      <4>2. Len(d) # 0 => d[1] # None
        BY <1>12, NoneIsNoSlot
      <4>. QED  BY <2>1, <4>1, <4>2
    <3>. QED  BY <1>10, <2>1, <3>1, <3>2, ChainOfEnds DEF EmptyLevel
  <2>2. CASE list.level.head # None
    <3>1. LevelAt(price)' = list.level
      BY <1>6, <1>8, <2>2 DEF LevelAt
    <3>. QED  BY <1>10, <3>1
  <2>. QED  BY <2>1, <2>2
<1>19. \A p \in Prices : p # price =>
          \A j \in 1..Len(Slots(p)) : nodes'[Slots(p)[j]] = nodes[Slots(p)[j]]
  <2>1. \A p \in Prices : p # price =>
           \A j \in 1..Len(Slots(p)), m \in 1..Len(c) : c[m] # Slots(p)[j]
    BY <1>4, ChainsApart
  <2>2. \A p \in Prices : \A j \in 1..Len(Slots(p)) : Slots(p)[j] \in 1..n
    BY <1>3, ListFacts
  <2>. QED  BY <1>10, <2>1, <2>2
<1>20. \A p \in Prices : chains[p] \in Seq(1..n) /\ IsChain(nodes', LevelAt(p)', chains[p])
  <2>1. ASSUME NEW p \in Prices, p # price
        PROVE  chains[p] \in Seq(1..n) /\ IsChain(nodes', LevelAt(p)', chains[p])
    <3>1. Slots(p) \in Seq(1..n) /\ IsChain(nodes, LevelAt(p), Slots(p))
      BY <1>3, ListFacts
    <3>2. IsChain(nodes', LevelAt(p), Slots(p))
      BY <1>19, <2>1, <3>1, ChainStays
    <3>. QED  BY <1>16, <1>17, <2>1, <3>1, <3>2
  <2>. QED  BY <1>12, <1>16, <1>18, <2>1
<1>21. /\ DOMAIN index' = DOMAIN index \ {id}
       /\ \A a \in DOMAIN index' : index'[a] = index[a]
  BY <1>8 DEF Restrict
<1>22. \A a \in DOMAIN index : index[a].slot = slot => a = id
  BY <1>2, Accounted
<1>23. \A p \in Prices : Holds(index', p, chains[p])
  <2>1. ASSUME NEW p \in Prices, p # price
        PROVE  Holds(index', p, chains[p])
    <3>1. Holds(index, p, Slots(p))
      BY DEF Linked
    <3>2. ASSUME NEW j \in 1..Len(Slots(p))
          PROVE  \E a \in DOMAIN index' :
                    index'[a].price = p /\ index'[a].slot = Slots(p)[j]
      <4>1. PICK a \in DOMAIN index :
               index[a].price = p /\ index[a].slot = Slots(p)[j]
        BY <3>1 DEF Holds
      <4>2. a \in DOMAIN index' /\ index'[a] = index[a]
        BY <1>1, <1>21, <2>1, <4>1
      <4>. QED  BY <4>1, <4>2
    <3>3. ASSUME NEW a \in DOMAIN index', index'[a].price = p
          PROVE  \E j \in 1..Len(Slots(p)) : Slots(p)[j] = index'[a].slot
      <4>1. a \in DOMAIN index /\ index'[a] = index[a]
        BY <1>21
      <4>. QED  BY <3>1, <3>3, <4>1 DEF Holds
    <3>4. Holds(index', p, Slots(p))
      BY <3>2, <3>3 DEF Holds
    <3>. QED  BY <1>16, <2>1, <3>4
  <2>2. Holds(index', price, d)
    <3>0. /\ \A j \in 1..k : \E a \in DOMAIN index :
                index[a].price = price /\ index[a].slot = c[j]
          /\ \A a \in DOMAIN index : index[a].price = price =>
                \E j \in 1..k : c[j] = index[a].slot
      BY <1>4, <1>11 DEF Linked, Holds
    <3>1. \A j, m \in 1..k : c[j] = c[m] => j = m
      <4>1. DOMAIN c = 1..k
        BY <1>11
      <4>. QED  BY <1>6, <4>1 DEF IsChain, IsInjective
    <3>2. ASSUME NEW j \in 1..(k - 1)
          PROVE  \E a \in DOMAIN index' :
                    index'[a].price = price /\ index'[a].slot = d[j]
      <4>1. PICK m \in 1..k : m # i /\ d[j] = c[m]
        <5>1. PICK m \in 1..k : m = IF j < i THEN j ELSE j + 1
          OBVIOUS
        <5>2. m # i /\ d[j] = c[m]
          BY <1>12, <5>1
        <5>. QED  BY <5>2
      <4>2. PICK a \in DOMAIN index :
               index[a].price = price /\ index[a].slot = c[m]
        BY <3>0
      <4>3. a # id
        BY <1>2, <1>5, <1>12, <3>1, <4>1, <4>2
      <4>4. a \in DOMAIN index' /\ index'[a] = index[a]
        BY <1>21, <4>3
      <4>. QED  BY <4>1, <4>2, <4>4
    <3>3. ASSUME NEW a \in DOMAIN index', index'[a].price = price
          PROVE  \E j \in 1..(k - 1) : d[j] = index'[a].slot
      <4>1. a \in DOMAIN index /\ a # id /\ index'[a] = index[a]
        BY <1>21
      <4>2. PICK m \in 1..k : c[m] = index[a].slot
        BY <3>0, <3>3, <4>1
      <4>3. m # i
        BY <1>5, <1>22, <4>1, <4>2
      <4>4. PICK j \in 1..(k - 1) : j = IF m < i THEN m ELSE m - 1
        BY <1>12, <4>3
      <4>5. d[j] = c[m]
        <5>1. CASE m < i
          BY <1>12, <4>4, <5>1
        <5>2. CASE m > i
          <6>1. j + 1 = m /\ ~(j < i)
            BY <1>12, <4>4, <5>2
          <6>. QED  BY <1>12, <6>1
        <5>. QED  BY <1>12, <4>3, <5>1, <5>2
      <4>. QED  BY <4>1, <4>2, <4>5
    <3>. QED  BY <1>12, <3>2, <3>3 DEF Holds
  <2>. QED  BY <1>16, <2>1, <2>2
<1>24. DOMAIN ends' \subseteq Prices
       /\ \A a \in DOMAIN index' : index'[a].price \in Prices
  <2>1. DOMAIN ends' \subseteq DOMAIN ends
    BY <1>8 DEF Restrict
  <2>. QED  BY <1>21, <2>1 DEF Linked
<1>25. Linked' /\ \A p \in Prices : Slots(p)' = chains[p]
  BY <1>14, <1>20, <1>23, <1>24, LinkedNext
<1>26. \A p \in Prices : QueueOf(p)' = Ids(nodes', chains[p])
  <2>1. \A p \in Prices : QueueOf(p)' = [j \in DOMAIN chains[p] |-> nodes'[chains[p][j]].id]
    BY <1>25 DEF QueueOf
  <2>2. \A p \in Prices : DOMAIN chains[p] = 1..Len(chains[p])
    BY <1>20
  <2>. QED  BY <2>1, <2>2 DEF Ids
<1>27. \A p \in Prices : Ids(nodes', Slots(p)) = Ids(nodes, Slots(p))
  <2>1. \A p \in Prices : \A j \in 1..Len(Slots(p)) :
           nodes'[Slots(p)[j]].id = nodes[Slots(p)[j]].id
    BY <1>3, <1>13, ListFacts
  <2>. QED  BY <2>1, IdsSame
<1>28. \A p \in Prices : p # price => QueueOf(p)' = QueueOf(p)
  BY <1>16, <1>26, <1>27, QueuesAreIds
<1>29. QueueOf(price)' = RemoveAt(QueueOf(price), i)
  <2>1. Ids(nodes', RemoveAt(c, i)) = RemoveAt(Ids(nodes', c), i)
    BY <1>13, IdsRemoved
  <2>. QED  BY <1>4, <1>9, <1>16, <1>26, <1>27, <2>1, QueuesAreIds
<1>30. i \in DOMAIN QueueOf(price)
  <2>1. QueueOf(price) = Ids(nodes, c)
    BY <1>4, QueuesAreIds
  <2>. QED  BY <2>1 DEF Ids
<1>. QED  BY <1>25, <1>28, <1>29, <1>30

LEMMA RefillQueues ==
    ASSUME SlabInv, Linked, NEW price \in DOMAIN ends, Refill(price)
    PROVE  /\ Linked'
           /\ price \in Prices /\ QueueOf(price) # <<>>
           /\ \A p \in Prices :
                 QueueOf(p)' = IF p = price
                               THEN Append(Tail(QueueOf(p)), Head(QueueOf(p)))
                               ELSE QueueOf(p)
<1>1. price \in Prices
  BY DEF Linked
<1>2. PICK slot : slot = ends[price].head
  OBVIOUS
<1>3. PICK n \in Nat : n = Len(nodes)
  BY Accounted
<1>4. PICK c \in Seq(1..n) : c = Slots(price)
  BY <1>1, <1>3, ListFacts
<1>5. /\ IsSlab(n, nodes) /\ IsChain(nodes, ends[price], c)
      /\ Len(c) # 0
  BY <1>1, <1>3, <1>4, ListFacts
<1>6. 1 \in 1..Len(c) /\ slot = c[1] /\ slot \in 1..n /\ c # <<>>
  <2>1. 1 \in 1..Len(c) /\ c # <<>> /\ c[1] \in 1..n
    BY <1>5
  <2>. QED  BY <1>2, <1>5, <2>1 DEF IsChain
<1>7. PICK left : left = Unlink(nodes, ends[price], slot)
  OBVIOUS
<1>8. PICK joined : joined = LinkBack(left.nodes, left.level, slot)
  OBVIOUS
<1>9. /\ nodes' = joined.nodes
      /\ ends' = [ends EXCEPT ![price] = joined.level]
      /\ index' = index
  BY <1>2, <1>7, <1>8 DEF Refill
<1>10. PICK d : d = RemoveAt(c, 1)
  OBVIOUS
<1>11. PICK k \in Nat : k = Len(c)
  BY <1>4
<1>12. /\ d \in Seq(1..n) /\ Len(d) = k - 1 /\ k # 0
       /\ \A j \in 1..(k - 1) : d[j] = c[j + 1]
  <2>1. /\ d \in Seq(1..n) /\ Len(d) = Len(c) - 1
        /\ \A j \in 1..(Len(c) - 1) : d[j] = IF j < 1 THEN c[j] ELSE c[j + 1]
    BY <1>6, <1>10, RemovedAt
  <2>. QED  BY <1>5, <1>11, <2>1
<1>13. /\ IsChain(left.nodes, left.level, d)
       /\ \A t \in 1..n : (\A j \in 1..Len(c) : c[j] # t) => left.nodes[t] = nodes[t]
  BY <1>5, <1>6, <1>7, <1>10, UnlinkRemoves
<1>14. \A j, m \in 1..k : c[j] = c[m] => j = m
  <2>1. DOMAIN c = 1..k
    BY <1>11
  <2>. QED  BY <1>5, <2>1 DEF IsChain, IsInjective
<1>15. \A j \in 1..Len(d) : d[j] # slot
  <2>. SUFFICES ASSUME NEW j \in 1..(k - 1) PROVE d[j] # slot
    BY <1>12
  <2>1. d[j] = c[j + 1] /\ j + 1 \in 1..k /\ 1 \in 1..k /\ j + 1 # 1
    BY <1>12
  <2>. QED  BY <1>6, <1>14, <2>1
<1>16. IsSlab(n, left.nodes) /\ SameIds(n, nodes, left.nodes)
       /\ ListOK(n, left.level)
  <2>1. PICK level : level = ends[price]
    OBVIOUS
  <2>2. ListOK(n, level) /\ level.head # None
    BY <1>3, <2>1 DEF SlabInv, SlabTypeOK
  <2>3. /\ SameIds(n, nodes, Unlink(nodes, level, slot).nodes)
        /\ ListOK(n, Unlink(nodes, level, slot).level)
    <3>1. nodes \in Seq(NodeOf(n)) /\ Len(nodes) = n
      BY <1>5 DEF IsSlab
    <3>. QED  BY <1>6, <2>2, <3>1, UnlinkKeeps
  <2>. QED  BY <1>7, <2>1, <2>3 DEF SameIds, IsSlab
<1>17. PICK e : e = Append(d, slot)
  OBVIOUS
<1>18. /\ IsChain(nodes', joined.level, e)
       /\ \A t \in 1..n : t # slot /\ (\A j \in 1..Len(d) : d[j] # t)
             => nodes'[t] = left.nodes[t]
  <2>1. PICK ns : ns = left.nodes
    OBVIOUS
  <2>2. PICK level : level = left.level
    OBVIOUS
  <2>3. IsSlab(n, ns) /\ IsChain(ns, level, d) /\ d \in Seq(1..n)
    BY <1>12, <1>13, <1>16, <2>1, <2>2
  <2>4. PICK list : list = LinkBack(ns, level, slot)
    OBVIOUS
  <2>5. /\ IsChain(list.nodes, list.level, Append(d, slot))
        /\ \A t \in 1..n : t # slot /\ (\A j \in 1..Len(d) : d[j] # t)
              => list.nodes[t] = ns[t]
    BY <1>6, <1>15, <2>3, <2>4, LinkBackAppends, SMTT(20)
  <2>6. joined = list
    BY <1>8, <2>1, <2>2, <2>4
  <2>. QED  BY <1>9, <1>17, <2>1, <2>5, <2>6
<1>19. /\ e \in Seq(1..n) /\ Len(e) = k /\ e[k] = slot
       /\ \A j \in 1..(k - 1) : e[j] = d[j]
  BY <1>6, <1>12, <1>17
<1>20. IsSlab(n, nodes') /\ \A t \in 1..n : nodes'[t].id = nodes[t].id
  <2>1. PICK ns : ns = left.nodes
    OBVIOUS
  <2>2. PICK level : level = left.level
    OBVIOUS
  <2>3. SameIds(n, ns, LinkBack(ns, level, slot).nodes)
    <3>1. ns \in Seq(NodeOf(n)) /\ Len(ns) = n /\ ListOK(n, level)
      BY <1>16, <2>1, <2>2 DEF IsSlab
    <3>. QED  BY <1>6, <3>1, LinkBackKeeps
  <2>4. SameIds(n, nodes, nodes')
    BY <1>8, <1>9, <1>16, <2>1, <2>2, <2>3, SameIdsTrans
  <2>. QED  BY <2>4 DEF SameIds, IsSlab
<1>21. Len(nodes') = n /\ nodes' \in Seq(NodeOf(Len(nodes')))
  BY <1>20 DEF IsSlab
<1>22. PICK chains : chains = [p \in Prices |-> IF p = price THEN e ELSE Slots(p)]
  OBVIOUS
<1>23. chains[price] = e /\ \A p \in Prices : p # price => chains[p] = Slots(p)
  BY <1>1, <1>22
<1>24. LevelAt(price)' = joined.level
       /\ \A p \in Prices : p # price => LevelAt(p)' = LevelAt(p)
  BY <1>9 DEF LevelAt
<1>25. \A p \in Prices : p # price =>
          \A j \in 1..Len(Slots(p)) : nodes'[Slots(p)[j]] = nodes[Slots(p)[j]]
  <2>. SUFFICES ASSUME NEW p \in Prices, p # price, NEW j \in 1..Len(Slots(p))
                PROVE  nodes'[Slots(p)[j]] = nodes[Slots(p)[j]]
    OBVIOUS
  <2>1. PICK t \in 1..n : t = Slots(p)[j]
    BY <1>3, ListFacts
  <2>2. \A m \in 1..Len(c) : c[m] # t
    BY <1>1, <1>4, <2>1, ChainsApart
  <2>3. \A m \in 1..Len(d) : d[m] # t
    <3>1. \A m \in 1..(k - 1) : d[m] = c[m + 1] /\ m + 1 \in 1..Len(c)
      BY <1>11, <1>12
    <3>. QED  BY <1>12, <2>2, <3>1
  <2>. QED  BY <1>6, <1>13, <1>18, <2>1, <2>2, <2>3
<1>26. \A p \in Prices : chains[p] \in Seq(1..n) /\ IsChain(nodes', LevelAt(p)', chains[p])
  <2>1. ASSUME NEW p \in Prices, p # price
        PROVE  chains[p] \in Seq(1..n) /\ IsChain(nodes', LevelAt(p)', chains[p])
    <3>1. Slots(p) \in Seq(1..n) /\ IsChain(nodes, LevelAt(p), Slots(p))
      BY <1>3, ListFacts
    <3>2. IsChain(nodes', LevelAt(p), Slots(p))
      BY <1>25, <2>1, <3>1, ChainStays
    <3>. QED  BY <1>23, <1>24, <2>1, <3>1, <3>2
  <2>. QED  BY <1>18, <1>19, <1>23, <1>24, <2>1
<1>27. \A p \in Prices : Holds(index', p, chains[p])
  <2>1. \A p \in Prices : Holds(index, p, Slots(p))
    BY DEF Linked
  <2>2. Holds(index, price, e)
    <3>1. ASSUME NEW j \in 1..k
          PROVE  \E m \in 1..k : e[j] = c[m]
      <4>1. CASE j = k
        BY <1>6, <1>11, <1>19, <4>1
      <4>2. CASE j # k
        <5>1. e[j] = c[j + 1] /\ j + 1 \in 1..k
          BY <1>12, <1>19, <4>2
        <5>. QED  BY <5>1
      <4>. QED  BY <4>1, <4>2
    <3>2. ASSUME NEW m \in 1..k
          PROVE  \E j \in 1..k : e[j] = c[m]
      <4>1. CASE m = 1
        BY <1>6, <1>12, <1>19, <4>1
      <4>2. CASE m # 1
        <5>1. m - 1 \in 1..(k - 1) /\ (m - 1) + 1 = m /\ m - 1 \in 1..k
          BY <4>2
        <5>2. e[m - 1] = c[m]
          BY <1>12, <1>19, <5>1
        <5>. QED  BY <5>1, <5>2
      <4>. QED  BY <4>1, <4>2
    <3>3. Holds(index, price, c)
      BY <1>1, <1>4, <2>1
    <3>4. /\ \A m \in 1..k : \E a \in DOMAIN index :
                index[a].price = price /\ index[a].slot = c[m]
          /\ \A a \in DOMAIN index : index[a].price = price =>
                \E m \in 1..k : c[m] = index[a].slot
      BY <1>11, <3>3 DEF Holds
    <3>5. \A j \in 1..k : \E a \in DOMAIN index :
             index[a].price = price /\ index[a].slot = e[j]
      BY <3>1, <3>4
    <3>6. \A a \in DOMAIN index : index[a].price = price =>
             \E j \in 1..k : e[j] = index[a].slot
      BY <3>2, <3>4
    <3>. QED  BY <1>19, <3>5, <3>6 DEF Holds
  <2>. QED  BY <1>9, <1>23, <2>1, <2>2
<1>28. DOMAIN ends' \subseteq Prices
       /\ \A a \in DOMAIN index' : index'[a].price \in Prices
  BY <1>9 DEF Linked
<1>29. Linked' /\ \A p \in Prices : Slots(p)' = chains[p]
  BY <1>21, <1>26, <1>27, <1>28, LinkedNext
<1>30. \A p \in Prices : QueueOf(p)' = Ids(nodes', chains[p])
  <2>1. \A p \in Prices : QueueOf(p)' = [j \in DOMAIN chains[p] |-> nodes'[chains[p][j]].id]
    BY <1>29 DEF QueueOf
  <2>2. \A p \in Prices : DOMAIN chains[p] = 1..Len(chains[p])
    BY <1>26
  <2>. QED  BY <2>1, <2>2 DEF Ids
<1>31. \A p \in Prices : Ids(nodes', Slots(p)) = Ids(nodes, Slots(p))
  <2>1. \A p \in Prices : \A j \in 1..Len(Slots(p)) :
           nodes'[Slots(p)[j]].id = nodes[Slots(p)[j]].id
    BY <1>3, <1>20, ListFacts
  <2>. QED  BY <2>1, IdsSame
<1>32. \A p \in Prices : p # price => QueueOf(p)' = QueueOf(p)
  BY <1>23, <1>30, <1>31, QueuesAreIds
<1>33. PICK q : q = QueueOf(price)
  OBVIOUS
<1>34. q = Ids(nodes', c) /\ q = Ids(nodes, c)
  BY <1>1, <1>4, <1>31, <1>33, QueuesAreIds
<1>35. q \in Seq(Nat) /\ Len(q) = k /\ q # <<>> /\ q[1] = nodes'[slot].id
  <2>1. PICK ns : ns = nodes'
    OBVIOUS
  <2>2. IsSlab(n, ns) /\ q = Ids(ns, c)
    BY <1>20, <1>34, <2>1
  <2>3. /\ q \in Seq(Nat) /\ Len(q) = Len(c)
        /\ \A j \in 1..Len(c) : q[j] = ns[c[j]].id
    BY <2>2, IdsTyped
  <2>. QED  BY <1>6, <1>11, <1>12, <2>1, <2>3
<1>36. QueueOf(price)' = Append(Tail(q), Head(q))
  <2>1. Ids(nodes', Append(d, slot)) = Append(Ids(nodes', d), nodes'[slot].id)
    BY <1>6, <1>12, <1>20, IdsAppended
  <2>2. Ids(nodes', RemoveAt(c, 1)) = RemoveAt(Ids(nodes', c), 1)
    BY <1>6, <1>20, IdsRemoved
  <2>3. RemoveAt(q, 1) = Tail(q) /\ q[1] = Head(q)
    BY <1>35, FirstRemoved
  <2>. QED  BY <1>1, <1>10, <1>17, <1>23, <1>30, <1>34, <1>35, <2>1, <2>2, <2>3
<1>. QED  BY <1>1, <1>29, <1>32, <1>33, <1>35, <1>36

----------------------------------------------------------------------------
(* The lists of every state are the queues *)

ListInv == SlabInv /\ Linked

LEMMA ListsFromStart ==
    Init => Linked /\ \A price \in Prices : QueueOf(price) = <<>>
<1>. SUFFICES ASSUME Init
              PROVE  Linked /\ \A price \in Prices : QueueOf(price) = <<>>
  OBVIOUS
<1>1. nodes = <<>> /\ Len(nodes) = 0 /\ nodes \in Seq(NodeOf(Len(nodes)))
  BY DEF Init
<1>2. DOMAIN index = {} /\ DOMAIN ends = {}
  BY DEF Init
<1>3. \A price \in Prices : IsChain(nodes, LevelAt(price), <<>>)
  BY <1>2 DEF IsChain, IsInjective, LevelAt, EmptyLevel
<1>4. <<>> \in Seq(1..Len(nodes))
  OBVIOUS
<1>5. \A price \in Prices : Slots(price) = <<>>
  BY <1>1, <1>3, <1>4, SlotsFollow
<1>6. Linked
  <2>1. \A price \in Prices : Holds(index, price, <<>>)
    <3>1. Len(<<>>) = 0
      OBVIOUS
    <3>. QED  BY <1>2, <3>1 DEF Holds
  <2>2. \A price \in Prices :
           /\ Slots(price) \in Seq(1..Len(nodes))
           /\ IsChain(nodes, LevelAt(price), Slots(price))
           /\ Holds(index, price, Slots(price))
    BY <1>3, <1>4, <1>5, <2>1
  <2>. QED  BY <1>2, <2>2 DEF Linked
<1>7. \A price \in Prices : QueueOf(price) = <<>>
  <2>1. Ids(nodes, <<>>) = <<>>
    BY DEF Ids
  <2>. QED  BY <1>5, <1>6, <2>1, QueuesAreIds
<1>. QED  BY <1>6, <1>7

LEMMA ListsKept == ListInv /\ [Next]_vars => ListInv'
<1>. SUFFICES ASSUME SlabInv, Linked, [Next]_vars
              PROVE  Linked'
  BY SlabKept DEF ListInv
<1>1. CASE \E price \in Prices : Enter(price)
  BY <1>1, EnterQueues
<1>2. CASE \E id \in DOMAIN index : Leave(id)
  BY <1>2, LeaveQueues
<1>3. CASE \E price \in DOMAIN ends : Refill(price)
  BY <1>3, RefillQueues
<1>4. CASE UNCHANGED vars
  <2>1. /\ nodes' = nodes /\ ends' = ends /\ index' = index
    BY <1>4 DEF vars
  <2>2. \A price : LevelAt(price)' = LevelAt(price)
    BY <2>1 DEF LevelAt
  <2>3. \A price : Slots(price)' = Slots(price)
    BY <2>1 DEF Slots, LevelAt, After
  <2>. QED  BY <2>1, <2>2, <2>3 DEF Linked
<1>. QED  BY <1>1, <1>2, <1>3, <1>4 DEF Next

LEMMA ListsAgree == ListInv => LinksAgree
<1>. SUFFICES ASSUME ListInv, NEW price \in DOMAIN ends
              PROVE  LET slots == ToSet(Slots(price))
                     IN  /\ nodes[ends[price].head].prev = None
                         /\ nodes[ends[price].tail].next = None
                         /\ \A s \in slots \ {ends[price].tail} :
                               nodes[nodes[s].next].prev = s
                         /\ slots = {index[id].slot : id \in
                               {k \in DOMAIN index : index[k].price = price}}
  BY DEF LinksAgree
<1>1. price \in Prices
  BY DEF ListInv, Linked
<1>2. PICK c \in Seq(1..Len(nodes)) : c = Slots(price)
  BY <1>1, ListFacts DEF ListInv
<1>3. PICK k \in Nat : k = Len(c)
  OBVIOUS
<1>4. k # 0 /\ IsChain(nodes, ends[price], c)
  BY <1>1, <1>2, <1>3, ListFacts DEF ListInv
<1>5. /\ ends[price].head = c[1] /\ ends[price].tail = c[k]
      /\ \A i \in 1..k :
            /\ nodes[c[i]].prev = IF i = 1 THEN None ELSE c[i - 1]
            /\ nodes[c[i]].next = IF i = k THEN None ELSE c[i + 1]
  BY <1>3, <1>4 DEF IsChain
<1>6. nodes[ends[price].head].prev = None /\ nodes[ends[price].tail].next = None
  <2>1. 1 \in 1..k /\ k \in 1..k
    BY <1>4
  <2>. QED  BY <1>5, <2>1
<1>7. ToSet(c) = {c[i] : i \in 1..k}
  BY <1>3 DEF ToSet
<1>8. \A s \in ToSet(c) \ {ends[price].tail} : nodes[nodes[s].next].prev = s
  <2>. SUFFICES ASSUME NEW i \in 1..k, c[i] # c[k]
                PROVE  nodes[nodes[c[i]].next].prev = c[i]
    BY <1>5, <1>7, SMTT(20)
  <2>1. i # k /\ i + 1 \in 1..k /\ i + 1 # 1 /\ (i + 1) - 1 = i
    OBVIOUS
  <2>. QED  BY <1>5, <2>1
<1>9. ToSet(c) = {index[id].slot : id \in
                     {a \in DOMAIN index : index[a].price = price}}
  <2>1. Holds(index, price, c)
    BY <1>1, <1>2 DEF ListInv, Linked
  <2>2. ASSUME NEW i \in 1..k
        PROVE  \E id \in {a \in DOMAIN index : index[a].price = price} :
                  index[id].slot = c[i]
    BY <1>3, <2>1 DEF Holds
  <2>3. ASSUME NEW id \in {a \in DOMAIN index : index[a].price = price}
        PROVE  \E i \in 1..k : c[i] = index[id].slot
    BY <1>3, <2>1 DEF Holds
  <2>4. \A s \in ToSet(c) : s \in {index[id].slot : id \in
                     {a \in DOMAIN index : index[a].price = price}}
    BY <1>7, <2>2
  <2>5. \A id \in {a \in DOMAIN index : index[a].price = price} :
           index[id].slot \in ToSet(c)
    BY <1>7, <2>3
  <2>. QED  BY <2>4, <2>5
<1>. QED  BY <1>2, <1>6, <1>8, <1>9

\* The links of every level that is kept run both ways through the orders
\* the index has there, so unlink finds its neighbours (slab.rs), whatever
\* links were left in a slot by its last use.
THEOREM LinksConsistent == Spec => []LinksAgree
<1>1. Init => ListInv
  BY SlabFromStart, ListsFromStart DEF ListInv
<1>. QED  BY <1>1, ListsKept, ListsAgree, PTL DEF Spec

LevelLists == [price \in Prices |-> QueueOf(price)]

LEMMA QueueSteps ==
    ListInv /\ [Next]_vars => [Queues!Next]_<<LevelLists, entered>>
<1>. SUFFICES ASSUME SlabInv, Linked, [Next]_vars
              PROVE  [Queues!Next]_<<LevelLists, entered>>
  BY DEF ListInv
<1>1. PICK queues : queues = [price \in Prices |-> QueueOf(price)]
  OBVIOUS
<1>2. \A price \in Prices : queues[price] = QueueOf(price)
  BY <1>1
<1>3. ASSUME NEW price \in Prices, Enter(price)
      PROVE  Queues!Enter(price)
  <2>1. \A p \in Prices :
           QueueOf(p)' = IF p = price THEN Append(queues[p], entered')
                         ELSE queues[p]
    BY <1>2, <1>3, EnterQueues
  <2>2. [p \in Prices |-> QueueOf(p)']
           = [queues EXCEPT ![price] = Append(@, entered')]
    BY <1>1, <2>1
  <2>3. entered' = entered + 1
    BY <1>3 DEF Enter
  <2>. QED  BY <1>1, <2>2, <2>3 DEF Queues!Enter
<1>4. ASSUME NEW id \in DOMAIN index, Leave(id)
      PROVE  \E price \in Prices : \E place \in DOMAIN QueueOf(price) :
                Queues!Leave(price, place)
  <2>. DEFINE Left(price, place) ==
                \A p \in Prices :
                   QueueOf(p)' = IF p = price THEN RemoveAt(QueueOf(p), place)
                                 ELSE QueueOf(p)
  <2>0. PICK price \in Prices :
           \E place \in DOMAIN QueueOf(price) : Left(price, place)
    BY <1>4, LeaveQueues
  <2>1. PICK place \in DOMAIN QueueOf(price) : Left(price, place)
    BY <2>0
  <2>2. [p \in Prices |-> QueueOf(p)']
           = [queues EXCEPT ![price] = RemoveAt(@, place)]
    BY <1>1, <2>1
  <2>3. entered' = entered
    BY <1>4 DEF Leave
  <2>4. Queues!RemoveAt(queues[price], place) = RemoveAt(queues[price], place)
    BY DEF Queues!RemoveAt, RemoveAt
  <2>5. Queues!Leave(price, place)
    BY <1>1, <2>2, <2>3, <2>4 DEF Queues!Leave
  <2>. QED  BY <2>5
<1>5. ASSUME NEW price \in DOMAIN ends, Refill(price)
      PROVE  price \in Prices /\ Queues!Refill(price)
  <2>1. /\ price \in Prices /\ queues[price] # <<>>
        /\ \A p \in Prices :
              QueueOf(p)' = IF p = price
                            THEN Append(Tail(queues[p]), Head(queues[p]))
                            ELSE queues[p]
    BY <1>2, <1>5, RefillQueues
  <2>2. [p \in Prices |-> QueueOf(p)']
           = [queues EXCEPT ![price] = Append(Tail(@), Head(@))]
    BY <1>1, <2>1
  <2>3. entered' = entered
    BY <1>5 DEF Refill
  <2>. QED  BY <1>1, <2>1, <2>2, <2>3 DEF Queues!Refill
<1>6. CASE UNCHANGED vars
  <2>1. \A p \in Prices : QueueOf(p)' = QueueOf(p)
    BY <1>6 DEF vars, QueueOf, Slots, LevelAt, After
  <2>2. entered' = entered
    BY <1>6 DEF vars
  <2>. QED  BY <2>1, <2>2 DEF LevelLists
<1>7. CASE \E price \in Prices : Enter(price)
  BY <1>3, <1>7 DEF Queues!Next
<1>8. CASE \E id \in DOMAIN index : Leave(id)
  <2>1. \A price \in Prices : [p \in Prices |-> QueueOf(p)][price] = QueueOf(price)
    OBVIOUS
  <2>. QED  BY <1>4, <1>8, <2>1 DEF Queues!Next
<1>9. CASE \E price \in DOMAIN ends : Refill(price)
  BY <1>5, <1>9 DEF Queues!Next
<1>. QED  BY <1>6, <1>7, <1>8, <1>9 DEF Next

\* The slab with its linked lists implements one queue for each level: every
\* insertion, cancel, fill and refill of the book (book/mod.rs,
\* book/matching.rs) does to the lists what it would do to the queues.
THEOREM ListsAreQueues == Spec => ImplementsQueues
<1>1. Init => ListInv
  BY SlabFromStart, ListsFromStart DEF ListInv
<1>2. Init => Queues!Init
  BY ListsFromStart DEF Init, Queues!Init
<1>. QED  BY <1>1, <1>2, ListsKept, QueueSteps, PTL
          DEF Spec, ImplementsQueues, Queues!Spec, LevelLists
==============================================================================
