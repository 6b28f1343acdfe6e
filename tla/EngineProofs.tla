---------------------------- MODULE EngineProofs ----------------------------
(***************************************************************************)
(* Type correctness and the safety of the matching engine, for every menu  *)
(* of orders and amendments, every risk configuration and any number of    *)
(* commands.                                                               *)
(***************************************************************************)
EXTENDS EngineProperties, SequenceTheorems, TLAPS

----------------------------------------------------------------------------
(* The operations of the order book: the index and the queues of the price  *)
(* levels agree, nothing empty rests, and queues keep their order.          *)

LEMMA PutFacts ==
    ASSUME NEW f, NEW key, NEW value
    PROVE  /\ DOMAIN Put(f, key, value) = DOMAIN f \cup {key}
           /\ Put(f, key, value)[key] = value
           /\ \A k \in DOMAIN f \ {key} : Put(f, key, value)[k] = f[k]
           /\ \A k : k \in DOMAIN Put(f, key, value) /\ k # key
                     => k \in DOMAIN f /\ Put(f, key, value)[k] = f[k]
BY DEF Put

LEMMA DropFacts ==
    ASSUME NEW f, NEW key
    PROVE  /\ DOMAIN Drop(f, key) = DOMAIN f \ {key}
           /\ \A k \in DOMAIN f \ {key} : Drop(f, key)[k] = f[k]
BY DEF Drop, Restrict

LEMMA PutIsMap ==
    ASSUME NEW f, NEW Keys, NEW Values, IsMap(f, Keys, Values),
           NEW key \in Keys, NEW value \in Values
    PROVE  IsMap(Put(f, key, value), Keys, Values)
<1>1. Put(f, key, value) \in [DOMAIN f \cup {key} -> Values]
  BY DEF Put, IsMap
<1>. QED
  BY <1>1, PutFacts DEF IsMap

LEMMA DropIsMap ==
    ASSUME NEW f, NEW Keys, NEW Values, IsMap(f, Keys, Values), NEW key
    PROVE  IsMap(Drop(f, key), Keys, Values)
<1>1. Drop(f, key) \in [DOMAIN f \ {key} -> Values]
  BY DEF Drop, Restrict, IsMap
<1>. QED
  BY <1>1, DropFacts DEF IsMap

LEMMA MinOfTwo ==
    ASSUME NEW a \in Nat, NEW b \in Nat
    PROVE  /\ Min({a, b}) = IF a <= b THEN a ELSE b
           /\ Min({a, b}) \in Nat
<1>1. a <= b => Min({a, b}) = a
  BY DEF Min
<1>2. b <= a => Min({a, b}) = b
  BY DEF Min
<1>. QED
  BY <1>1, <1>2

----------------------------------------------------------------------------
(* Levels and queues *)

\* What SetLevel changes, for a level that keeps orders and for one that
\* does not.
LEMMA SetLevelFacts ==
    ASSUME LevelsTypeOK, NEW side \in Sides, NEW price \in Nat,
           NEW level \in PriceLevel, levels' = SetLevel(side, price, level)
    PROVE  /\ LevelsTypeOK'
           /\ \A s \in Sides \ {side} : levels'[s] = levels[s]
           /\ level.fifo = <<>> =>
                 DOMAIN levels'[side] = DOMAIN levels[side] \ {price}
           /\ level.fifo # <<>> =>
                 /\ DOMAIN levels'[side] = DOMAIN levels[side] \cup {price}
                 /\ levels'[side][price] = level
           /\ \A p \in DOMAIN levels[side] \ {price} :
                 levels'[side][p] = levels[side][p]
<1> DEFINE book == IF level.fifo = <<>> THEN Drop(levels[side], price)
                   ELSE Put(levels[side], price, level)
<1>1. levels' = [levels EXCEPT ![side] = book]
  BY DEF SetLevel
<1>2. IsMap(book, Nat, PriceLevel)
  BY PutIsMap, DropIsMap DEF LevelsTypeOK
<1>3. /\ levels'[side] = book
      /\ \A s \in Sides \ {side} : levels'[s] = levels[s]
      /\ levels' = [s \in Sides |-> levels'[s]]
  <2> HIDE DEF book
  <2>. QED  BY <1>1 DEF LevelsTypeOK
<1>4. LevelsTypeOK'
  <2> HIDE DEF book
  <2>. QED  BY <1>2, <1>3 DEF LevelsTypeOK
<1>5. ASSUME level.fifo = <<>>
      PROVE  /\ DOMAIN book = DOMAIN levels[side] \ {price}
             /\ \A p \in DOMAIN levels[side] \ {price} :
                   book[p] = levels[side][p]
  <2>1. book = Drop(levels[side], price)
    BY <1>5
  <2>. HIDE DEF book
  <2>. QED  BY <2>1 DEF Drop, Restrict
<1>6. ASSUME level.fifo # <<>>
      PROVE  /\ DOMAIN book = DOMAIN levels[side] \cup {price}
             /\ book[price] = level
             /\ \A p \in DOMAIN levels[side] \ {price} :
                   book[p] = levels[side][p]
  <2>1. book = Put(levels[side], price, level)
    BY <1>6
  <2>. HIDE DEF book
  <2>. QED  BY <2>1 DEF Put
<1>. QED
  <2> HIDE DEF book
  <2>. QED  BY <1>3, <1>4, <1>5, <1>6

\* The index agrees with the queues after a step that replaces the queue of
\* one level by one that holds exactly the orders of that level.
LEMMA RequeueKeepsIndex ==
    ASSUME LevelsTypeOK, IsMap(resting, Nat, RestingOrder), IndexMatchesQueues,
           NEW side \in Sides, NEW price \in Nat, NEW level \in PriceLevel,
           levels' = SetLevel(side, price, level),
           IsInjective(level.fifo),
           \A i \in DOMAIN level.fifo :
              /\ level.fifo[i] \in DOMAIN resting'
              /\ resting'[level.fifo[i]].side = side
              /\ resting'[level.fifo[i]].price = price,
           \A id \in DOMAIN resting :
              resting[id].side # side \/ resting[id].price # price
                => /\ id \in DOMAIN resting'
                   /\ resting'[id].side = resting[id].side
                   /\ resting'[id].price = resting[id].price,
           \A id \in DOMAIN resting' :
              \/ id \in ToSet(level.fifo)
              \/ /\ id \in DOMAIN resting
                 /\ resting'[id].side = resting[id].side
                 /\ resting'[id].price = resting[id].price
                 /\ resting[id].side # side \/ resting[id].price # price
    PROVE  IndexMatchesQueues'
<1>1. /\ LevelsTypeOK'
      /\ \A s \in Sides \ {side} : levels'[s] = levels[s]
      /\ level.fifo = <<>> =>
            DOMAIN levels'[side] = DOMAIN levels[side] \ {price}
      /\ level.fifo # <<>> =>
            /\ DOMAIN levels'[side] = DOMAIN levels[side] \cup {price}
            /\ levels'[side][price] = level
      /\ \A p \in DOMAIN levels[side] \ {price} :
            levels'[side][p] = levels[side][p]
  BY SetLevelFacts
<1>2. ASSUME NEW s \in Sides, NEW p \in DOMAIN levels'[s]
      PROVE  /\ levels'[s][p].fifo # <<>>
             /\ IsInjective(levels'[s][p].fifo)
             /\ \A i \in DOMAIN levels'[s][p].fifo :
                   LET id == levels'[s][p].fifo[i]
                   IN  /\ id \in DOMAIN resting'
                       /\ resting'[id].side = s
                       /\ resting'[id].price = p
  <2>1. CASE s = side /\ p = price
    BY <1>1, <2>1
  <2>2. CASE ~(s = side /\ p = price)
    <3>1. p \in DOMAIN levels[s] /\ levels'[s][p] = levels[s][p]
      BY <1>1, <2>2
    <3>2. /\ FifoOf(s, p) # <<>>
          /\ IsInjective(FifoOf(s, p))
          /\ \A i \in DOMAIN FifoOf(s, p) :
                /\ FifoOf(s, p)[i] \in DOMAIN resting
                /\ resting[FifoOf(s, p)[i]].side = s
                /\ resting[FifoOf(s, p)[i]].price = p
      BY <3>1 DEF IndexMatchesQueues
    <3>. QED
      BY <2>2, <3>1, <3>2 DEF FifoOf
  <2>. QED
    BY <2>1, <2>2
<1>3. ASSUME NEW id \in DOMAIN resting'
      PROVE  /\ resting'[id].price \in DOMAIN levels'[resting'[id].side]
             /\ id \in ToSet(levels'[resting'[id].side][resting'[id].price].fifo)
  <2>1. CASE id \in ToSet(level.fifo)
    <3>1. /\ resting'[id].side = side
          /\ resting'[id].price = price
          /\ level.fifo # <<>>
      BY <2>1 DEF ToSet
    <3>. QED
      BY <1>1, <2>1, <3>1
  <2>2. CASE id \notin ToSet(level.fifo)
    <3>1. /\ id \in DOMAIN resting
          /\ resting'[id].side = resting[id].side
          /\ resting'[id].price = resting[id].price
          /\ resting[id].side # side \/ resting[id].price # price
      BY <2>2
    <3>2. /\ resting[id].price \in DOMAIN levels[resting[id].side]
          /\ id \in ToSet(levels[resting[id].side][resting[id].price].fifo)
      BY <3>1 DEF IndexMatchesQueues, FifoOf
    <3>3. resting[id].side \in Sides
      BY <3>1 DEF IsMap, RestingOrder
    <3>. QED
      BY <1>1, <3>1, <3>2, <3>3
  <2>. QED
    BY <2>1, <2>2
<1>. QED
  BY <1>2, <1>3 DEF IndexMatchesQueues, FifoOf

----------------------------------------------------------------------------
(* Queue operations *)

\* Whoever is before an old order of the queue was before it already.
SamePlaces(before, after) ==
    \A i, j \in DOMAIN after :
        i < j /\ after[j] \in ToSet(before)
            => Before(before, after[i], after[j])

LEMMA LinkBackFacts ==
    ASSUME NEW fifo \in Seq(Nat), IsInjective(fifo),
           NEW id \in Nat, id \notin ToSet(fifo)
    PROVE  /\ LinkBack(fifo, id) \in Seq(Nat)
           /\ LinkBack(fifo, id) # <<>>
           /\ IsInjective(LinkBack(fifo, id))
           /\ ToSet(LinkBack(fifo, id)) = ToSet(fifo) \cup {id}
           /\ SamePlaces(fifo, LinkBack(fifo, id))
<1> DEFINE new == LinkBack(fifo, id)
<1>1. /\ new \in Seq(Nat)
      /\ new # <<>>
      /\ Len(new) = Len(fifo) + 1
      /\ \A i \in 1..Len(fifo) : new[i] = fifo[i]
      /\ new[Len(fifo) + 1] = id
  BY AppendProperties DEF LinkBack
<1>2. /\ Len(fifo) \in Nat
      /\ DOMAIN fifo = 1..Len(fifo)
      /\ DOMAIN new = 1..(Len(fifo) + 1)
  BY <1>1, LenProperties
<1>. HIDE DEF new
<1>3. \A i \in 1..Len(fifo) : fifo[i] # id
  BY <1>2 DEF ToSet
<1>4. IsInjective(new)
  <2> SUFFICES ASSUME NEW i \in DOMAIN new, NEW j \in DOMAIN new,
                      new[i] = new[j]
               PROVE  i = j
    BY DEF IsInjective
  <2>1. CASE new[i] = id
    <3>1. \A n \in DOMAIN new : new[n] = id => n = Len(fifo) + 1
      BY <1>1, <1>2, <1>3
    <3>. QED  BY <3>1, <2>1
  <2>2. CASE new[i] # id
    <3>1. i \in 1..Len(fifo) /\ j \in 1..Len(fifo)
      BY <2>2, <1>1, <1>2
    <3>. QED  BY <3>1, <1>1, <1>2 DEF IsInjective
  <2>. QED  BY <2>1, <2>2
<1>5. ToSet(new) = ToSet(fifo) \cup {id}
  <2>1. \A x \in ToSet(new) : x \in ToSet(fifo) \cup {id}
    BY <1>1, <1>2 DEF ToSet
  <2>2. \A x \in ToSet(fifo) \cup {id} : x \in ToSet(new)
    BY <1>1, <1>2 DEF ToSet
  <2>. QED  BY <2>1, <2>2
<1>6. SamePlaces(fifo, new)
  <2> SUFFICES ASSUME NEW i \in DOMAIN new, NEW j \in DOMAIN new, i < j,
                      new[j] \in ToSet(fifo)
               PROVE  Before(fifo, new[i], new[j])
    BY DEF SamePlaces
  <2>1. new[j] # id
    BY DEF ToSet
  <2>2. i \in 1..Len(fifo) /\ j \in 1..Len(fifo)
    BY <2>1, <1>1, <1>2
  <2>. QED  BY <2>2, <1>1, <1>2 DEF Before
<1>. QED
  BY <1>1, <1>4, <1>5, <1>6 DEF new

LEMMA TailFacts ==
    ASSUME NEW fifo \in Seq(Nat), IsInjective(fifo), fifo # <<>>
    PROVE  /\ Tail(fifo) \in Seq(Nat)
           /\ IsInjective(Tail(fifo))
           /\ Head(fifo) \in ToSet(fifo)
           /\ ToSet(Tail(fifo)) = ToSet(fifo) \ {Head(fifo)}
           /\ SamePlaces(fifo, Tail(fifo))
<1> DEFINE new == Tail(fifo)
<1>1. /\ new \in Seq(Nat)
      /\ Len(new) = Len(fifo) - 1
      /\ \A i \in 1..Len(new) : new[i] = fifo[i + 1]
      /\ Head(fifo) = fifo[1]
  BY HeadTailProperties
<1>2. /\ Len(fifo) \in Nat \ {0}
      /\ DOMAIN fifo = 1..Len(fifo)
      /\ DOMAIN new = 1..(Len(fifo) - 1)
  BY <1>1, LenProperties, EmptySeq
<1>. HIDE DEF new
<1>3. /\ \A i \in DOMAIN new : i + 1 \in DOMAIN fifo /\ new[i] = fifo[i + 1]
      /\ DOMAIN new \subseteq Nat
      /\ 1 \in DOMAIN fifo
  BY <1>1, <1>2
<1>4. IsInjective(new)
  <2> SUFFICES ASSUME NEW i \in DOMAIN new, NEW j \in DOMAIN new,
                      new[i] = new[j]
               PROVE  i = j
    BY DEF IsInjective
  <2>1. i + 1 = j + 1
    BY <1>3 DEF IsInjective
  <2>. QED  BY <2>1, <1>3
<1>5. ToSet(new) = ToSet(fifo) \ {Head(fifo)}
  <2>1. \A x \in ToSet(new) : x \in ToSet(fifo) \ {Head(fifo)}
    <3> SUFFICES ASSUME NEW i \in DOMAIN new
                 PROVE  new[i] \in ToSet(fifo) /\ new[i] # fifo[1]
      BY <1>1 DEF ToSet
    <3>1. i + 1 # 1
      BY <1>3
    <3>. QED  BY <3>1, <1>3 DEF ToSet, IsInjective
  <2>2. ASSUME NEW x \in ToSet(fifo), x # Head(fifo)
        PROVE  x \in ToSet(new)
    <3>1. PICK i \in 1..Len(fifo) : fifo[i] = x
      BY <1>2 DEF ToSet
    <3>2. i - 1 \in 1..(Len(fifo) - 1) /\ new[i - 1] = x
      BY <3>1, <2>2, <1>1, <1>2
    <3>. QED  BY <3>2, <1>2 DEF ToSet
  <2>. QED  BY <2>1, <2>2
<1>6. SamePlaces(fifo, new)
  <2> SUFFICES ASSUME NEW i \in DOMAIN new, NEW j \in DOMAIN new, i < j
               PROVE  Before(fifo, new[i], new[j])
    BY DEF SamePlaces
  <2>1. /\ i + 1 \in DOMAIN fifo /\ fifo[i + 1] = new[i]
        /\ j + 1 \in DOMAIN fifo /\ fifo[j + 1] = new[j]
    BY <1>3
  <2>2. i + 1 < j + 1
    BY <1>3
  <2>. QED  BY <2>1, <2>2 DEF Before
<1>7. Head(fifo) \in ToSet(fifo)
  BY <1>1, <1>2 DEF ToSet
<1>. QED
  BY <1>1, <1>4, <1>5, <1>6, <1>7 DEF new

\* A sequence without its k-th element.
LEMMA RemoveAtFacts ==
    ASSUME NEW S, NEW fifo \in Seq(S), NEW k \in 1..Len(fifo)
    PROVE  /\ RemoveAt(fifo, k) \in Seq(S)
           /\ DOMAIN RemoveAt(fifo, k) = 1..(Len(fifo) - 1)
           /\ \A i \in 1..(Len(fifo) - 1) :
                 RemoveAt(fifo, k)[i] = fifo[IF i < k THEN i ELSE i + 1]
<1> DEFINE new == RemoveAt(fifo, k)
           old(i) == IF i < k THEN i ELSE i + 1
<1>1. /\ Len(fifo) \in Nat
      /\ DOMAIN fifo = 1..Len(fifo)
      /\ fifo \in [1..Len(fifo) -> S]
  BY LenProperties
<1>2. k \in 1..Len(fifo)
  OBVIOUS
<1>3. /\ SubSeq(fifo, 1, k - 1) \in Seq(S)
      /\ Len(SubSeq(fifo, 1, k - 1)) = k - 1
      /\ \A i \in 1..(k - 1) : SubSeq(fifo, 1, k - 1)[i] = fifo[i]
  <2>1. \A i \in 1..(k - 1) : fifo[i] \in S
    BY <1>1, <1>2
  <2>. QED  BY <1>1, <1>2, <2>1, SubSeqProperties
<1>4. /\ SubSeq(fifo, k + 1, Len(fifo)) \in Seq(S)
      /\ Len(SubSeq(fifo, k + 1, Len(fifo))) = Len(fifo) - k
      /\ \A i \in 1..(Len(fifo) - k) :
            SubSeq(fifo, k + 1, Len(fifo))[i] = fifo[k + i]
  <2> DEFINE m == k + 1
  <2>1. m \in Int /\ Len(fifo) \in Int /\ m <= Len(fifo) + 1
    BY <1>1, <1>2
  <2>2. \A i \in m..Len(fifo) : fifo[i] \in S
    BY <1>1, <1>2
  <2>. HIDE DEF m
  <2>3. /\ SubSeq(fifo, m, Len(fifo)) \in Seq(S)
        /\ Len(SubSeq(fifo, m, Len(fifo))) =
              IF m <= Len(fifo) THEN Len(fifo) - m + 1 ELSE 0
        /\ \A i \in 1..(Len(fifo) - m + 1) :
              SubSeq(fifo, m, Len(fifo))[i] = fifo[m + i - 1]
    BY <2>1, <2>2, SubSeqProperties
  <2>6. (IF m <= Len(fifo) THEN Len(fifo) - m + 1 ELSE 0) = Len(fifo) - k
    <3>1. k \in Int /\ Len(fifo) \in Int /\ k <= Len(fifo)
      BY <1>1, <1>2
    <3>2. CASE k < Len(fifo)
      <4>1. m <= Len(fifo) /\ Len(fifo) - m + 1 = Len(fifo) - k
        BY <3>1, <3>2 DEF m
      <4>. QED  BY <4>1
    <3>3. CASE k = Len(fifo)
      <4>1. ~(m <= Len(fifo)) /\ Len(fifo) - k = 0
        BY <3>1, <3>3 DEF m
      <4>. QED  BY <4>1
    <3>. QED  BY <3>1, <3>2, <3>3
  <2>4. Len(SubSeq(fifo, m, Len(fifo))) = Len(fifo) - k
    BY <2>3, <2>6
  <2>5. ASSUME NEW i \in 1..(Len(fifo) - k)
        PROVE  SubSeq(fifo, m, Len(fifo))[i] = fifo[k + i]
    <3>1. i \in 1..(Len(fifo) - m + 1) /\ m + i - 1 = k + i
      BY <1>1, <1>2 DEF m
    <3>. QED  BY <3>1, <2>3
  <2>. QED  BY <2>3, <2>4, <2>5 DEF m
<1>5. /\ new \in Seq(S)
      /\ DOMAIN new = 1..(Len(fifo) - 1)
      /\ \A i \in 1..(Len(fifo) - 1) : new[i] = fifo[old(i)]
  <2> DEFINE left == SubSeq(fifo, 1, k - 1)
             right == SubSeq(fifo, k + 1, Len(fifo))
  <2>1. new = left \o right
    BY DEF RemoveAt
  <2>. HIDE DEF left, right, new
  <2>2. left \in Seq(S) /\ Len(left) = k - 1
    BY <1>3 DEF left
  <2>3. right \in Seq(S) /\ Len(right) = Len(fifo) - k
    BY <1>4 DEF right
  <2>4. /\ new \in Seq(S)
        /\ Len(new) = Len(fifo) - 1
        /\ \A i \in 1..(Len(fifo) - 1) :
              new[i] = IF i <= k - 1 THEN left[i] ELSE right[i - (k - 1)]
    <3>1. /\ new \in Seq(S)
          /\ Len(new) = Len(left) + Len(right)
          /\ \A i \in 1..(Len(left) + Len(right)) :
                new[i] = IF i <= Len(left) THEN left[i]
                         ELSE right[i - Len(left)]
      BY <2>1, <2>2, <2>3, ConcatProperties
    <3>2. Len(left) + Len(right) = Len(fifo) - 1
      BY <2>2, <2>3, <1>1, <1>2
    <3>. QED  BY <3>1, <3>2, <2>2
  <2>5. \A i \in 1..(Len(fifo) - 1) : new[i] = fifo[old(i)]
    <3>1. ASSUME NEW i \in 1..(Len(fifo) - 1), i < k
          PROVE  new[i] = fifo[old(i)]
      BY <3>1, <2>4, <1>2, <1>3 DEF left
    <3>2. ASSUME NEW i \in 1..(Len(fifo) - 1), ~(i < k)
          PROVE  new[i] = fifo[old(i)]
      <4>1. i - (k - 1) \in 1..(Len(fifo) - k) /\ k + (i - (k - 1)) = i + 1
        BY <3>2, <1>1, <1>2
      <4>2. right[i - (k - 1)] = fifo[i + 1]
        BY <4>1, <1>4 DEF right
      <4>. QED  BY <3>2, <4>2, <2>4, <1>2
    <3>. QED  BY <3>1, <3>2
  <2>. QED  BY <2>4, <2>5, <1>1, LenProperties
<1>. QED  BY <1>5

LEMMA UnlinkFacts ==
    ASSUME NEW fifo \in Seq(Nat), IsInjective(fifo), NEW id \in ToSet(fifo)
    PROVE  /\ Unlink(fifo, id) \in Seq(Nat)
           /\ IsInjective(Unlink(fifo, id))
           /\ ToSet(Unlink(fifo, id)) = ToSet(fifo) \ {id}
           /\ SamePlaces(fifo, Unlink(fifo, id))
<1> DEFINE k == PositionOf(fifo, id)
           new == Unlink(fifo, id)
           old(i) == IF i < k THEN i ELSE i + 1
<1>1. /\ Len(fifo) \in Nat
      /\ DOMAIN fifo = 1..Len(fifo)
      /\ fifo \in [1..Len(fifo) -> Nat]
  BY LenProperties
<1>2. k \in 1..Len(fifo) /\ fifo[k] = id
  <2>1. \E i \in 1..Len(fifo) : fifo[i] = id
    BY <1>1 DEF ToSet
  <2>. QED  BY <2>1 DEF PositionOf
<1>. HIDE DEF k
<1>5. /\ new \in Seq(Nat)
      /\ DOMAIN new = 1..(Len(fifo) - 1)
      /\ \A i \in 1..(Len(fifo) - 1) : new[i] = fifo[old(i)]
  BY <1>2, RemoveAtFacts DEF Unlink, k
<1>0. /\ \A i \in DOMAIN new :
            /\ old(i) \in DOMAIN fifo
            /\ old(i) # k
            /\ new[i] = fifo[old(i)]
      /\ \A i, j \in DOMAIN new : i < j => old(i) < old(j)
      /\ \A i, j \in DOMAIN new : old(i) = old(j) => i = j
      /\ \A m \in DOMAIN fifo : m # k => \E i \in DOMAIN new : old(i) = m
  <2>. HIDE DEF new
  <2>1. ASSUME NEW m \in DOMAIN fifo, m # k
        PROVE  \E i \in DOMAIN new : old(i) = m
    <3>1. CASE m < k
      <4>1. m \in DOMAIN new /\ old(m) = m
        BY <3>1, <1>1, <1>2, <1>5
      <4>. QED  BY <4>1
    <3>2. CASE m > k
      <4>1. m - 1 \in DOMAIN new /\ old(m - 1) = m
        BY <3>2, <1>1, <1>2, <1>5
      <4>. QED  BY <4>1
    <3>. QED  BY <2>1, <3>1, <3>2, <1>1, <1>2
  <2>2. ASSUME NEW i \in 1..(Len(fifo) - 1)
        PROVE  old(i) \in 1..Len(fifo) /\ old(i) # k
    BY <1>1, <1>2
  <2>3. ASSUME NEW i \in 1..(Len(fifo) - 1), NEW j \in 1..(Len(fifo) - 1)
        PROVE  /\ i < j => old(i) < old(j)
               /\ old(i) = old(j) => i = j
    BY <1>1, <1>2
  <2>. HIDE DEF old
  <2>. QED  BY <2>1, <2>2, <2>3, <1>1, <1>5
<1>. HIDE DEF new, old
<1>6. IsInjective(new)
  BY <1>0 DEF IsInjective
<1>7. ToSet(new) = ToSet(fifo) \ {id}
  <2>1. \A x \in ToSet(new) : x \in ToSet(fifo) \ {id}
    BY <1>0, <1>1, <1>2 DEF ToSet, IsInjective
  <2>2. ASSUME NEW x \in ToSet(fifo), x # id
        PROVE  x \in ToSet(new)
    <3>1. PICK m \in DOMAIN fifo : fifo[m] = x
      BY DEF ToSet
    <3>2. PICK i \in DOMAIN new : old(i) = m
      BY <3>1, <2>2, <1>0, <1>2
    <3>. QED  BY <3>1, <3>2, <1>0 DEF ToSet
  <2>. QED  BY <2>1, <2>2
<1>8. SamePlaces(fifo, new)
  <2> SUFFICES ASSUME NEW i \in DOMAIN new, NEW j \in DOMAIN new, i < j
               PROVE  Before(fifo, new[i], new[j])
    BY DEF SamePlaces
  <2>1. /\ old(i) \in DOMAIN fifo /\ fifo[old(i)] = new[i]
        /\ old(j) \in DOMAIN fifo /\ fifo[old(j)] = new[j]
        /\ old(i) < old(j)
    BY <1>0
  <2>. QED  BY <2>1 DEF Before
<1>. QED
  BY <1>5, <1>6, <1>7, <1>8 DEF new

----------------------------------------------------------------------------
(* Accounts *)

LEMMA AccountsTyped ==
    ASSUME NEW accts \in [Accounts -> AccountState], NEW owner \in Owners,
           NEW side \in Sides, NEW qty \in Nat
    PROVE  /\ AddOpen(accts, owner, side, qty) \in [Accounts -> AccountState]
           /\ SubOpen(accts, owner, side, qty) \in [Accounts -> AccountState]
           /\ Fill(accts, owner, side, qty) \in [Accounts -> AccountState]
<1>1. CASE owner = Anonymous
  BY <1>1 DEF AddOpen, SubOpen, Fill
<1>2. CASE owner # Anonymous
  <2> DEFINE account == accts[owner]
  <2>1. /\ owner \in Accounts
        /\ account \in AccountState
        /\ account.net \in Int
        /\ account.open \in [Sides -> Nat]
        /\ account.open[side] \in Nat
    BY <1>2 DEF Owners, AccountState
  <2>2. AddOpen(accts, owner, side, qty) \in [Accounts -> AccountState]
    <3>1. [account EXCEPT !.open[side] = account.open[side] + qty]
             \in AccountState
      BY <2>1 DEF AccountState
    <3>. QED  BY <1>2, <2>1, <3>1 DEF AddOpen
  <2>3. SubOpen(accts, owner, side, qty) \in [Accounts -> AccountState]
    <3> DEFINE rest == IF account.open[side] > qty
                       THEN account.open[side] - qty ELSE 0
    <3>1. rest \in Nat
      BY <2>1
    <3>. HIDE DEF rest
    <3>2. [account EXCEPT !.open[side] = rest] \in AccountState
      BY <2>1, <3>1 DEF AccountState
    <3>. QED  BY <1>2, <2>1, <3>2 DEF SubOpen, rest
  <2>4. Fill(accts, owner, side, qty) \in [Accounts -> AccountState]
    <3> DEFINE net == IF side = "Buy" THEN account.net + qty
                      ELSE account.net - qty
    <3>1. net \in Int
      BY <2>1
    <3>. HIDE DEF net
    <3>2. [account EXCEPT !.net = net] \in AccountState
      BY <2>1, <3>1 DEF AccountState
    <3>. QED  BY <1>2, <2>1, <3>2 DEF Fill, net
  <2>. QED  BY <2>2, <2>3, <2>4
<1>. QED  BY <1>1, <1>2

----------------------------------------------------------------------------
(* The book *)

BookInv == BookTypeOK /\ IndexMatchesQueues /\ NothingEmptyRests

\* A level's queue holds exactly the orders of its side and price.
LEMMA LevelFacts ==
    ASSUME BookInv, NEW side \in Sides, NEW price \in DOMAIN levels[side]
    PROVE  /\ price \in Nat
           /\ levels[side][price] \in PriceLevel
           /\ FifoOf(side, price) \in Seq(Nat)
           /\ FifoOf(side, price) # <<>>
           /\ IsInjective(FifoOf(side, price))
           /\ \A id : id \in ToSet(FifoOf(side, price)) <=>
                        /\ id \in DOMAIN resting
                        /\ resting[id].side = side
                        /\ resting[id].price = price
<1>1. /\ price \in Nat
      /\ levels[side][price] \in PriceLevel
  BY DEF BookInv, BookTypeOK, LevelsTypeOK, IsMap
<1>2. FifoOf(side, price) \in Seq(Nat)
  BY <1>1 DEF FifoOf, PriceLevel
<1>3. /\ FifoOf(side, price) # <<>>
      /\ IsInjective(FifoOf(side, price))
      /\ \A i \in DOMAIN FifoOf(side, price) :
            /\ FifoOf(side, price)[i] \in DOMAIN resting
            /\ resting[FifoOf(side, price)[i]].side = side
            /\ resting[FifoOf(side, price)[i]].price = price
  BY DEF BookInv, IndexMatchesQueues
<1>4. \A id \in DOMAIN resting :
         id \in ToSet(FifoOf(resting[id].side, resting[id].price))
  BY DEF BookInv, IndexMatchesQueues
<1>. QED  BY <1>1, <1>2, <1>3, <1>4 DEF ToSet

LEMMA OrderFacts ==
    ASSUME BookInv, NEW id \in DOMAIN resting
    PROVE  /\ id \in Nat
           /\ resting[id] \in RestingOrder
           /\ resting[id].side \in Sides
           /\ resting[id].owner \in Owners
           /\ resting[id].qty \in Nat \ {0}
           /\ resting[id].price \in DOMAIN levels[resting[id].side]
           /\ id \in ToSet(FifoOf(resting[id].side, resting[id].price))
           /\ Hidden(id) \in Nat
<1>1. id \in Nat /\ resting[id] \in RestingOrder /\ resting[id].qty > 0
  BY DEF BookInv, BookTypeOK, IsMap, NothingEmptyRests
<1>2. Hidden(id) \in Nat
  BY DEF Hidden, BookInv, BookTypeOK, IsMap, Reserve
<1>3. /\ resting[id].price \in DOMAIN levels[resting[id].side]
      /\ id \in ToSet(FifoOf(resting[id].side, resting[id].price))
  BY DEF BookInv, IndexMatchesQueues
<1>. QED  BY <1>1, <1>2, <1>3 DEF RestingOrder

----------------------------------------------------------------------------
(* The operations *)

QueuesKept ==
    \A side \in Sides :
    \A price \in DOMAIN levels[side] \cap DOMAIN levels'[side] :
        SamePlaces(FifoOf(side, price), levels'[side][price].fifo)

NoNewLevel ==
    \A side \in Sides : DOMAIN levels'[side] \subseteq DOMAIN levels[side]

LEMMA SetLevelNoNew ==
    ASSUME LevelsTypeOK, NEW side \in Sides, NEW price \in Nat,
           price \in DOMAIN levels[side],
           NEW level \in PriceLevel, levels' = SetLevel(side, price, level)
    PROVE  LevelsTypeOK' /\ NoNewLevel
<1>1. /\ LevelsTypeOK'
      /\ \A s \in Sides \ {side} : levels'[s] = levels[s]
      /\ DOMAIN levels'[side] \subseteq DOMAIN levels[side] \cup {price}
  BY SetLevelFacts
<1>. QED  BY <1>1 DEF NoNewLevel

LEMMA UnmovedQueue ==
    ASSUME NEW fifo \in Seq(Nat)
    PROVE  SamePlaces(fifo, fifo)
BY DEF SamePlaces, Before

\* A step that changes one level at most keeps the queues if it keeps that
\* level's.
LEMMA OneQueueKept ==
    ASSUME BookInv, NEW side \in Sides, NEW price \in Nat,
           NEW level \in PriceLevel, levels' = SetLevel(side, price, level),
           price \in DOMAIN levels[side] =>
               SamePlaces(FifoOf(side, price), level.fifo)
    PROVE  QueuesKept
<1> SUFFICES ASSUME NEW s \in Sides,
                    NEW p \in DOMAIN levels[s], p \in DOMAIN levels'[s]
             PROVE  SamePlaces(FifoOf(s, p), levels'[s][p].fifo)
  BY DEF QueuesKept
<1>1. LevelsTypeOK
  BY DEF BookInv, BookTypeOK
<1>2. CASE s = side /\ p = price
  <2>1. levels'[side][price] = level
    BY <1>1, <1>2, SetLevelFacts
  <2>. QED  BY <1>2, <2>1
<1>3. CASE ~(s = side /\ p = price)
  <2>1. levels'[s][p] = levels[s][p]
    BY <1>1, <1>3, SetLevelFacts
  <2>. QED  BY <2>1, LevelFacts, UnmovedQueue DEF FifoOf
<1>. QED  BY <1>2, <1>3

\* An order leaves the book: its queue without it, the index without it.
LEMMA RemovalKeepsBook ==
    ASSUME BookInv, NEW id \in DOMAIN resting,
           NEW side \in Sides, side = resting[id].side,
           NEW price \in Nat, price = resting[id].price,
           NEW level \in PriceLevel,
           IsInjective(level.fifo),
           ToSet(level.fifo) = ToSet(FifoOf(side, price)) \ {id},
           SamePlaces(FifoOf(side, price), level.fifo),
           levels' = SetLevel(side, price, level),
           resting' = Drop(resting, id),
           reserves' = Drop(reserves, id),
           accounts' \in [Accounts -> AccountState]
    PROVE  /\ BookInv'
           /\ QueuesKept
           /\ NoNewLevel
           /\ DOMAIN resting' = DOMAIN resting \ {id}
<1>1. /\ LevelsTypeOK
      /\ IsMap(resting, Nat, RestingOrder)
      /\ IsMap(reserves, Nat, Reserve)
      /\ IndexMatchesQueues
      /\ price \in DOMAIN levels[side]
  BY OrderFacts DEF BookInv, BookTypeOK
<1>2. /\ DOMAIN resting' = DOMAIN resting \ {id}
      /\ \A x \in DOMAIN resting' : resting'[x] = resting[x]
      /\ DOMAIN reserves' = DOMAIN reserves \ {id}
      /\ \A x \in DOMAIN reserves' : reserves'[x] = reserves[x]
  BY DropFacts
<1>3. \A x : x \in ToSet(level.fifo) <=>
                /\ x \in DOMAIN resting'
                /\ resting'[x].side = side
                /\ resting'[x].price = price
  BY <1>1, <1>2, LevelFacts
<1>4. BookTypeOK'
  <2>1. LevelsTypeOK'
    BY <1>1, SetLevelFacts
  <2>2. IsMap(resting', Nat, RestingOrder) /\ IsMap(reserves', Nat, Reserve)
    BY <1>1, DropIsMap
  <2>. QED  BY <2>1, <2>2 DEF BookTypeOK
<1>5. IndexMatchesQueues'
  <2>1. \A i \in DOMAIN level.fifo :
           /\ level.fifo[i] \in DOMAIN resting'
           /\ resting'[level.fifo[i]].side = side
           /\ resting'[level.fifo[i]].price = price
    BY <1>3 DEF ToSet
  <2>2. \A x \in DOMAIN resting :
           resting[x].side # side \/ resting[x].price # price
             => /\ x \in DOMAIN resting'
                /\ resting'[x].side = resting[x].side
                /\ resting'[x].price = resting[x].price
    BY <1>2
  <2>3. \A x \in DOMAIN resting' :
           \/ x \in ToSet(level.fifo)
           \/ /\ x \in DOMAIN resting
              /\ resting'[x].side = resting[x].side
              /\ resting'[x].price = resting[x].price
              /\ resting[x].side # side \/ resting[x].price # price
    BY <1>2, <1>3
  <2>. QED  BY <1>1, <2>1, <2>2, <2>3, RequeueKeepsIndex
<1>6. NothingEmptyRests'
  BY <1>2 DEF BookInv, NothingEmptyRests
<1>7. QueuesKept
  BY OneQueueKept
<1>8. NoNewLevel
  BY <1>1, SetLevelFacts DEF NoNewLevel
<1>. QED  BY <1>2, <1>4, <1>5, <1>6, <1>7, <1>8 DEF BookInv

\* An order keeps its place and some of its quantity.
LEMMA ReductionKeepsBook ==
    ASSUME BookInv, NEW id \in DOMAIN resting,
           NEW side \in Sides, side = resting[id].side,
           NEW price \in Nat, price = resting[id].price,
           NEW total \in Int, NEW qty \in Nat \ {0},
           levels' = SetLevel(side, price,
                        [levels[side][price] EXCEPT !.total_qty = total]),
           resting' = [resting EXCEPT ![id].qty = qty],
           reserves' = reserves,
           accounts' \in [Accounts -> AccountState]
    PROVE  /\ BookInv'
           /\ QueuesKept
           /\ NoNewLevel
           /\ DOMAIN resting' = DOMAIN resting
<1> DEFINE level == [levels[side][price] EXCEPT !.total_qty = total]
<1>1. /\ LevelsTypeOK
      /\ IsMap(resting, Nat, RestingOrder)
      /\ IndexMatchesQueues
      /\ price \in DOMAIN levels[side]
  BY OrderFacts DEF BookInv, BookTypeOK
<1>2. /\ level \in PriceLevel
      /\ level.fifo = FifoOf(side, price)
  BY <1>1, LevelFacts DEF PriceLevel, FifoOf
<1>. HIDE DEF level
<1>3. /\ DOMAIN resting' = DOMAIN resting
      /\ IsMap(resting', Nat, RestingOrder)
      /\ \A x \in DOMAIN resting : /\ resting'[x].side = resting[x].side
                                  /\ resting'[x].price = resting[x].price
                                  /\ resting'[x].qty > 0
  <2>1. [resting[id] EXCEPT !.qty = qty] \in RestingOrder
    BY OrderFacts DEF RestingOrder
  <2>2. \A x \in DOMAIN resting :
           /\ resting[x] \in RestingOrder
           /\ resting[x].qty \in Nat \ {0}
           /\ resting'[x] = IF x = id THEN [resting[id] EXCEPT !.qty = qty]
                            ELSE resting[x]
    BY OrderFacts DEF RestingOrder
  <2>3. IsMap(resting', Nat, RestingOrder)
    BY <1>1, <2>1, <2>2 DEF IsMap
  <2>4. /\ [resting[id] EXCEPT !.qty = qty].side = resting[id].side
        /\ [resting[id] EXCEPT !.qty = qty].price = resting[id].price
        /\ [resting[id] EXCEPT !.qty = qty].qty = qty
    BY OrderFacts DEF RestingOrder
  <2>. QED  BY <2>2, <2>3, <2>4
<1>4. levels' = SetLevel(side, price, level)
  BY DEF level
<1>5. LevelsTypeOK'
  BY <1>1, <1>2, <1>4, SetLevelNoNew, Zenon
<1>6. /\ IsInjective(level.fifo)
      /\ level.fifo # <<>>
      /\ \A x : x \in ToSet(level.fifo) <=>
                  /\ x \in DOMAIN resting
                  /\ resting[x].side = side
                  /\ resting[x].price = price
  BY <1>1, <1>2, LevelFacts
<1>7. IndexMatchesQueues'
  <2>1. \A i \in DOMAIN level.fifo :
           /\ level.fifo[i] \in DOMAIN resting'
           /\ resting'[level.fifo[i]].side = side
           /\ resting'[level.fifo[i]].price = price
    BY <1>3, <1>6 DEF ToSet
  <2>2. \A x \in DOMAIN resting' :
           \/ x \in ToSet(level.fifo)
           \/ /\ x \in DOMAIN resting
              /\ resting'[x].side = resting[x].side
              /\ resting'[x].price = resting[x].price
              /\ resting[x].side # side \/ resting[x].price # price
    BY <1>3, <1>6
  <2>. QED  BY <1>1, <1>2, <1>3, <1>4, <1>6, <2>1, <2>2, RequeueKeepsIndex
<1>8. NothingEmptyRests'
  BY <1>3 DEF BookInv, NothingEmptyRests
<1>9. QueuesKept
  <2>1. SamePlaces(FifoOf(side, price), level.fifo)
    BY <1>1, <1>2, LevelFacts, UnmovedQueue
  <2>. QED  BY <1>2, <1>4, <2>1, OneQueueKept
<1>10. NoNewLevel
  BY <1>1, <1>2, <1>4, SetLevelNoNew, Zenon
<1>. QED
  BY <1>1, <1>3, <1>5, <1>7, <1>8, <1>9, <1>10 DEF BookInv, BookTypeOK

LEMMA CancelKeepsBook ==
    ASSUME BookInv, NEW id \in DOMAIN resting, CancelResting(id)
    PROVE  /\ BookInv'
           /\ QueuesKept
           /\ NoNewLevel
           /\ DOMAIN resting' = DOMAIN resting \ {id}
<1> DEFINE side  == resting[id].side
           price == resting[id].price
           level == [total_qty |-> levels[side][price].total_qty
                                       - resting[id].qty,
                     fifo |-> Unlink(levels[side][price].fifo, id)]
<1>1. /\ side \in Sides
      /\ price \in DOMAIN levels[side]
      /\ id \in ToSet(FifoOf(side, price))
      /\ resting[id].qty \in Nat
      /\ resting[id].owner \in Owners
      /\ OpenVolume(id) \in Nat
  BY OrderFacts DEF OpenVolume
<1>2. /\ price \in Nat
      /\ levels[side][price].total_qty \in Int
      /\ FifoOf(side, price) \in Seq(Nat)
      /\ IsInjective(FifoOf(side, price))
  BY <1>1, LevelFacts DEF PriceLevel
<1>3. /\ level \in PriceLevel
      /\ IsInjective(level.fifo)
      /\ ToSet(level.fifo) = ToSet(FifoOf(side, price)) \ {id}
      /\ SamePlaces(FifoOf(side, price), level.fifo)
  BY <1>1, <1>2, UnlinkFacts DEF FifoOf, PriceLevel
<1>4. accounts' \in [Accounts -> AccountState]
  BY <1>1, AccountsTyped DEF CancelResting, BookInv, BookTypeOK
<1>5. /\ levels' = SetLevel(side, price, level)
      /\ resting' = Drop(resting, id)
      /\ reserves' = Drop(reserves, id)
  BY DEF CancelResting
<1>. HIDE DEF level, side, price
<1>. QED
  BY <1>1, <1>2, <1>3, <1>4, <1>5, RemovalKeepsBook DEF side, price

\* The order at the head of a level and the level without it.
LEMMA HeadFacts ==
    ASSUME BookInv, NEW side \in Sides, NEW price \in DOMAIN levels[side]
    PROVE  LET id == Head(FifoOf(side, price))
           IN  /\ id \in DOMAIN resting
               /\ resting[id].side = side
               /\ resting[id].price = price
               /\ resting[id].qty \in Nat \ {0}
               /\ resting[id].owner \in Owners
               /\ OpenVolume(id) \in Nat
               /\ Tail(FifoOf(side, price)) \in Seq(Nat)
               /\ IsInjective(Tail(FifoOf(side, price)))
               /\ ToSet(Tail(FifoOf(side, price))) =
                      ToSet(FifoOf(side, price)) \ {id}
               /\ SamePlaces(FifoOf(side, price), Tail(FifoOf(side, price)))
BY LevelFacts, TailFacts, OrderFacts DEF OpenVolume

LEMMA DetachKeepsBook ==
    ASSUME BookInv, NEW side \in Sides, NEW price \in DOMAIN levels[side],
           Detach(side, price)
    PROVE  /\ BookInv'
           /\ QueuesKept
           /\ NoNewLevel
           /\ DOMAIN resting' =
                 DOMAIN resting \ {Head(FifoOf(side, price))}
<1> DEFINE id    == Head(FifoOf(side, price))
           level == [total_qty |-> levels[side][price].total_qty
                                       - resting[id].qty,
                     fifo |-> Tail(levels[side][price].fifo)]
<1>1. /\ id \in DOMAIN resting
      /\ resting[id].side = side
      /\ resting[id].price = price
      /\ resting[id].qty \in Nat
      /\ resting[id].owner \in Owners
      /\ OpenVolume(id) \in Nat
  BY HeadFacts
<1>2. /\ price \in Nat
      /\ levels[side][price].total_qty \in Int
  BY LevelFacts DEF PriceLevel
<1>3. /\ level \in PriceLevel
      /\ IsInjective(level.fifo)
      /\ ToSet(level.fifo) = ToSet(FifoOf(side, price)) \ {id}
      /\ SamePlaces(FifoOf(side, price), level.fifo)
  <2>1. /\ Tail(FifoOf(side, price)) \in Seq(Nat)
        /\ IsInjective(Tail(FifoOf(side, price)))
        /\ ToSet(Tail(FifoOf(side, price))) =
              ToSet(FifoOf(side, price)) \ {id}
        /\ SamePlaces(FifoOf(side, price), Tail(FifoOf(side, price)))
    BY HeadFacts
  <2>2. level.fifo = Tail(FifoOf(side, price))
    BY DEF FifoOf
  <2>3. level \in PriceLevel
    BY <1>1, <1>2, <2>1 DEF FifoOf, PriceLevel
  <2>. HIDE DEF level, id
  <2>. QED  BY <2>1, <2>2, <2>3
<1>4. accounts' \in [Accounts -> AccountState]
  BY <1>1, AccountsTyped DEF Detach, FifoOf, BookInv, BookTypeOK
<1>5. /\ levels' = SetLevel(side, price, level)
      /\ resting' = Drop(resting, id)
      /\ reserves' = Drop(reserves, id)
  BY DEF Detach, FifoOf
<1>. HIDE DEF level
<1>. QED
  BY <1>1, <1>2, <1>3, <1>4, <1>5, RemovalKeepsBook

LEMMA ReduceKeepsBook ==
    ASSUME BookInv, NEW id \in DOMAIN resting, NEW qty \in Nat \ {0},
           Reduce(id, qty)
    PROVE  /\ BookInv'
           /\ QueuesKept
           /\ NoNewLevel
           /\ DOMAIN resting' = DOMAIN resting
<1> DEFINE side  == resting[id].side
           price == resting[id].price
           total == levels[side][price].total_qty - (resting[id].qty - qty)
<1>1. /\ side \in Sides
      /\ price \in DOMAIN levels[side]
      /\ resting[id].qty \in Nat
      /\ resting[id].owner \in Owners
  BY OrderFacts
<1>2. price \in Nat /\ total \in Int
  BY <1>1, LevelFacts DEF PriceLevel
<1>3. accounts' \in [Accounts -> AccountState]
  <2>1. resting[id].qty - qty \in Nat
    BY <1>1 DEF Reduce
  <2>. QED  BY <1>1, <2>1, AccountsTyped DEF Reduce, BookInv, BookTypeOK
<1>4. /\ levels' = SetLevel(side, price,
                       [levels[side][price] EXCEPT !.total_qty = total])
      /\ resting' = [resting EXCEPT ![id].qty = qty]
      /\ reserves' = reserves
  BY <1>2, LevelFacts DEF Reduce, PriceLevel
<1>. HIDE DEF side, price, total
<1>. QED
  BY <1>1, <1>2, <1>3, <1>4, ReductionKeepsBook DEF side, price

\* A fill, given that the trade moves accounts by natural numbers.
LEMMA FillPartKeepsBook ==
    ASSUME BookInv, NEW side \in Sides, NEW price \in DOMAIN levels[side],
           NEW traded \in Nat, FillPart(side, price, traded),
           accounts' \in [Accounts -> AccountState]
    PROVE  /\ BookInv'
           /\ QueuesKept
           /\ NoNewLevel
           /\ DOMAIN resting' = DOMAIN resting
<1> DEFINE id    == Head(FifoOf(side, price))
           total == levels[side][price].total_qty - traded
           qty   == resting[id].qty - traded
<1>1. /\ id \in DOMAIN resting
      /\ resting[id] \in RestingOrder
      /\ resting[id].side = side
      /\ resting[id].price = price
  BY HeadFacts, OrderFacts
<1>2. /\ price \in Nat
      /\ total \in Int
      /\ levels[side][price] \in PriceLevel
  BY LevelFacts DEF PriceLevel
<1>3. qty \in Nat \ {0}
  BY <1>1 DEF FillPart, FifoOf, RestingOrder
<1>4. /\ levels' = SetLevel(side, price,
                       [levels[side][price] EXCEPT !.total_qty = total])
      /\ resting' = [resting EXCEPT ![id].qty = qty]
      /\ reserves' = reserves
  BY <1>1, <1>2 DEF FillPart, FifoOf, PriceLevel, RestingOrder
<1>. HIDE DEF id, total, qty
<1>. QED
  BY <1>1, <1>2, <1>3, <1>4, ReductionKeepsBook

LEMMA FillAndRemoveKeepsBook ==
    ASSUME BookInv, NEW side \in Sides, NEW price \in DOMAIN levels[side],
           NEW traded \in Nat, FillAndRemove(side, price, traded),
           accounts' \in [Accounts -> AccountState]
    PROVE  /\ BookInv'
           /\ QueuesKept
           /\ NoNewLevel
           /\ DOMAIN resting' =
                 DOMAIN resting \ {Head(FifoOf(side, price))}
<1> DEFINE id    == Head(FifoOf(side, price))
           level == [total_qty |-> levels[side][price].total_qty - traded,
                     fifo |-> Tail(levels[side][price].fifo)]
<1>1. /\ id \in DOMAIN resting
      /\ resting[id].side = side
      /\ resting[id].price = price
  BY HeadFacts
<1>2. /\ price \in Nat
      /\ levels[side][price].total_qty \in Int
  BY LevelFacts DEF PriceLevel
<1>3. /\ level \in PriceLevel
      /\ IsInjective(level.fifo)
      /\ ToSet(level.fifo) = ToSet(FifoOf(side, price)) \ {id}
      /\ SamePlaces(FifoOf(side, price), level.fifo)
  <2>1. /\ Tail(FifoOf(side, price)) \in Seq(Nat)
        /\ IsInjective(Tail(FifoOf(side, price)))
        /\ ToSet(Tail(FifoOf(side, price))) =
              ToSet(FifoOf(side, price)) \ {id}
        /\ SamePlaces(FifoOf(side, price), Tail(FifoOf(side, price)))
    BY HeadFacts
  <2>2. level.fifo = Tail(FifoOf(side, price))
    BY DEF FifoOf
  <2>3. level \in PriceLevel
    BY <1>1, <1>2, <2>1 DEF FifoOf, PriceLevel
  <2>. HIDE DEF level, id
  <2>. QED  BY <2>1, <2>2, <2>3
<1>4. /\ levels' = SetLevel(side, price, level)
      /\ resting' = Drop(resting, id)
      /\ reserves' = reserves
      /\ id \notin DOMAIN reserves
  BY DEF FillAndRemove, FifoOf
<1>5. reserves' = Drop(reserves, id)
  <2>1. reserves = [x \in DOMAIN reserves |-> reserves[x]]
    BY DEF BookInv, BookTypeOK, IsMap
  <2>2. DOMAIN reserves \ {id} = DOMAIN reserves
    BY <1>4
  <2>. QED  BY <1>4, <2>1, <2>2 DEF Drop, Restrict
<1>. HIDE DEF level, id
<1>. QED
  BY <1>1, <1>2, <1>3, <1>4, <1>5, RemovalKeepsBook DEF id

SamePlacesBut(before, after, id) ==
    \A i, j \in DOMAIN after :
        /\ i < j
        /\ after[j] \in ToSet(before)
        /\ after[j] # id
        => Before(before, after[i], after[j])

QueuesKeptBut(id) ==
    \A side \in Sides :
    \A price \in DOMAIN levels[side] \cap DOMAIN levels'[side] :
        SamePlacesBut(FifoOf(side, price), levels'[side][price].fifo, id)

LEMMA PeakFacts ==
    ASSUME NEW reserve \in Reserve, reserve.display > 0, reserve.hidden > 0
    PROVE  /\ PeakOf(reserve) \in Nat \ {0}
           /\ PeakOf(reserve) <= reserve.hidden
<1>1. reserve.display \in Nat /\ reserve.hidden \in Nat
  BY DEF Reserve
<1>. QED  BY <1>1, MinOfTwo DEF PeakOf

LEMMA RefillKeepsBook ==
    ASSUME BookInv, NEW side \in Sides, NEW price \in DOMAIN levels[side],
           NEW traded \in Nat, FillAndRefill(side, price, traded),
           accounts' \in [Accounts -> AccountState]
    PROVE  /\ BookInv'
           /\ QueuesKeptBut(Head(FifoOf(side, price)))
           /\ NoNewLevel
           /\ DOMAIN resting' = DOMAIN resting
<1> DEFINE id      == Head(FifoOf(side, price))
           reserve == reserves[id]
           peak    == PeakOf(reserve)
           rest    == Tail(FifoOf(side, price))
           level   == [total_qty |-> levels[side][price].total_qty
                                         - traded + peak,
                       fifo |-> LinkBack(rest, id)]
<1>1. /\ id \in DOMAIN resting
      /\ id \in Nat
      /\ resting[id] \in RestingOrder
      /\ resting[id].side = side
      /\ resting[id].price = price
  BY HeadFacts, OrderFacts
<1>2. /\ price \in Nat
      /\ levels[side][price].total_qty \in Int
      /\ LevelsTypeOK
      /\ IsMap(resting, Nat, RestingOrder)
      /\ IsMap(reserves, Nat, Reserve)
      /\ IndexMatchesQueues
      /\ NothingEmptyRests
  BY LevelFacts DEF PriceLevel, BookInv, BookTypeOK
<1>3. /\ id \in DOMAIN reserves
      /\ resting' = [resting EXCEPT ![id].qty = peak]
      /\ reserves' = IF reserve.hidden = peak THEN Drop(reserves, id)
                     ELSE [reserves EXCEPT ![id].hidden = reserve.hidden - peak]
      /\ levels' = SetLevel(side, price, level)
  BY <1>2 DEF FillAndRefill, FifoOf, IsMap, Reserve
<1>4. /\ reserve \in Reserve
      /\ reserve.display > 0
      /\ reserve.hidden > 0
      /\ reserve.hidden \in Nat
      /\ peak \in Nat \ {0}
      /\ peak <= reserve.hidden
  BY <1>2, <1>3, PeakFacts DEF IsMap, NothingEmptyRests, Reserve
<1>. HIDE DEF peak, reserve
<1>5. /\ rest \in Seq(Nat)
      /\ IsInjective(rest)
      /\ ToSet(rest) = ToSet(FifoOf(side, price)) \ {id}
      /\ SamePlaces(FifoOf(side, price), rest)
      /\ id \in ToSet(FifoOf(side, price))
  BY HeadFacts, LevelFacts, TailFacts
<1>6. /\ LinkBack(rest, id) \in Seq(Nat)
      /\ LinkBack(rest, id) # <<>>
      /\ IsInjective(LinkBack(rest, id))
      /\ ToSet(LinkBack(rest, id)) = ToSet(rest) \cup {id}
      /\ SamePlaces(rest, LinkBack(rest, id))
  <2>. HIDE DEF rest, id
  <2>. QED  BY <1>1, <1>5, LinkBackFacts
<1>7. /\ level \in PriceLevel
      /\ level.fifo = LinkBack(rest, id)
  BY <1>2, <1>4, <1>6 DEF PriceLevel
<1>8. \A x : x \in ToSet(level.fifo) <=>
                /\ x \in DOMAIN resting
                /\ resting[x].side = side
                /\ resting[x].price = price
  BY <1>1, <1>5, <1>6, <1>7, LevelFacts
<1>. HIDE DEF level, rest, id
<1>9. /\ DOMAIN resting' = DOMAIN resting
      /\ IsMap(resting', Nat, RestingOrder)
      /\ \A x \in DOMAIN resting : /\ resting'[x].side = resting[x].side
                                  /\ resting'[x].price = resting[x].price
                                  /\ resting'[x].qty > 0
  <2>1. [resting[id] EXCEPT !.qty = peak] \in RestingOrder
    BY <1>1, <1>4 DEF RestingOrder
  <2>2. \A x \in DOMAIN resting :
           /\ resting[x] \in RestingOrder
           /\ resting[x].qty \in Nat \ {0}
           /\ resting'[x] = IF x = id THEN [resting[id] EXCEPT !.qty = peak]
                            ELSE resting[x]
    BY <1>1, <1>3, OrderFacts DEF RestingOrder
  <2>3. IsMap(resting', Nat, RestingOrder)
    BY <1>2, <1>3, <2>1, <2>2 DEF IsMap
  <2>4. /\ [resting[id] EXCEPT !.qty = peak].side = resting[id].side
        /\ [resting[id] EXCEPT !.qty = peak].price = resting[id].price
        /\ [resting[id] EXCEPT !.qty = peak].qty = peak
    BY <1>1 DEF RestingOrder
  <2>. QED  BY <1>3, <1>4, <2>2, <2>3, <2>4
<1>10. LevelsTypeOK'
  BY <1>2, <1>3, <1>7, SetLevelFacts
<1>11. /\ IsMap(reserves', Nat, Reserve)
       /\ DOMAIN reserves' \subseteq DOMAIN reserves
       /\ \A x \in DOMAIN reserves' : /\ reserves'[x].display > 0
                                     /\ reserves'[x].hidden > 0
  <2>1. CASE reserve.hidden = peak
    <3>1. reserves' = Drop(reserves, id)
      BY <1>3, <2>1
    <3>2. IsMap(reserves', Nat, Reserve)
      BY <1>2, <3>1, DropIsMap
    <3>3. /\ DOMAIN reserves' = DOMAIN reserves \ {id}
          /\ \A x \in DOMAIN reserves \ {id} : reserves'[x] = reserves[x]
      BY <3>1, DropFacts
    <3>. QED  BY <1>2, <3>2, <3>3 DEF NothingEmptyRests
  <2>2. CASE reserve.hidden # peak
    <3> DEFINE less == [reserve EXCEPT !.hidden = reserve.hidden - peak]
    <3>1. /\ less \in Reserve
          /\ less.display > 0
          /\ less.hidden > 0
      BY <1>4, <2>2 DEF Reserve
    <3>2. /\ DOMAIN reserves' = DOMAIN reserves
          /\ \A x \in DOMAIN reserves :
                 reserves'[x] = IF x = id THEN less ELSE reserves[x]
          /\ reserves' = [x \in DOMAIN reserves |-> reserves'[x]]
      BY <1>2, <1>3, <2>2 DEF reserve, IsMap
    <3>. HIDE DEF less
    <3>. QED  BY <1>2, <3>1, <3>2 DEF IsMap, NothingEmptyRests
  <2>. QED  BY <2>1, <2>2
<1>12. IndexMatchesQueues'
  <2>1. \A i \in DOMAIN level.fifo :
           /\ level.fifo[i] \in DOMAIN resting'
           /\ resting'[level.fifo[i]].side = side
           /\ resting'[level.fifo[i]].price = price
    BY <1>8, <1>9 DEF ToSet
  <2>2. \A x \in DOMAIN resting' :
           \/ x \in ToSet(level.fifo)
           \/ /\ x \in DOMAIN resting
              /\ resting'[x].side = resting[x].side
              /\ resting'[x].price = resting[x].price
              /\ resting[x].side # side \/ resting[x].price # price
    BY <1>8, <1>9
  <2>3. IsInjective(level.fifo)
    BY <1>6, <1>7
  <2>. QED  BY <1>2, <1>3, <1>7, <1>9, <2>1, <2>2, <2>3, RequeueKeepsIndex
<1>13. NothingEmptyRests'
  BY <1>2, <1>9, <1>11 DEF NothingEmptyRests
<1>14. NoNewLevel
  BY <1>2, <1>3, <1>7, SetLevelFacts DEF NoNewLevel
<1>15. QueuesKeptBut(id)
  <2> SUFFICES ASSUME NEW s \in Sides,
                      NEW p \in DOMAIN levels[s], p \in DOMAIN levels'[s]
               PROVE  SamePlacesBut(FifoOf(s, p), levels'[s][p].fifo, id)
    BY DEF QueuesKeptBut
  <2>1. CASE s = side /\ p = price
    <3>1. levels'[side][price].fifo = LinkBack(rest, id)
      BY <1>2, <1>3, <1>6, <1>7, SetLevelFacts
    <3>2. SamePlacesBut(FifoOf(side, price), LinkBack(rest, id), id)
      <4> DEFINE after == LinkBack(rest, id)
      <4> SUFFICES ASSUME NEW i \in DOMAIN after, NEW j \in DOMAIN after,
                          i < j, after[j] \in ToSet(FifoOf(side, price)),
                          after[j] # id
                   PROVE  Before(FifoOf(side, price), after[i], after[j])
        BY DEF SamePlacesBut
      <4>1. after[j] \in ToSet(rest)
        BY <1>5
      <4>2. Before(rest, after[i], after[j])
        BY <4>1, <1>6 DEF SamePlaces
      <4>3. PICK m, n \in DOMAIN rest :
               m < n /\ rest[m] = after[i] /\ rest[n] = after[j]
        BY <4>2 DEF Before
      <4>4. rest[n] \in ToSet(FifoOf(side, price))
        BY <4>3
      <4>. QED  BY <4>3, <4>4, <1>5 DEF SamePlaces
    <3>. QED  BY <2>1, <3>1, <3>2
  <2>2. CASE ~(s = side /\ p = price)
    <3>1. levels'[s][p] = levels[s][p]
      BY <1>2, <1>3, <1>7, <2>2, SetLevelFacts
    <3>2. SamePlaces(FifoOf(s, p), FifoOf(s, p))
      BY LevelFacts, UnmovedQueue
    <3>. QED  BY <3>1, <3>2 DEF FifoOf, SamePlaces, SamePlacesBut
  <2>. QED  BY <2>1, <2>2
<1>. QED
  BY <1>9, <1>10, <1>11, <1>12, <1>13, <1>14, <1>15
  DEF BookInv, BookTypeOK, id

\* A fill of the head of a level, whatever becomes of the head.
LEMMA FillHeadKeepsBook ==
    ASSUME BookInv, NEW side \in Sides, NEW price \in DOMAIN levels[side],
           NEW traded \in Nat, NEW taker_owner \in Owners,
           FillHead(side, price, traded, taker_owner)
    PROVE  /\ BookInv'
           /\ NoNewLevel
           /\ DOMAIN resting' \subseteq DOMAIN resting
           /\ \/ QueuesKept
              \/ /\ QueuesKeptBut(Head(FifoOf(side, price)))
                 /\ Head(FifoOf(side, price)) \in DOMAIN reserves
                 /\ traded = resting[Head(FifoOf(side, price))].qty
<1> DEFINE maker == resting[Head(levels[side][price].fifo)]
<1>1. maker.owner \in Owners
  BY HeadFacts DEF FifoOf
<1>2. accounts' \in [Accounts -> AccountState]
  <2>1. Opposite(side) \in Sides
    BY DEF Opposite, Sides
  <2> DEFINE once  == Fill(accounts, taker_owner, Opposite(side), traded)
             twice == Fill(once, maker.owner, side, traded)
  <2>2. once \in [Accounts -> AccountState]
    BY <2>1, AccountsTyped DEF BookInv, BookTypeOK
  <2>3. twice \in [Accounts -> AccountState]
    <3>. HIDE DEF once, maker
    <3>. QED  BY <1>1, <2>2, AccountsTyped
  <2>4. SubOpen(twice, maker.owner, side, traded)
          \in [Accounts -> AccountState]
    <3>. HIDE DEF twice, maker
    <3>. QED  BY <1>1, <2>3, AccountsTyped
  <2>. QED  BY <2>4 DEF FillHead, SettleFill
<1>3. CASE FillPart(side, price, traded)
  BY <1>2, <1>3, FillPartKeepsBook
<1>4. CASE FillAndRefill(side, price, traded)
  BY <1>2, <1>4, RefillKeepsBook DEF FillAndRefill, FifoOf
<1>5. CASE FillAndRemove(side, price, traded)
  BY <1>2, <1>5, FillAndRemoveKeepsBook
<1>. QED  BY <1>3, <1>4, <1>5 DEF FillHead

LEMMA InsertKeepsBook ==
    ASSUME BookInv, NEW id \in Nat, id \notin DOMAIN resting,
           NEW order \in RestingOrder, order.qty > 0,
           NEW display \in Nat, NEW hidden \in Nat, hidden > 0 => display > 0,
           Insert(id, order, display, hidden)
    PROVE  /\ BookInv'
           /\ QueuesKept
           /\ DOMAIN resting' = DOMAIN resting \cup {id}
           /\ \A s \in Sides \ {order.side} :
                 DOMAIN levels'[s] = DOMAIN levels[s]
           /\ DOMAIN levels'[order.side] =
                 DOMAIN levels[order.side] \cup {order.price}
<1> DEFINE side  == order.side
           price == order.price
           old   == LevelAt(side, price)
           level == [total_qty |-> old.total_qty + order.qty,
                     fifo |-> LinkBack(old.fifo, id)]
<1>1. /\ side \in Sides
      /\ price \in Nat
      /\ order.qty \in Nat \ {0}
      /\ order.owner \in Owners
  BY DEF RestingOrder
<1>2. /\ LevelsTypeOK
      /\ IsMap(resting, Nat, RestingOrder)
      /\ IsMap(reserves, Nat, Reserve)
      /\ accounts \in [Accounts -> AccountState]
      /\ IndexMatchesQueues
      /\ NothingEmptyRests
  BY DEF BookInv, BookTypeOK
<1>3. /\ levels' = SetLevel(side, price, level)
      /\ resting' = Put(resting, id, order)
      /\ reserves' = IF hidden > 0
                     THEN Put(reserves, id,
                              [display |-> display, hidden |-> hidden])
                     ELSE reserves
      /\ accounts' = AddOpen(accounts, order.owner, side, order.qty + hidden)
  BY DEF Insert
<1>4. /\ old \in PriceLevel
      /\ old.fifo \in Seq(Nat)
      /\ old.total_qty \in Int
      /\ IsInjective(old.fifo)
      /\ \A x : x \in ToSet(old.fifo) <=>
                  /\ x \in DOMAIN resting
                  /\ resting[x].side = side
                  /\ resting[x].price = price
  <2>1. CASE price \in DOMAIN levels[side]
    BY <1>1, <2>1, LevelFacts DEF LevelAt, FifoOf, PriceLevel
  <2>2. CASE price \notin DOMAIN levels[side]
    <3>1. old = EmptyLevel
      BY <2>2 DEF LevelAt
    <3>2. \A x \in DOMAIN resting :
             ~(resting[x].side = side /\ resting[x].price = price)
      BY <2>2, OrderFacts
    <3>3. /\ EmptyLevel \in PriceLevel
          /\ EmptyLevel.fifo = <<>>
          /\ EmptyLevel.total_qty = 0
          /\ IsInjective(<<>>)
          /\ ToSet(<<>>) = {}
      BY DEF EmptyLevel, PriceLevel, IsInjective, ToSet
    <3>. QED  BY <3>1, <3>2, <3>3
  <2>. QED  BY <2>1, <2>2
<1>5. id \notin ToSet(old.fifo)
  BY <1>4
<1>6. /\ LinkBack(old.fifo, id) \in Seq(Nat)
      /\ LinkBack(old.fifo, id) # <<>>
      /\ IsInjective(LinkBack(old.fifo, id))
      /\ ToSet(LinkBack(old.fifo, id)) = ToSet(old.fifo) \cup {id}
      /\ SamePlaces(old.fifo, LinkBack(old.fifo, id))
  <2>. HIDE DEF old
  <2>. QED  BY <1>4, <1>5, LinkBackFacts
<1>7. /\ level \in PriceLevel
      /\ level.fifo = LinkBack(old.fifo, id)
  <2>. HIDE DEF old
  <2>. QED  BY <1>1, <1>4, <1>6 DEF PriceLevel
<1>8. price \in DOMAIN levels[side] => FifoOf(side, price) = old.fifo
  BY DEF LevelAt, FifoOf
<1>. HIDE DEF level, old
<1>9. /\ DOMAIN resting' = DOMAIN resting \cup {id}
      /\ resting'[id] = order
      /\ \A x \in DOMAIN resting : resting'[x] = resting[x]
      /\ IsMap(resting', Nat, RestingOrder)
  <2>1. resting' = Put(resting, id, order)
    BY <1>3
  <2>2. IsMap(resting', Nat, RestingOrder)
    BY <1>2, <2>1, PutIsMap
  <2>. QED  BY <2>1, <2>2 DEF Put
<1>10. BookTypeOK'
  <2>1. LevelsTypeOK'
    BY <1>1, <1>2, <1>3, <1>7, SetLevelFacts
  <2>2. IsMap(reserves', Nat, Reserve)
    <3>1. [display |-> display, hidden |-> hidden] \in Reserve
      BY DEF Reserve
    <3>. QED  BY <1>2, <1>3, <3>1, PutIsMap
  <2>3. accounts' \in [Accounts -> AccountState]
    <3>1. order.qty + hidden \in Nat
      BY <1>1
    <3>. QED  BY <1>1, <1>2, <1>3, <3>1, AccountsTyped
  <2>. QED  BY <1>9, <2>1, <2>2, <2>3 DEF BookTypeOK
<1>11. IndexMatchesQueues'
  <2>1. \A i \in DOMAIN level.fifo :
           /\ level.fifo[i] \in DOMAIN resting'
           /\ resting'[level.fifo[i]].side = side
           /\ resting'[level.fifo[i]].price = price
    <3>1. \A i \in DOMAIN level.fifo :
             level.fifo[i] \in ToSet(old.fifo) \cup {id}
      BY <1>6, <1>7 DEF ToSet
    <3>. QED  BY <1>4, <1>9, <3>1
  <2>2. \A x \in DOMAIN resting' :
           \/ x \in ToSet(level.fifo)
           \/ /\ x \in DOMAIN resting
              /\ resting'[x].side = resting[x].side
              /\ resting'[x].price = resting[x].price
              /\ resting[x].side # side \/ resting[x].price # price
    BY <1>4, <1>6, <1>7, <1>9
  <2>3. IsInjective(level.fifo)
    BY <1>6, <1>7
  <2>. HIDE DEF side, price
  <2>. QED
    BY <1>1, <1>2, <1>3, <1>7, <1>9, <2>1, <2>2, <2>3, RequeueKeepsIndex
<1>12. NothingEmptyRests'
  <2>1. CASE hidden > 0
    <3> DEFINE reserve == [display |-> display, hidden |-> hidden]
    <3>1. reserves' = Put(reserves, id, reserve)
      BY <1>3, <2>1
    <3>2. reserve.display > 0 /\ reserve.hidden > 0
      BY <2>1
    <3>. HIDE DEF reserve
    <3>3. /\ DOMAIN reserves' = DOMAIN reserves \cup {id}
          /\ reserves'[id] = reserve
          /\ \A x \in DOMAIN reserves \ {id} : reserves'[x] = reserves[x]
      BY <3>1 DEF Put
    <3>. QED  BY <1>1, <1>2, <1>9, <3>2, <3>3 DEF NothingEmptyRests
  <2>2. CASE ~(hidden > 0)
    BY <1>1, <1>2, <1>3, <1>9, <2>2 DEF NothingEmptyRests
  <2>. QED  BY <2>1, <2>2
<1>13. QueuesKept
  <2>1. price \in DOMAIN levels[side] =>
           SamePlaces(FifoOf(side, price), level.fifo)
    BY <1>6, <1>7, <1>8
  <2>. HIDE DEF side, price
  <2>. QED  BY <1>1, <1>3, <1>7, <2>1, OneQueueKept
<1>14. /\ \A s \in Sides \ {side} : levels'[s] = levels[s]
       /\ DOMAIN levels'[side] = DOMAIN levels[side] \cup {price}
  <2>1. level.fifo # <<>>
    BY <1>6, <1>7
  <2>. HIDE DEF side, price
  <2>. QED  BY <1>1, <1>2, <1>3, <1>7, <2>1, SetLevelFacts
<1>. QED
  BY <1>9, <1>10, <1>11, <1>12, <1>13, <1>14 DEF BookInv

----------------------------------------------------------------------------
(* Fees are numbers, whatever the rate, the scale and the width *)

LEMMA ClampTyped ==
    ASSUME NEW fee \in Int
    PROVE  Clamp(fee) \in Int
BY FeeAssumption DEF Clamp

LEMMA DivFacts ==
    ASSUME NEW x \in Nat, NEW d \in Nat \ {0}
    PROVE  /\ x \div d \in Nat
           /\ d * (x \div d) <= x
           /\ x < d * (x \div d) + d
OBVIOUS

LEMMA ChargeTyped ==
    ASSUME NEW rate \in Int, NEW price \in Nat, NEW qty \in Nat
    PROVE  Charge(rate, price, qty) \in Int
<1>. DEFINE scaled == price * qty * rate
<1>1. scaled \in Int
  OBVIOUS
<1>. HIDE DEF scaled
<1>2. CASE scaled >= 0
  <2>1. scaled \div PpmScale \in Int
    BY <1>1, <1>2, DivFacts, FeeAssumption
  <2>. QED  BY <1>2, <2>1, ClampTyped DEF Charge, scaled
<1>3. CASE ~(scaled >= 0)
  <2>1. -((-scaled) \div PpmScale) \in Int
    BY <1>1, <1>3, DivFacts, FeeAssumption
  <2>. QED  BY <1>3, <2>1, ClampTyped DEF Charge, scaled
<1>. QED  BY <1>2, <1>3

LEMMA FeesTyped ==
    ASSUME NEW price \in Nat, NEW qty \in Nat
    PROVE  /\ TakerFee(price, qty) \in Int
           /\ MakerFee(price, qty) \in Int
BY ChargeTyped, FeeAssumption DEF TakerFee, MakerFee

----------------------------------------------------------------------------
(* Facts about the data *)

LEMMA ValidateTyped ==
    ASSUME NEW c \in Command
    PROVE  Validate(c) \in RejectReasons \cup {Ok}
<1>1. Structural(c) \in RejectReasons \cup {Ok}
  BY DEF Command, Structural, StructuralNew, StructuralModify,
         RejectReasons, Ok
<1>2. \A order, ctx : RiskNew(order, ctx) \in RejectReasons \cup {Ok}
  BY DEF RiskNew, RejectReasons, Ok
<1>3. \A modify, ctx : RiskModify(modify, ctx) \in RejectReasons \cup {Ok}
  BY DEF RiskModify, RejectReasons, Ok
<1>4. RiskVerdict(c) \in RejectReasons \cup {Ok}
  <2>1. c.op \in {"New", "Cancel", "Modify"}
    BY DEF Command
  <2>. QED  BY <2>1, <1>2, <1>3 DEF RiskVerdict, Ok
<1>. QED  BY <1>1, <1>4 DEF Validate, Ok

\* What an amendment that passed the gateway is sure to have.
LEMMA AmendmentHasQty ==
    ASSUME NEW id \in Nat, NEW a \in Amendments, Validate(Modify(id, a)) = Ok
    PROVE  a.qty \in Nat \ {0} /\ a.price \in Nat
<1>1. a.qty \in Nat /\ a.price \in Nat
  BY MenuAssumption DEF Amendment
<1>2. a.qty # 0
  <2>1. Structural(Modify(id, a)) = Ok
    BY DEF Validate
  <2>. QED  BY <2>1 DEF Structural, StructuralModify, Modify, Ok
<1>. QED  BY <1>1, <1>2

LEMMA CommandsTyped ==
    /\ \A order \in NewOrders : New(order) \in Command
    /\ \A id \in Nat : Cancel(id) \in Command
    /\ \A id \in Nat, a \in Amendments : Modify(id, a) \in Command
<1>1. \A order \in NewOrders : New(order) \in Command
  BY MenuAssumption DEF New, Command
<1>2. \A id \in Nat : Cancel(id) \in Command
  BY DEF Cancel, Command
<1>3. \A id \in Nat, a \in Amendments : Modify(id, a) \in Command
  BY MenuAssumption DEF Modify, Command, Amendment
<1>. QED  BY <1>1, <1>2, <1>3

LEMMA EventsTyped ==
    ASSUME NEW s \in Nat, NEW id \in Nat
    PROVE  /\ Accepted(s, id) \in Event
           /\ Filled(s, id) \in Event
           /\ Canceled(s, id) \in Event
           /\ Modified(s, id) \in Event
           /\ Triggered(s, id) \in Event
           /\ \A reason \in RejectReasons : Rejected(s, reason) \in Event
           /\ \A price, qty \in Nat : Resting(s, id, price, qty) \in Event
           /\ \A maker, price, qty \in Nat, side \in Sides,
                 taker_fee, maker_fee \in Int :
                 Trade(s, id, maker, price, qty, side, taker_fee, maker_fee)
                   \in Event
BY DEF Event, Accepted, Filled, Canceled, Modified, Triggered, Rejected,
       Resting, Trade

LEMMA PrecheckTyped ==
    ASSUME NEW side, NEW limit_price, NEW qty, NEW tif
    PROVE  Precheck(side, limit_price, qty, tif) \in RejectReasons \cup {Ok}
BY DEF Precheck, RejectReasons, Ok

LEMMA OppositeSide ==
    ASSUME NEW side \in Sides
    PROVE  /\ Opposite(side) \in Sides
           /\ Opposite(side) # side
           /\ Sides = {side, Opposite(side)}
BY DEF Opposite, Sides

LEMMA LiveOfTyped ==
    ASSUME NEW id \in Nat, NEW o, NEW limit_price \in Nat \cup {None},
           NEW display \in Nat,
           o.side \in Sides, o.qty \in Nat, o.tif \in Tifs,
           o.owner \in Owners, o.stp \in StpModes
    PROVE  LiveOf(id, o, limit_price, display) \in LiveOrder
BY DEF LiveOf, LiveOrder

\* The state of the book is all the invariants of the book depend on.
LEMMA UnchangedBook ==
    ASSUME BookInv, UNCHANGED bookVars
    PROVE  /\ BookInv'
           /\ QueuesKept
           /\ NoNewLevel
           /\ DOMAIN resting' = DOMAIN resting
<1>1. /\ levels' = levels
      /\ resting' = resting
      /\ reserves' = reserves
      /\ accounts' = accounts
  BY DEF bookVars
<1>2. BookInv'
  BY <1>1 DEF BookInv, BookTypeOK, LevelsTypeOK, IndexMatchesQueues,
              NothingEmptyRests, FifoOf
<1>3. QueuesKept
  BY <1>1, LevelFacts, UnmovedQueue DEF QueuesKept, FifoOf
<1>. QED  BY <1>1, <1>2, <1>3 DEF NoNewLevel

\* The invariant the proofs carry: the book, the call and that every order
\* has one home.
Inv == BookInv /\ CallTypeOK /\ OneHome

----------------------------------------------------------------------------
(* What the steps have in common *)

LEMMA PlacesKept ==
    ASSUME QueuesKept
    PROVE  KeepsPlaceStep
BY DEF QueuesKept, SamePlaces, KeepsPlaceStep, FifoOf

LEMMA StillNotCrossed ==
    ASSUME NotCrossed, NoNewLevel
    PROVE  NotCrossed'
BY DEF NotCrossed, NoNewLevel, Sides

\* No order enters any of the places.
LEMMA StillOneHome ==
    ASSUME Inv, stops' = stops, LiveIds' \subseteq LiveIds,
           DOMAIN resting' \subseteq DOMAIN resting,
           next_order_id' \in Nat, next_order_id' >= next_order_id
    PROVE  OneHome'
<1>1. StopIds' = StopIds
  BY DEF StopIds
<1>2. /\ \A i, j \in DOMAIN stops : stops[i].id = stops[j].id => i = j
      /\ StopIds \cap DOMAIN resting = {}
      /\ LiveIds \cap (StopIds \cup DOMAIN resting) = {}
      /\ \A id \in StopIds \cup DOMAIN resting \cup LiveIds :
            id < next_order_id
  BY DEF Inv, OneHome
<1>3. StopIds \cup DOMAIN resting \cup LiveIds \subseteq Nat
  <2>1. StopIds \subseteq Nat
    <3>1. \A i \in DOMAIN stops : stops[i] \in PendingStop
      BY DEF Inv, CallTypeOK
    <3>2. \A i \in DOMAIN stops : stops[i].id \in Nat
      BY <3>1 DEF PendingStop
    <3>. QED  BY <3>2 DEF StopIds
  <2>2. DOMAIN resting \subseteq Nat
    BY DEF Inv, BookInv, BookTypeOK, IsMap
  <2>3. LiveIds \subseteq Nat
    BY DEF Inv, CallTypeOK, LiveIds, LiveOrder
  <2>. QED  BY <2>1, <2>2, <2>3
<1>4. \A id \in StopIds \cup DOMAIN resting \cup LiveIds :
          id < next_order_id'
  BY <1>2, <1>3 DEF Inv, CallTypeOK
<1>. QED  BY <1>1, <1>2, <1>4 DEF OneHome

\* A command that is answered at once.
LEMMA AnsweredAtOnce ==
    ASSUME CallTypeOK, NEW c \in Command, Submit(c), phase' = "done",
           live' = live, stops' \in Seq(PendingStop), next_order_id' \in Nat,
           last_trade_price' = last_trade_price, out' \in Seq(Event)
    PROVE  CallTypeOK' /\ LiveIds' = {}
BY DEF CallTypeOK, Submit, LiveIds

\* A stop leaves the dormant ones.
LEMMA StopLeaves ==
    ASSUME CallTypeOK, OneHome, NEW i \in DOMAIN stops,
           stops' = WithoutStop(i)
    PROVE  /\ stops' \in Seq(PendingStop)
           /\ \A j, k \in DOMAIN stops' : stops'[j].id = stops'[k].id => j = k
           /\ StopIds' = StopIds \ {stops[i].id}
           /\ \A j \in DOMAIN stops' : \E k \in DOMAIN stops :
                 stops'[j] = stops[k]
<1>. DEFINE old(j) == IF j < i THEN j ELSE j + 1
<1>1. /\ stops \in Seq(PendingStop)
      /\ DOMAIN stops = 1..Len(stops)
      /\ Len(stops) \in Nat
      /\ i \in 1..Len(stops)
  BY DEF CallTypeOK
<1>2. /\ stops' \in Seq(PendingStop)
      /\ DOMAIN stops' = 1..(Len(stops) - 1)
      /\ \A j \in 1..(Len(stops) - 1) : stops'[j] = stops[old(j)]
  BY <1>1, RemoveAtFacts DEF WithoutStop
<1>3. \A j \in 1..(Len(stops) - 1) : old(j) \in DOMAIN stops /\ old(j) # i
  BY <1>1
<1>4. \A j, k \in 1..(Len(stops) - 1) : old(j) = old(k) => j = k
  BY <1>1
<1>5. \A m \in DOMAIN stops : m # i =>
          \E j \in 1..(Len(stops) - 1) : old(j) = m
  <2>. SUFFICES ASSUME NEW m \in DOMAIN stops, m # i
                PROVE  \E j \in 1..(Len(stops) - 1) : old(j) = m
    OBVIOUS
  <2>1. CASE m < i
    BY <2>1, <1>1
  <2>2. CASE m > i
    <3>1. m - 1 \in 1..(Len(stops) - 1) /\ old(m - 1) = m
      BY <2>2, <1>1
    <3>. QED  BY <3>1
  <2>. QED  BY <2>1, <2>2, <1>1
<1>6. \A j, k \in DOMAIN stops : stops[j].id = stops[k].id => j = k
  BY DEF OneHome
<1>. HIDE DEF old
<1>7. \A j, k \in DOMAIN stops' : stops'[j].id = stops'[k].id => j = k
  BY <1>2, <1>3, <1>4, <1>6
<1>8. StopIds' = StopIds \ {stops[i].id}
  <2>1. \A j \in DOMAIN stops' : stops'[j].id \in StopIds \ {stops[i].id}
    BY <1>2, <1>3, <1>6 DEF StopIds
  <2>2. \A m \in DOMAIN stops : m # i => stops[m].id \in StopIds'
    <3>. SUFFICES ASSUME NEW m \in DOMAIN stops, m # i
                  PROVE  \E j \in DOMAIN stops' : stops[m].id = stops'[j].id
      BY DEF StopIds
    <3>1. PICK j \in 1..(Len(stops) - 1) : old(j) = m
      BY <1>5
    <3>. QED  BY <3>1, <1>2
  <2>3. StopIds' = {stops'[j].id : j \in DOMAIN stops'}
    BY DEF StopIds
  <2>4. StopIds = {stops[j].id : j \in DOMAIN stops}
    BY DEF StopIds
  <2>5. StopIds' \subseteq StopIds \ {stops[i].id}
    BY <2>1, <2>3
  <2>6. StopIds \ {stops[i].id} \subseteq StopIds'
    BY <2>2, <2>4
  <2>. QED  BY <2>5, <2>6
<1>9. \A j \in DOMAIN stops' : \E k \in DOMAIN stops : stops'[j] = stops[k]
  BY <1>2, <1>3
<1>. QED  BY <1>2, <1>7, <1>8, <1>9

\* The tail of settle.
LEMMA SelfCancelsTyped ==
    ASSUME seq \in Nat, NEW ids \in Seq(Nat)
    PROVE  SelfCancels(ids) \in Seq(Event)
<1>1. PICK cancels : cancels = SelfCancels(ids)
  OBVIOUS
<1>2. cancels = [i \in 1..Len(ids) |-> Canceled(seq, ids[i])]
  BY <1>1 DEF SelfCancels
<1>3. \A i \in 1..Len(ids) : Canceled(seq, ids[i]) \in Event
  BY EventsTyped
<1>4. cancels \in Seq(Event)
  BY <1>2, <1>3
<1>. QED  BY <1>1, <1>4

LEMMA FinishTyped ==
    ASSUME CallTypeOK, phase = "match", NEW ids \in Seq(Nat),
           NEW event \in Event, FinishWith(ids, event)
    PROVE  /\ CallTypeOK'
           /\ LiveIds' = {}
           /\ stops' = stops
           /\ next_order_id' = next_order_id
<1>1. SelfCancels(ids) \in Seq(Event)
  BY SelfCancelsTyped DEF CallTypeOK
<1>2. out' \in Seq(Event)
  <2>1. out \in Seq(Event)
    BY DEF CallTypeOK
  <2>2. out \o SelfCancels(ids) \in Seq(Event)
    BY <1>1, <2>1
  <2>3. out' = (out \o SelfCancels(ids)) \o <<event>>
    BY DEF FinishWith
  <2>. QED  BY <2>2, <2>3
<1>3. last_trade_price' \in Nat \cup {None}
  BY DEF CallTypeOK, FinishWith, LiveOrder
<1>4. /\ phase' = "stops"
      /\ live' = None
      /\ UNCHANGED <<seq, next_order_id, stops, command>>
  BY DEF FinishWith
<1>. QED  BY <1>2, <1>3, <1>4 DEF CallTypeOK, LiveIds

----------------------------------------------------------------------------
(* The actions, one lemma each: what a step preserves and what it may not   *)
(* do                                                                       *)

StepKeeps == Inv' /\ KeepsPlaceStep /\ (NotCrossed => NotCrossed')

LEMMA BookUntouched ==
    ASSUME Inv, UNCHANGED bookVars, CallTypeOK', OneHome'
    PROVE  StepKeeps
<1>1. BookInv' /\ QueuesKept /\ NoNewLevel
  BY UnchangedBook DEF Inv
<1>. QED  BY <1>1, PlacesKept, StillNotCrossed DEF StepKeeps, Inv

LEMMA RejectCommandKeeps ==
    ASSUME Inv, NEW c \in Command, RejectCommand(c)
    PROVE  StepKeeps
<1>1. out' \in Seq(Event)
  <2>1. Validate(c) \in RejectReasons
    BY ValidateTyped DEF RejectCommand
  <2>2. seq + 1 \in Nat
    BY DEF Inv, CallTypeOK
  <2>3. Rejected(seq + 1, Validate(c)) \in Event
    BY <2>1, <2>2 DEF Rejected, Event
  <2>. QED  BY <2>3 DEF RejectCommand
<1>2. /\ Submit(c)
      /\ phase' = "done"
      /\ UNCHANGED <<bookVars, next_order_id, stops, last_trade_price, live>>
  BY DEF RejectCommand
<1>3. CallTypeOK' /\ LiveIds' = {}
  BY <1>1, <1>2, AnsweredAtOnce DEF Inv, CallTypeOK
<1>4. OneHome'
  BY <1>2, <1>3, StillOneHome DEF bookVars, Inv, CallTypeOK
<1>. QED  BY <1>2, <1>3, <1>4, BookUntouched

LEMMA ParkStopKeeps ==
    ASSUME Inv, NEW order \in NewOrders, ParkStop(order)
    PROVE  StepKeeps
<1>. DEFINE stop == PendingStopOf(order)
<1>1. /\ next_order_id \in Nat
      /\ seq + 1 \in Nat
      /\ stops \in Seq(PendingStop)
      /\ phase = "idle"
      /\ New(order) \in Command
  BY CommandsTyped DEF Inv, CallTypeOK, ParkStop, Admit, Submit
<1>2. stop \in PendingStop
  <2>1. order \in NewOrder
    BY MenuAssumption
  <2>. QED  BY <1>1, <2>1 DEF PendingStopOf, PendingStop, NewOrder
<1>3. stops' = Append(stops, stop) /\ stops' \in Seq(PendingStop)
  BY <1>1, <1>2 DEF ParkStop
<1>4. out' \in Seq(Event)
  <2>1. Accepted(seq + 1, next_order_id) \in Event
    BY <1>1, EventsTyped
  <2>. QED  BY <2>1 DEF ParkStop
<1>5. /\ UNCHANGED <<bookVars, last_trade_price, live>>
      /\ next_order_id' = next_order_id + 1
      /\ phase' = "stops"
      /\ Submit(New(order))
  BY DEF ParkStop, TakeOrderId, Admit
<1>6. CallTypeOK'
  BY <1>1, <1>3, <1>4, <1>5 DEF Inv, CallTypeOK, Submit
<1>7. LiveIds = {} /\ LiveIds' = {}
  BY <1>1, <1>5 DEF LiveIds
<1>8. StopIds' = StopIds \cup {next_order_id}
  <2>. HIDE DEF stop
  <2>1. /\ DOMAIN stops = 1..Len(stops)
        /\ DOMAIN stops' = 1..(Len(stops) + 1)
        /\ \A i \in 1..Len(stops) : stops'[i] = stops[i]
        /\ stops'[Len(stops) + 1] = stop
        /\ Len(stops) \in Nat
    BY <1>1, <1>2, <1>3
  <2>2. stop.id = next_order_id
    BY DEF stop, PendingStopOf
  <2>3. \A x : x \in StopIds' <=> \E i \in 1..(Len(stops) + 1) : x = stops'[i].id
    BY <2>1 DEF StopIds
  <2>4. \A x : x \in StopIds <=> \E i \in 1..Len(stops) : x = stops[i].id
    BY <2>1 DEF StopIds
  <2>. QED  BY <2>1, <2>2, <2>3, <2>4
<1>9. next_order_id \notin StopIds \cup DOMAIN resting
  BY <1>1 DEF Inv, OneHome
<1>10. \A i, j \in DOMAIN stops' : stops'[i].id = stops'[j].id => i = j
  <2>. HIDE DEF stop
  <2>1. /\ DOMAIN stops = 1..Len(stops)
        /\ DOMAIN stops' = 1..(Len(stops) + 1)
        /\ \A i \in 1..Len(stops) : stops'[i] = stops[i]
        /\ stops'[Len(stops) + 1] = stop
        /\ Len(stops) \in Nat
    BY <1>1, <1>2, <1>3
  <2>2. stop.id = next_order_id
    BY DEF stop, PendingStopOf
  <2>3. \A i \in 1..Len(stops) : stops[i].id # next_order_id
    BY <1>9, <2>1 DEF StopIds
  <2>4. \A i, j \in 1..Len(stops) : stops[i].id = stops[j].id => i = j
    BY <2>1 DEF Inv, OneHome
  <2>. QED  BY <2>1, <2>2, <2>3, <2>4
<1>11. resting' = resting
  BY <1>5 DEF bookVars
<1>12. \A id \in StopIds' \cup DOMAIN resting' \cup LiveIds' :
           id < next_order_id'
  <2>1. \A id \in StopIds \cup DOMAIN resting : id \in Nat /\ id < next_order_id
    <3>1. \A i \in DOMAIN stops : stops[i].id \in Nat
      <4>1. \A i \in DOMAIN stops : stops[i] \in PendingStop
        BY <1>1
      <4>. QED  BY <4>1 DEF PendingStop
    <3>2. DOMAIN resting \subseteq Nat
      BY DEF Inv, BookInv, BookTypeOK, IsMap
    <3>. QED  BY <3>1, <3>2 DEF Inv, OneHome, StopIds
  <2>. QED  BY <1>1, <1>5, <1>7, <1>8, <1>11, <2>1
<1>13. OneHome'
  BY <1>7, <1>8, <1>9, <1>10, <1>11, <1>12 DEF Inv, OneHome
<1>. QED  BY <1>5, <1>6, <1>13, BookUntouched

LEMMA RefuseOrderKeeps ==
    ASSUME Inv, NEW order \in NewOrders, RefuseOrder(order)
    PROVE  StepKeeps
<1>1. out' \in Seq(Event)
  <2>1. EntryCheck(order) \in RejectReasons
    BY PrecheckTyped DEF RefuseOrder, EntryCheck
  <2>2. seq + 1 \in Nat
    BY DEF Inv, CallTypeOK
  <2>3. Rejected(seq + 1, EntryCheck(order)) \in Event
    BY <2>1, <2>2 DEF Rejected, Event
  <2>. QED  BY <2>3 DEF RefuseOrder
<1>2. /\ Submit(New(order))
      /\ phase' = "done"
      /\ next_order_id' = next_order_id + 1
      /\ UNCHANGED <<bookVars, stops, last_trade_price, live>>
  BY DEF RefuseOrder, Admit, TakeOrderId
<1>3. CallTypeOK' /\ LiveIds' = {}
  BY <1>1, <1>2, AnsweredAtOnce, CommandsTyped DEF Inv, CallTypeOK
<1>4. OneHome'
  BY <1>2, <1>3, StillOneHome DEF bookVars, Inv, CallTypeOK
<1>. QED  BY <1>2, <1>3, <1>4, BookUntouched

LEMMA AcceptOrderKeeps ==
    ASSUME Inv, NEW order \in NewOrders, AcceptOrder(order)
    PROVE  StepKeeps
<1>1. /\ next_order_id \in Nat
      /\ seq + 1 \in Nat
      /\ phase = "idle"
      /\ New(order) \in Command
      /\ order \in NewOrder
  BY CommandsTyped, MenuAssumption
     DEF Inv, CallTypeOK, AcceptOrder, Admit, Submit
<1>2. /\ Submit(New(order))
      /\ phase' = "match"
      /\ next_order_id' = next_order_id + 1
      /\ live' = LiveOf(next_order_id, order, LimitOf(order), DisplayOf(order))
      /\ UNCHANGED <<bookVars, stops, last_trade_price>>
  BY DEF AcceptOrder, Admit, TakeOrderId
<1>3. live' \in LiveOrder
  <2>1. /\ LimitOf(order) \in Nat \cup {None}
        /\ DisplayOf(order) \in Nat
    BY <1>1 DEF LimitOf, DisplayOf, NewOrder
  <2>2. /\ order.side \in Sides
        /\ order.qty \in Nat
        /\ order.tif \in Tifs
        /\ order.owner \in Owners
        /\ order.stp \in StpModes
    BY <1>1 DEF NewOrder
  <2>. QED  BY <1>1, <1>2, <2>1, <2>2, LiveOfTyped
<1>4. out' \in Seq(Event)
  <2>1. Accepted(seq + 1, next_order_id) \in Event
    BY <1>1, EventsTyped
  <2>. QED  BY <2>1 DEF AcceptOrder
<1>5. CallTypeOK'
  BY <1>1, <1>2, <1>3, <1>4 DEF Inv, CallTypeOK, Submit
<1>6. LiveIds = {} /\ LiveIds' = {next_order_id}
  BY <1>1, <1>2 DEF LiveIds, LiveOf
<1>7. StopIds' = StopIds /\ resting' = resting /\ stops' = stops
  BY <1>2 DEF StopIds, bookVars
<1>8. \A id \in StopIds \cup DOMAIN resting : id \in Nat /\ id < next_order_id
  <2>1. \A i \in DOMAIN stops : stops[i].id \in Nat
    <3>1. \A i \in DOMAIN stops : stops[i] \in PendingStop
      BY DEF Inv, CallTypeOK
    <3>. QED  BY <3>1 DEF PendingStop
  <2>2. DOMAIN resting \subseteq Nat
    BY DEF Inv, BookInv, BookTypeOK, IsMap
  <2>. QED  BY <2>1, <2>2 DEF Inv, OneHome, StopIds
<1>9. OneHome'
  <2>1. \A id \in StopIds' \cup DOMAIN resting' \cup LiveIds' :
            id < next_order_id'
    BY <1>1, <1>2, <1>6, <1>7, <1>8
  <2>2. next_order_id \notin StopIds \cup DOMAIN resting
    BY <1>1, <1>8
  <2>. QED  BY <1>6, <1>7, <2>1, <2>2 DEF Inv, OneHome
<1>. QED  BY <1>2, <1>5, <1>9, BookUntouched

LEMMA CancelInBookKeeps ==
    ASSUME Inv, NEW id \in Nat, CancelInBook(id)
    PROVE  StepKeeps
<1>1. /\ Submit(Cancel(id))
      /\ phase' = "done"
      /\ UNCHANGED <<next_order_id, stops, last_trade_price, live>>
      /\ id \in DOMAIN resting
      /\ CancelResting(id)
  BY DEF CancelInBook, Admit
<1>2. out' \in Seq(Event)
  <2>1. Canceled(seq + 1, id) \in Event
    BY EventsTyped DEF Inv, CallTypeOK
  <2>. QED  BY <2>1 DEF CancelInBook
<1>3. CallTypeOK' /\ LiveIds' = {}
  BY <1>1, <1>2, AnsweredAtOnce, CommandsTyped DEF Inv, CallTypeOK
<1>4. /\ BookInv'
      /\ QueuesKept
      /\ NoNewLevel
      /\ DOMAIN resting' = DOMAIN resting \ {id}
  BY <1>1, CancelKeepsBook DEF Inv
<1>5. OneHome'
  BY <1>1, <1>3, <1>4, StillOneHome DEF Inv, CallTypeOK
<1>. QED  BY <1>3, <1>4, <1>5, PlacesKept, StillNotCrossed DEF StepKeeps, Inv

LEMMA CancelStopKeeps ==
    ASSUME Inv, NEW id \in Nat, CancelStop(id)
    PROVE  StepKeeps
<1>1. /\ Submit(Cancel(id))
      /\ phase' = "done"
      /\ UNCHANGED <<bookVars, next_order_id, last_trade_price, live>>
  BY DEF CancelStop, Admit
<1>2. PICK i \in DOMAIN stops : stops' = WithoutStop(i)
  BY DEF CancelStop
<1>3. /\ stops' \in Seq(PendingStop)
      /\ \A j, k \in DOMAIN stops' : stops'[j].id = stops'[k].id => j = k
      /\ StopIds' = StopIds \ {stops[i].id}
  BY <1>2, StopLeaves DEF Inv
<1>4. out' \in Seq(Event)
  <2>1. Canceled(seq + 1, id) \in Event
    BY EventsTyped DEF Inv, CallTypeOK
  <2>. QED  BY <2>1 DEF CancelStop
<1>5. CallTypeOK' /\ LiveIds' = {}
  BY <1>1, <1>3, <1>4, AnsweredAtOnce, CommandsTyped DEF Inv, CallTypeOK
<1>6. OneHome'
  BY <1>1, <1>3, <1>5 DEF Inv, OneHome, bookVars
<1>. QED  BY <1>1, <1>5, <1>6, BookUntouched

LEMMA UnknownKeeps ==
    ASSUME Inv, NEW c \in Command, Submit(c), phase' = "done",
           UNCHANGED <<bookVars, next_order_id, stops, last_trade_price, live>>,
           out' = <<Rejected(seq + 1, "UnknownOrder")>>
    PROVE  StepKeeps
<1>1. out' \in Seq(Event)
  <2>1. Rejected(seq + 1, "UnknownOrder") \in Event
    BY EventsTyped DEF Inv, CallTypeOK, RejectReasons
  <2>. QED  BY <2>1
<1>2. CallTypeOK' /\ LiveIds' = {}
  BY <1>1, AnsweredAtOnce DEF Inv, CallTypeOK
<1>3. OneHome'
  BY <1>2, StillOneHome DEF bookVars, Inv, CallTypeOK
<1>. QED  BY <1>2, <1>3, BookUntouched

LEMMA ModifyInPlaceKeeps ==
    ASSUME Inv, NEW id \in Nat, NEW a \in Amendments, ModifyInPlace(id, a)
    PROVE  StepKeeps
<1>1. /\ Submit(Modify(id, a))
      /\ Validate(Modify(id, a)) = Ok
      /\ phase' = "done"
      /\ UNCHANGED <<next_order_id, stops, last_trade_price, live>>
      /\ id \in DOMAIN resting
      /\ IF a.qty < resting[id].qty THEN Reduce(id, a.qty)
         ELSE UNCHANGED bookVars
  BY DEF ModifyInPlace, Admit
<1>2. a.qty \in Nat \ {0} /\ a.price \in Nat
  BY <1>1, AmendmentHasQty
<1>3. out' \in Seq(Event)
  <2>1. PICK s, price, qty : s = seq + 1 /\ price = a.price /\ qty = a.qty
    OBVIOUS
  <2>2. s \in Nat /\ price \in Nat /\ qty \in Nat
    BY <1>2, <2>1 DEF Inv, CallTypeOK
  <2>3. Modified(s, id) \in Event /\ Resting(s, id, price, qty) \in Event
    BY <2>2, EventsTyped
  <2>. QED  BY <2>1, <2>3 DEF ModifyInPlace
<1>4. CallTypeOK' /\ LiveIds' = {}
  BY <1>1, <1>3, AnsweredAtOnce, CommandsTyped DEF Inv, CallTypeOK
<1>5. /\ BookInv'
      /\ QueuesKept
      /\ NoNewLevel
      /\ DOMAIN resting' = DOMAIN resting
  <2>1. CASE a.qty < resting[id].qty
    BY <1>1, <1>2, <2>1, ReduceKeepsBook DEF Inv
  <2>2. CASE ~(a.qty < resting[id].qty)
    BY <1>1, <2>2, UnchangedBook DEF Inv
  <2>. QED  BY <2>1, <2>2
<1>6. OneHome'
  BY <1>1, <1>4, <1>5, StillOneHome DEF Inv, CallTypeOK
<1>. QED  BY <1>4, <1>5, <1>6, PlacesKept, StillNotCrossed DEF StepKeeps, Inv

LEMMA ModifyReplaceKeeps ==
    ASSUME Inv, NEW id \in Nat, NEW a \in Amendments, ModifyReplace(id, a)
    PROVE  StepKeeps
<1>1. /\ Submit(Modify(id, a))
      /\ Validate(Modify(id, a)) = Ok
      /\ phase' = "match"
      /\ UNCHANGED <<next_order_id, stops, last_trade_price>>
      /\ id \in DOMAIN resting
      /\ CancelResting(id)
      /\ live' = ReplacementOf(id, a)
  BY DEF ModifyReplace, Admit
<1>2. a.qty \in Nat \ {0} /\ a.price \in Nat
  BY <1>1, AmendmentHasQty
<1>3. out' \in Seq(Event)
  <2>1. Modified(seq + 1, id) \in Event
    BY EventsTyped DEF Inv, CallTypeOK
  <2>. QED  BY <2>1 DEF ModifyReplace
<1>4. live' \in LiveOrder /\ live'.order_id = id
  <2>1. resting[id].side \in Sides /\ resting[id].owner \in Owners
    BY <1>1, OrderFacts DEF Inv
  <2>2. id \in DOMAIN reserves => reserves[id].display \in Nat
    <3>1. id \in DOMAIN reserves => reserves[id] \in Reserve
      BY DEF Inv, BookInv, BookTypeOK, IsMap
    <3>. QED  BY <3>1 DEF Reserve
  <2>3. (IF id \in DOMAIN reserves THEN reserves[id].display ELSE 0) \in Nat
    BY <2>2
  <2>. QED  BY <1>1, <1>2, <2>1, <2>3
            DEF ReplacementOf, LiveOrder, Tifs, StpModes
<1>5. CallTypeOK'
  <2>1. /\ phase = "idle"
        /\ seq' = seq + 1
        /\ command' = Modify(id, a)
    BY <1>1 DEF Submit
  <2>2. command' \in Command
    BY <2>1, CommandsTyped
  <2>. QED  BY <1>1, <1>3, <1>4, <2>1, <2>2 DEF Inv, CallTypeOK
<1>6. /\ BookInv'
      /\ QueuesKept
      /\ NoNewLevel
      /\ DOMAIN resting' = DOMAIN resting \ {id}
  BY <1>1, CancelKeepsBook DEF Inv
<1>7. LiveIds' = {id} /\ StopIds' = StopIds /\ LiveIds = {}
  BY <1>1, <1>4 DEF LiveIds, StopIds, Submit
<1>8. OneHome'
  BY <1>1, <1>6, <1>7 DEF Inv, OneHome
<1>. QED  BY <1>5, <1>6, <1>8, PlacesKept, StillNotCrossed DEF StepKeeps, Inv

\* The live order and the maker it meets.
LEMMA LiveFacts ==
    ASSUME Inv, phase = "match"
    PROVE  /\ live \in LiveOrder
           /\ live.order_id \in Nat
           /\ live.side \in Sides
           /\ MakerSide \in Sides
           /\ live.limit_price \in Nat \cup {None}
           /\ live.qty \in Nat
           /\ live.display \in Nat
           /\ live.owner \in Owners
           /\ live.self_canceled \in Seq(Nat)
           /\ seq \in Nat
           /\ out \in Seq(Event)
<1>1. live \in LiveOrder
  BY DEF Inv, CallTypeOK
<1>2. live.side \in Sides
  BY <1>1 DEF LiveOrder
<1>3. MakerSide \in Sides
  BY <1>2, OppositeSide DEF MakerSide
<1>. QED  BY <1>1, <1>3 DEF LiveOrder, Inv, CallTypeOK

LEMMA MakerFacts ==
    ASSUME Inv, phase = "match", NEW price \in DOMAIN levels[MakerSide]
    PROVE  /\ HeadOf(price) = Head(FifoOf(MakerSide, price))
           /\ HeadOf(price) \in DOMAIN resting
           /\ HeadOf(price) \in Nat
           /\ resting[HeadOf(price)].qty \in Nat \ {0}
           /\ price \in Nat
<1>1. MakerSide \in Sides
  BY LiveFacts
<1>2. HeadOf(price) = Head(FifoOf(MakerSide, price))
  BY DEF HeadOf, FifoOf
<1>3. /\ HeadOf(price) \in DOMAIN resting
      /\ resting[HeadOf(price)].qty \in Nat \ {0}
  BY <1>1, <1>2, HeadFacts DEF Inv
<1>4. HeadOf(price) \in Nat
  BY <1>3, OrderFacts DEF Inv
<1>5. price \in Nat
  BY <1>1, LevelFacts DEF Inv
<1>. QED  BY <1>2, <1>3, <1>4, <1>5

LEMMA TradeWithHeadKeeps ==
    ASSUME Inv, phase = "match", NEW price \in DOMAIN levels[MakerSide],
           TradeWithHead(price)
    PROVE  StepKeeps
<1>. DEFINE maker  == HeadOf(price)
            traded == Min({live.qty, resting[maker].qty})
<1>1. /\ live \in LiveOrder
      /\ live.order_id \in Nat
      /\ live.side \in Sides
      /\ live.qty \in Nat
      /\ live.owner \in Owners
      /\ MakerSide \in Sides
      /\ seq \in Nat
      /\ out \in Seq(Event)
  BY LiveFacts
<1>2. /\ maker = Head(FifoOf(MakerSide, price))
      /\ maker \in Nat
      /\ resting[maker].qty \in Nat \ {0}
      /\ price \in Nat
  BY MakerFacts
<1>3. traded \in Nat /\ traded <= live.qty
  <2>1. /\ traded = IF live.qty <= resting[maker].qty THEN live.qty
                    ELSE resting[maker].qty
        /\ traded \in Nat
    BY <1>1, <1>2, MinOfTwo
  <2>. QED  BY <1>1, <1>2, <2>1
<1>4. /\ FillHead(MakerSide, price, traded, live.owner)
      /\ live' = [live EXCEPT !.qty = live.qty - traded, !.last_px = price]
      /\ out' = Append(out, Trade(seq, live.order_id, maker, price, traded,
                                  live.side, TakerFee(price, traded),
                                  MakerFee(price, traded)))
      /\ UNCHANGED <<seq, next_order_id, stops, last_trade_price, phase,
                     command>>
  BY DEF TradeWithHead
<1>. HIDE DEF maker, traded
<1>5. live' \in LiveOrder /\ live'.qty = live.qty - traded
      /\ live'.order_id = live.order_id
  <2>. DEFINE left == live.qty - traded
  <2>1. left \in Nat
    BY <1>1, <1>3
  <2>2. live' = [live EXCEPT !.qty = left, !.last_px = price]
    BY <1>4
  <2>. HIDE DEF left
  <2>3. live' \in LiveOrder /\ live'.qty = left
        /\ live'.order_id = live.order_id
    BY <1>1, <1>2, <2>1, <2>2 DEF LiveOrder
  <2>. QED  BY <2>3 DEF left
<1>6. out' \in Seq(Event)
  <2>1. /\ TakerFee(price, traded) \in Int
        /\ MakerFee(price, traded) \in Int
    BY <1>2, <1>3, FeesTyped
  <2>2. Trade(seq, live.order_id, maker, price, traded, live.side,
              TakerFee(price, traded), MakerFee(price, traded)) \in Event
    BY <1>1, <1>2, <1>3, <2>1, EventsTyped
  <2>. QED  BY <1>1, <1>4, <2>2
<1>7. CallTypeOK'
  BY <1>4, <1>5, <1>6 DEF Inv, CallTypeOK
<1>8. /\ BookInv'
      /\ NoNewLevel
      /\ DOMAIN resting' \subseteq DOMAIN resting
      /\ \/ QueuesKept
         \/ /\ QueuesKeptBut(maker)
            /\ maker \in DOMAIN reserves
            /\ traded = resting[maker].qty
  BY <1>1, <1>2, <1>3, <1>4, FillHeadKeepsBook DEF Inv
<1>9. OneHome'
  <2>1. LiveIds' = LiveIds
    BY <1>4, <1>5 DEF LiveIds
  <2>. QED  BY <1>4, <1>8, <2>1, StillOneHome DEF Inv, CallTypeOK
<1>10. KeepsPlaceStep
  <2>1. CASE QueuesKept
    BY <2>1, PlacesKept
  <2>2. CASE /\ QueuesKeptBut(maker)
             /\ maker \in DOMAIN reserves
             /\ traded = resting[maker].qty
    <3>1. live.qty - live'.qty = resting[maker].qty
      BY <1>1, <1>3, <1>5, <2>2
    <3>2. PeakConsumed(maker)
      BY <1>4, <2>2, <3>1 DEF PeakConsumed
    <3>. QED  BY <2>2, <3>2
              DEF QueuesKeptBut, SamePlacesBut, KeepsPlaceStep, FifoOf
  <2>. QED  BY <1>8, <2>1, <2>2
<1>. QED  BY <1>7, <1>8, <1>9, <1>10, StillNotCrossed DEF StepKeeps, Inv

LEMMA CancelMakerKeeps ==
    ASSUME Inv, phase = "match", NEW price \in DOMAIN levels[MakerSide],
           CancelMaker(price)
    PROVE  StepKeeps
<1>1. /\ Detach(MakerSide, price)
      /\ live' = [live EXCEPT !.self_canceled =
                      Append(live.self_canceled, HeadOf(price))]
      /\ UNCHANGED <<seq, next_order_id, stops, last_trade_price, phase,
                     command, out>>
  BY DEF CancelMaker
<1>2. live \in LiveOrder /\ live.self_canceled \in Seq(Nat)
      /\ MakerSide \in Sides /\ HeadOf(price) \in Nat
  BY LiveFacts, MakerFacts
<1>3. Append(live.self_canceled, HeadOf(price)) \in Seq(Nat)
  BY <1>2
<1>4. live' \in LiveOrder /\ live'.order_id = live.order_id
  BY <1>1, <1>2, <1>3 DEF LiveOrder
<1>5. CallTypeOK'
  BY <1>1, <1>4 DEF Inv, CallTypeOK
<1>6. /\ BookInv'
      /\ QueuesKept
      /\ NoNewLevel
      /\ DOMAIN resting' \subseteq DOMAIN resting
  BY <1>1, <1>2, DetachKeepsBook DEF Inv
<1>7. OneHome'
  <2>1. LiveIds' = LiveIds
    BY <1>1, <1>4 DEF LiveIds
  <2>. QED  BY <1>1, <1>6, <2>1, StillOneHome DEF Inv, CallTypeOK
<1>. QED  BY <1>5, <1>6, <1>7, PlacesKept, StillNotCrossed DEF StepKeeps, Inv

\* Settling without touching the book.
LEMMA FinishKeeps ==
    ASSUME Inv, phase = "match", NEW event \in Event, UNCHANGED bookVars,
           FinishWith(live.self_canceled, event)
    PROVE  StepKeeps
<1>1. /\ CallTypeOK'
      /\ LiveIds' = {}
      /\ stops' = stops
      /\ next_order_id' = next_order_id
  BY LiveFacts, FinishTyped DEF Inv
<1>2. OneHome'
  BY <1>1, StillOneHome DEF bookVars, Inv, CallTypeOK
<1>. QED  BY <1>1, <1>2, BookUntouched

LEMMA CancelTakerKeeps ==
    ASSUME Inv, phase = "match", NEW price, CancelTaker(price)
    PROVE  StepKeeps
<1>1. Canceled(seq, live.order_id) \in Event
  BY LiveFacts, EventsTyped
<1>. QED  BY <1>1, FinishKeeps DEF CancelTaker

LEMMA FinishFilledKeeps ==
    ASSUME Inv, FinishFilled
    PROVE  StepKeeps
<1>1. phase = "match"
  BY DEF FinishFilled
<1>2. Filled(seq, live.order_id) \in Event
  BY <1>1, LiveFacts, EventsTyped
<1>. QED  BY <1>1, <1>2, FinishKeeps DEF FinishFilled

LEMMA CancelRemainderKeeps ==
    ASSUME Inv, CancelRemainder
    PROVE  StepKeeps
<1>1. phase = "match"
  BY DEF CancelRemainder, Matching
<1>2. Canceled(seq, live.order_id) \in Event
  BY <1>1, LiveFacts, EventsTyped
<1>. QED  BY <1>1, <1>2, FinishKeeps DEF CancelRemainder

LEMMA CancelBothKeeps ==
    ASSUME Inv, phase = "match", NEW price \in DOMAIN levels[MakerSide],
           CancelBoth(price)
    PROVE  StepKeeps
<1>1. /\ Detach(MakerSide, price)
      /\ FinishWith(Append(live.self_canceled, HeadOf(price)),
                    Canceled(seq, live.order_id))
  BY DEF CancelBoth
<1>2. /\ live.self_canceled \in Seq(Nat)
      /\ MakerSide \in Sides
      /\ HeadOf(price) \in Nat
      /\ Canceled(seq, live.order_id) \in Event
  BY LiveFacts, MakerFacts, EventsTyped
<1>3. Append(live.self_canceled, HeadOf(price)) \in Seq(Nat)
  BY <1>2
<1>4. /\ CallTypeOK'
      /\ LiveIds' = {}
      /\ stops' = stops
      /\ next_order_id' = next_order_id
  BY <1>1, <1>2, <1>3, FinishTyped DEF Inv
<1>5. /\ BookInv'
      /\ QueuesKept
      /\ NoNewLevel
      /\ DOMAIN resting' \subseteq DOMAIN resting
  BY <1>1, <1>2, DetachKeepsBook DEF Inv
<1>6. OneHome'
  BY <1>4, <1>5, StillOneHome DEF Inv, CallTypeOK
<1>. QED  BY <1>4, <1>5, <1>6, PlacesKept, StillNotCrossed DEF StepKeeps, Inv

LEMMA RestRemainderKeeps ==
    ASSUME Inv, RestRemainder
    PROVE  StepKeeps
<1>. DEFINE sliced  == live.display > 0 /\ live.display < live.qty
            visible == IF sliced THEN live.display ELSE live.qty
            hidden  == live.qty - visible
            price   == live.limit_price
            order   == [side |-> live.side, price |-> price,
                        qty |-> visible, seq |-> seq, owner |-> live.owner]
            event   == Resting(seq, live.order_id, price, visible)
<1>1. /\ phase = "match"
      /\ live.qty > 0
      /\ NothingToMatch
      /\ price # None
      /\ Insert(live.order_id, order, live.display, hidden)
      /\ FinishWith(live.self_canceled, event)
  BY DEF RestRemainder, Matching, Rests
<1>2. /\ live.order_id \in Nat
      /\ live.side \in Sides
      /\ price \in Nat
      /\ live.qty \in Nat
      /\ live.display \in Nat
      /\ live.owner \in Owners
      /\ live.self_canceled \in Seq(Nat)
      /\ seq \in Nat
  BY <1>1, LiveFacts
<1>3. /\ visible \in Nat
      /\ visible > 0
      /\ hidden \in Nat
      /\ hidden > 0 => live.display > 0
  BY <1>1, <1>2
<1>4. order \in RestingOrder /\ order.qty > 0
  BY <1>2, <1>3 DEF RestingOrder
<1>5. order.side = live.side /\ order.price = price
  OBVIOUS
<1>6. event \in Event
  BY <1>2, <1>3, EventsTyped
<1>7. live.order_id \notin DOMAIN resting /\ live.order_id \notin StopIds
  BY <1>1 DEF Inv, OneHome, LiveIds
<1>. HIDE DEF sliced, visible, hidden, price, order, event
<1>8. /\ CallTypeOK'
      /\ LiveIds' = {}
      /\ stops' = stops
      /\ next_order_id' = next_order_id
  BY <1>1, <1>2, <1>6, FinishTyped DEF Inv
<1>9. /\ BookInv'
      /\ QueuesKept
      /\ DOMAIN resting' = DOMAIN resting \cup {live.order_id}
      /\ \A s \in Sides \ {order.side} : DOMAIN levels'[s] = DOMAIN levels[s]
      /\ DOMAIN levels'[order.side] =
            DOMAIN levels[order.side] \cup {order.price}
  BY <1>1, <1>2, <1>3, <1>4, <1>7, InsertKeepsBook DEF Inv
<1>10. OneHome'
  <2>1. StopIds' = StopIds /\ LiveIds = {live.order_id}
    BY <1>1, <1>8 DEF StopIds, LiveIds
  <2>. QED  BY <1>7, <1>8, <1>9, <2>1 DEF Inv, OneHome
<1>11. NotCrossed => NotCrossed'
  <2>. SUFFICES ASSUME NotCrossed,
                       NEW bid \in DOMAIN levels'["Buy"],
                       NEW ask \in DOMAIN levels'["Sell"]
                PROVE  bid < ask
    BY DEF NotCrossed
  <2>1. \A p \in DOMAIN levels[Opposite(live.side)] :
            ~Crosses(live.side, price, p)
    BY <1>1 DEF NothingToMatch, CrossingLevels, price
  <2>2. \A s \in Sides : DOMAIN levels[s] \subseteq Nat
    BY LevelFacts DEF Inv
  <2>3. CASE live.side = "Buy"
    <3>1. /\ DOMAIN levels'["Sell"] = DOMAIN levels["Sell"]
          /\ DOMAIN levels'["Buy"] = DOMAIN levels["Buy"] \cup {price}
      BY <1>5, <1>9, <2>3 DEF Sides
    <3>2. ~(price >= ask)
      BY <1>1, <2>1, <2>3, <3>1 DEF Opposite, Crosses
    <3>3. ask \in Nat
      BY <2>2, <3>1 DEF Sides
    <3>4. CASE bid = price
      BY <1>2, <3>2, <3>3, <3>4
    <3>5. CASE bid # price
      BY <3>1, <3>5 DEF NotCrossed
    <3>. QED  BY <3>4, <3>5
  <2>4. CASE live.side = "Sell"
    <3>1. /\ DOMAIN levels'["Buy"] = DOMAIN levels["Buy"]
          /\ DOMAIN levels'["Sell"] = DOMAIN levels["Sell"] \cup {price}
      BY <1>5, <1>9, <2>4 DEF Sides
    <3>2. ~(price <= bid)
      BY <1>1, <2>1, <2>4, <3>1 DEF Opposite, Crosses
    <3>3. bid \in Nat
      BY <2>2, <3>1 DEF Sides
    <3>4. CASE ask = price
      BY <1>2, <3>2, <3>3, <3>4
    <3>5. CASE ask # price
      BY <3>1, <3>5 DEF NotCrossed
    <3>. QED  BY <3>4, <3>5
  <2>. QED  BY <1>2, <2>3, <2>4 DEF Sides
<1>. QED  BY <1>8, <1>9, <1>10, <1>11, PlacesKept DEF StepKeeps, Inv

\* What the step of the cascade takes out of the dormant stops.
LEMMA TakenStopFacts ==
    ASSUME Inv, NEW i \in DOMAIN stops, TakeTriggered(i)
    PROVE  /\ stops[i] \in PendingStop
           /\ stops[i].id \in Nat
           /\ seq \in Nat
           /\ out \in Seq(Event)
           /\ phase = "stops"
           /\ stops' \in Seq(PendingStop)
           /\ \A j, k \in DOMAIN stops' : stops'[j].id = stops'[k].id => j = k
           /\ StopIds' = StopIds \ {stops[i].id}
           /\ stops[i].id \in StopIds
           /\ UNCHANGED <<seq, next_order_id, last_trade_price, command>>
<1>1. stops[i] \in PendingStop
  BY DEF Inv, CallTypeOK
<1>2. stops[i].id \in Nat
  BY <1>1 DEF PendingStop
<1>3. /\ phase = "stops"
      /\ stops' = WithoutStop(i)
      /\ UNCHANGED <<seq, next_order_id, last_trade_price, command>>
  BY DEF TakeTriggered
<1>4. /\ stops' \in Seq(PendingStop)
      /\ \A j, k \in DOMAIN stops' : stops'[j].id = stops'[k].id => j = k
      /\ StopIds' = StopIds \ {stops[i].id}
  BY <1>3, StopLeaves DEF Inv
<1>5. stops[i].id \in StopIds
  BY DEF StopIds
<1>6. seq \in Nat /\ out \in Seq(Event)
  BY DEF Inv, CallTypeOK
<1>. QED  BY <1>1, <1>2, <1>3, <1>4, <1>5, <1>6

LEMMA ActivateStopKeeps ==
    ASSUME Inv, NEW i \in DOMAIN stops, ActivateStop(i)
    PROVE  StepKeeps
<1>. DEFINE stop == stops[i]
<1>1. /\ TakeTriggered(i)
      /\ out' = Append(out, Triggered(seq, stop.id))
      /\ live' = LiveOf(stop.id, stop, stop.limit_price, 0)
      /\ phase' = "match"
      /\ UNCHANGED bookVars
  BY DEF ActivateStop
<1>2. /\ stop \in PendingStop
      /\ stop.id \in Nat
      /\ seq \in Nat
      /\ out \in Seq(Event)
      /\ phase = "stops"
      /\ stops' \in Seq(PendingStop)
      /\ \A j, k \in DOMAIN stops' : stops'[j].id = stops'[k].id => j = k
      /\ StopIds' = StopIds \ {stop.id}
      /\ stop.id \in StopIds
      /\ UNCHANGED <<seq, next_order_id, last_trade_price, command>>
  BY <1>1, TakenStopFacts
<1>. HIDE DEF stop
<1>3. live' \in LiveOrder
  BY <1>1, <1>2, LiveOfTyped DEF PendingStop
<1>4. live'.order_id = stop.id
  BY <1>1 DEF LiveOf
<1>5. out' \in Seq(Event)
  <2>1. Triggered(seq, stop.id) \in Event
    BY <1>2, EventsTyped
  <2>. QED  BY <1>1, <1>2, <2>1
<1>6. CallTypeOK'
  BY <1>1, <1>2, <1>3, <1>5 DEF Inv, CallTypeOK
<1>7. OneHome'
  <2>1. LiveIds' = {stop.id} /\ LiveIds = {} /\ resting' = resting
    BY <1>1, <1>2, <1>4 DEF LiveIds, bookVars
  <2>. QED  BY <1>2, <2>1 DEF Inv, OneHome
<1>. QED  BY <1>1, <1>6, <1>7, BookUntouched

LEMMA RefuseStopKeeps ==
    ASSUME Inv, NEW i \in DOMAIN stops, RefuseStop(i)
    PROVE  StepKeeps
<1>. DEFINE stop == stops[i]
<1>1. /\ TakeTriggered(i)
      /\ StopCheck(stop) # Ok
      /\ out' = out \o <<Triggered(seq, stop.id),
                         Rejected(seq, StopCheck(stop))>>
      /\ UNCHANGED <<bookVars, phase, live>>
  BY DEF RefuseStop
<1>2. /\ stop.id \in Nat
      /\ seq \in Nat
      /\ out \in Seq(Event)
      /\ phase = "stops"
      /\ stops' \in Seq(PendingStop)
      /\ \A j, k \in DOMAIN stops' : stops'[j].id = stops'[k].id => j = k
      /\ StopIds' = StopIds \ {stop.id}
      /\ UNCHANGED <<seq, next_order_id, last_trade_price, command>>
  BY <1>1, TakenStopFacts
<1>. HIDE DEF stop
<1>3. out' \in Seq(Event)
  <2>1. StopCheck(stop) \in RejectReasons
    BY <1>1, PrecheckTyped DEF StopCheck
  <2>2. Triggered(seq, stop.id) \in Event
    BY <1>2, EventsTyped
  <2>3. Rejected(seq, StopCheck(stop)) \in Event
    BY <1>2, <2>1, EventsTyped
  <2>4. <<Triggered(seq, stop.id), Rejected(seq, StopCheck(stop))>>
            \in Seq(Event)
    BY <2>2, <2>3
  <2>. QED  BY <1>1, <1>2, <2>4
<1>4. CallTypeOK'
  BY <1>1, <1>2, <1>3 DEF Inv, CallTypeOK
<1>5. OneHome'
  <2>1. LiveIds' = LiveIds /\ resting' = resting
    BY <1>1 DEF LiveIds, bookVars
  <2>. QED  BY <1>2, <2>1 DEF Inv, OneHome
<1>. QED  BY <1>1, <1>4, <1>5, BookUntouched

LEMMA StopsSettledKeeps ==
    ASSUME Inv, StopsSettled
    PROVE  StepKeeps
<1>1. CallTypeOK' /\ LiveIds' = LiveIds
  BY DEF StopsSettled, Inv, CallTypeOK, LiveIds
<1>2. OneHome'
  BY <1>1, StillOneHome DEF StopsSettled, bookVars, Inv, CallTypeOK
<1>. QED  BY <1>1, <1>2, BookUntouched DEF StopsSettled

LEMMA DeliverKeeps ==
    ASSUME Inv, Deliver
    PROVE  StepKeeps
<1>1. CallTypeOK' /\ LiveIds' = LiveIds
  BY DEF Deliver, Inv, CallTypeOK, LiveIds
<1>2. OneHome'
  BY <1>1, StillOneHome DEF Deliver, bookVars, Inv, CallTypeOK
<1>. QED  BY <1>1, <1>2, BookUntouched DEF Deliver

LEMMA StutterKeeps ==
    ASSUME Inv, UNCHANGED vars
    PROVE  StepKeeps
<1>1. CallTypeOK' /\ LiveIds' = LiveIds
  BY DEF vars, engineVars, Inv, CallTypeOK, LiveIds
<1>2. OneHome'
  BY <1>1, StillOneHome DEF vars, engineVars, bookVars, Inv, CallTypeOK
<1>. QED  BY <1>1, <1>2, BookUntouched DEF vars

----------------------------------------------------------------------------
(* The specification *)

LEMMA InitInv == Init => Inv /\ NotCrossed
<1>. SUFFICES ASSUME Init
              PROVE  Inv /\ NotCrossed
  OBVIOUS
<1>1. /\ \A side \in Sides : levels[side] = <<>>
      /\ levels = [side \in Sides |-> levels[side]]
      /\ resting = <<>>
      /\ reserves = <<>>
      /\ stops = <<>>
      /\ DOMAIN <<>> = {}
  BY DEF Init, BookInit
<1>2. \A Values : IsMap(<<>>, Nat, Values)
  BY <1>1 DEF IsMap
<1>3. accounts \in [Accounts -> AccountState]
  BY DEF Init, BookInit, NoAccount, AccountState
<1>4. BookTypeOK
  BY <1>1, <1>2, <1>3 DEF BookTypeOK, LevelsTypeOK
<1>5. IndexMatchesQueues /\ NothingEmptyRests
  BY <1>1 DEF IndexMatchesQueues, NothingEmptyRests
<1>6. CallTypeOK
  BY DEF Init, CallTypeOK
<1>7. OneHome
  BY <1>1 DEF OneHome, StopIds, LiveIds, Init
<1>8. NotCrossed
  BY <1>1 DEF NotCrossed, Sides
<1>. QED  BY <1>4, <1>5, <1>6, <1>7, <1>8 DEF Inv, BookInv

LEMMA NextKeeps == Inv /\ [Next]_vars => StepKeeps
<1>. SUFFICES ASSUME Inv, [Next]_vars
              PROVE  StepKeeps
  OBVIOUS
<1>1. CASE \E order \in NewOrders : SubmitNew(order)
  <2>1. PICK order \in NewOrders : SubmitNew(order)
    BY <1>1
  <2>2. CASE RejectCommand(New(order))
    BY <2>2, CommandsTyped, RejectCommandKeeps
  <2>3. CASE ParkStop(order)
    BY <2>3, ParkStopKeeps
  <2>4. CASE RefuseOrder(order)
    BY <2>4, RefuseOrderKeeps
  <2>5. CASE AcceptOrder(order)
    BY <2>5, AcceptOrderKeeps
  <2>. QED  BY <2>1, <2>2, <2>3, <2>4, <2>5 DEF SubmitNew
<1>2. KnownIds \subseteq Nat
  BY DEF KnownIds, Inv, CallTypeOK
<1>3. CASE \E id \in KnownIds : SubmitCancel(id)
  <2>1. PICK id \in KnownIds : SubmitCancel(id)
    BY <1>3
  <2>2. CASE CancelInBook(id)
    BY <1>2, <2>2, CancelInBookKeeps
  <2>3. CASE CancelStop(id)
    BY <1>2, <2>3, CancelStopKeeps
  <2>4. CASE CancelUnknown(id)
    <3>1. Cancel(id) \in Command
      BY <1>2, CommandsTyped
    <3>. QED  BY <2>4, <3>1, UnknownKeeps DEF CancelUnknown, Admit
  <2>. QED  BY <2>1, <2>2, <2>3, <2>4 DEF SubmitCancel
<1>4. CASE \E id \in KnownIds, a \in Amendments : SubmitModify(id, a)
  <2>1. PICK id \in KnownIds, a \in Amendments : SubmitModify(id, a)
    BY <1>4
  <2>2. Modify(id, a) \in Command /\ id \in Nat
    BY <1>2, CommandsTyped
  <2>3. CASE RejectCommand(Modify(id, a))
    BY <2>2, <2>3, RejectCommandKeeps
  <2>4. CASE ModifyUnknown(id, a)
    BY <2>2, <2>4, UnknownKeeps DEF ModifyUnknown, Admit
  <2>5. CASE ModifyInPlace(id, a)
    BY <2>2, <2>5, ModifyInPlaceKeeps
  <2>6. CASE ModifyReplace(id, a)
    BY <2>2, <2>6, ModifyReplaceKeeps
  <2>. QED  BY <2>1, <2>3, <2>4, <2>5, <2>6 DEF SubmitModify
<1>5. CASE phase = "match" /\ MatchStep
  <2>1. PICK price \in DOMAIN levels[MakerSide] :
           \/ TradeWithHead(price)
           \/ CancelMaker(price)
           \/ CancelTaker(price)
           \/ CancelBoth(price)
    BY <1>5 DEF MatchStep
  <2>2. CASE TradeWithHead(price)
    BY <1>5, <2>2, TradeWithHeadKeeps
  <2>3. CASE CancelMaker(price)
    BY <1>5, <2>3, CancelMakerKeeps
  <2>4. CASE CancelTaker(price)
    BY <1>5, <2>4, CancelTakerKeeps
  <2>5. CASE CancelBoth(price)
    BY <1>5, <2>5, CancelBothKeeps
  <2>. QED  BY <2>1, <2>2, <2>3, <2>4, <2>5
<1>6. CASE FinishStep
  BY <1>6, FinishFilledKeeps, RestRemainderKeeps, CancelRemainderKeeps
     DEF FinishStep
<1>7. CASE StopStep
  BY <1>7, ActivateStopKeeps, RefuseStopKeeps DEF StopStep
<1>8. CASE StopsSettled
  BY <1>8, StopsSettledKeeps
<1>9. CASE Deliver
  BY <1>9, DeliverKeeps
<1>10. CASE UNCHANGED vars
  BY <1>10, StutterKeeps
<1>. QED  BY <1>1, <1>3, <1>4, <1>5, <1>6, <1>7, <1>8, <1>9, <1>10
          DEF Next, Run

----------------------------------------------------------------------------
(* Stops and post-only orders: consequences of the control flow of a call *)

\* A step that ends a call or waits for one changes no stop and no last
\* trade price, except a cancel that takes a stop away.
LEMMA StopsDormantKept == Inv /\ StopsDormant /\ [Next]_vars => StopsDormant'
<1>. SUFFICES ASSUME Inv, StopsDormant, [Next]_vars,
                     phase' \in {"idle", "done"}
              PROVE  \A i \in DOMAIN stops' : ~IsTriggered(i)'
  BY DEF StopsDormant
<1>1. ASSUME stops' = stops, last_trade_price' = last_trade_price,
             phase \in {"idle", "done"}
      PROVE  \A i \in DOMAIN stops' : ~IsTriggered(i)'
  BY <1>1 DEF StopsDormant, IsTriggered, TriggeredBy
<1>2. CASE \E order \in NewOrders : SubmitNew(order)
  BY <1>1, <1>2 DEF SubmitNew, RejectCommand, ParkStop, RefuseOrder,
                    AcceptOrder, Admit, Submit
<1>3. ASSUME NEW id \in KnownIds, CancelStop(id)
      PROVE  \A i \in DOMAIN stops' : ~IsTriggered(i)'
  <2>1. PICK i \in DOMAIN stops : stops' = WithoutStop(i)
    BY <1>3 DEF CancelStop
  <2>2. \A j \in DOMAIN stops' : \E k \in DOMAIN stops : stops'[j] = stops[k]
    BY <2>1, StopLeaves DEF Inv
  <2>3. last_trade_price' = last_trade_price /\ phase = "idle"
    BY <1>3 DEF CancelStop, Admit, Submit
  <2>4. \A k \in DOMAIN stops : ~IsTriggered(k)
    BY <2>3 DEF StopsDormant
  <2>. SUFFICES ASSUME NEW j \in DOMAIN stops'
                PROVE  ~IsTriggered(j)'
    OBVIOUS
  <2>5. PICK k \in DOMAIN stops : stops'[j] = stops[k]
    BY <2>2
  <2>. QED  BY <2>3, <2>4, <2>5 DEF IsTriggered, TriggeredBy
<1>4. CASE \E id \in KnownIds : SubmitCancel(id)
  BY <1>1, <1>3, <1>4 DEF SubmitCancel, CancelInBook, CancelUnknown, Admit,
                          Submit
<1>5. CASE \E id \in KnownIds, a \in Amendments : SubmitModify(id, a)
  BY <1>1, <1>5 DEF SubmitModify, RejectCommand, ModifyUnknown, ModifyInPlace,
                    ModifyReplace, Admit, Submit
<1>6. CASE phase = "match" /\ MatchStep
  BY <1>6 DEF MatchStep, TradeWithHead, CancelMaker, CancelTaker, CancelBoth,
              FinishWith
<1>7. CASE FinishStep
  BY <1>7 DEF FinishStep, FinishFilled, RestRemainder, CancelRemainder,
              FinishWith
<1>8. CASE StopStep
  BY <1>8 DEF StopStep, ActivateStop, RefuseStop, TakeTriggered
<1>9. CASE StopsSettled
  BY <1>9 DEF StopsSettled, CascadeOver, IsTriggered, TriggeredBy
<1>10. CASE Deliver
  BY <1>1, <1>10 DEF Deliver
<1>11. CASE UNCHANGED vars
  BY <1>1, <1>11 DEF vars, engineVars
<1>. QED  BY <1>2, <1>4, <1>5, <1>6, <1>7, <1>8, <1>9, <1>10, <1>11
          DEF Next, Run

\* The precheck that lets a post-only order in finds no level it could take
\* from, and nothing changes the book before the order rests.
LEMMA PassiveOnceChecked ==
    ASSUME NEW id, NEW o, NEW limit_price, NEW display,
           Precheck(o.side, limit_price, o.qty, o.tif) = Ok,
           live' = LiveOf(id, o, limit_price, display),
           UNCHANGED bookVars, o.tif = "PostOnly"
    PROVE  NothingToMatch' /\ live'.last_px = None
<1>1. ~WouldCross(o.side, limit_price)
  BY DEF Precheck, Ok
<1>2. CrossingLevels(o.side, limit_price) = {}
  BY <1>1 DEF WouldCross
<1>3. /\ live'.side = o.side
      /\ live'.limit_price = limit_price
      /\ live'.last_px = None
      /\ levels' = levels
  BY DEF LiveOf, bookVars
<1>. QED  BY <1>2, <1>3 DEF NothingToMatch, CrossingLevels, Crosses

LEMMA PostOnlyKept ==
    Inv /\ PostOnlyNeverTakes /\ [Next]_vars => PostOnlyNeverTakes'
<1>. SUFFICES ASSUME Inv, PostOnlyNeverTakes, [Next]_vars,
                     phase' = "match", live'.tif = "PostOnly"
              PROVE  NothingToMatch' /\ live'.last_px = None
  BY DEF PostOnlyNeverTakes
<1>1. ASSUME UNCHANGED bookVars, live' = live, phase = "match"
      PROVE  NothingToMatch' /\ live'.last_px = None
  <2>1. NothingToMatch /\ live.last_px = None
    BY <1>1 DEF PostOnlyNeverTakes
  <2>2. levels' = levels
    BY <1>1 DEF bookVars
  <2>. QED  BY <1>1, <2>1, <2>2 DEF NothingToMatch, CrossingLevels, Crosses
<1>2. CASE \E order \in NewOrders : SubmitNew(order)
  <2>1. PICK order \in NewOrders : AcceptOrder(order)
    BY <1>2 DEF SubmitNew, RejectCommand, ParkStop, RefuseOrder
  <2>2. /\ Precheck(order.side, LimitOf(order), order.qty, order.tif) = Ok
        /\ live' = LiveOf(next_order_id, order, LimitOf(order),
                          DisplayOf(order))
        /\ UNCHANGED bookVars
    BY <2>1 DEF AcceptOrder, EntryCheck
  <2>3. order.tif = "PostOnly"
    BY <2>2 DEF LiveOf
  <2>. QED  BY <2>2, <2>3, PassiveOnceChecked
<1>3. CASE \E id \in KnownIds : SubmitCancel(id)
  BY <1>3 DEF SubmitCancel, CancelInBook, CancelStop, CancelUnknown
<1>4. CASE \E id \in KnownIds, a \in Amendments : SubmitModify(id, a)
  <2>1. PICK id \in KnownIds, a \in Amendments : ModifyReplace(id, a)
    BY <1>4 DEF SubmitModify, RejectCommand, ModifyUnknown, ModifyInPlace
  <2>. QED  BY <2>1 DEF ModifyReplace, ReplacementOf
<1>5. CASE phase = "match" /\ MatchStep
  <2>1. PICK price \in DOMAIN levels[MakerSide] :
           TradeWithHead(price) \/ CancelMaker(price)
    BY <1>5 DEF MatchStep, CancelTaker, CancelBoth, FinishWith
  <2>2. live \in LiveOrder
    BY <1>5, LiveFacts
  <2>3. live'.tif = live.tif
    BY <2>1, <2>2 DEF TradeWithHead, CancelMaker, LiveOrder
  <2>4. NothingToMatch
    BY <1>5, <2>3 DEF PostOnlyNeverTakes
  <2>5. Crosses(live.side, live.limit_price, price)
    BY <2>1 DEF TradeWithHead, CancelMaker, MatchesAt
  <2>. QED  BY <2>4, <2>5 DEF NothingToMatch, CrossingLevels, MakerSide
<1>6. CASE FinishStep
  BY <1>6 DEF FinishStep, FinishFilled, RestRemainder, CancelRemainder,
              FinishWith
<1>7. CASE StopStep
  <2>1. PICK i \in DOMAIN stops : ActivateStop(i)
    BY <1>7 DEF StopStep, RefuseStop, TakeTriggered
  <2>2. /\ Precheck(stops[i].side, stops[i].limit_price, stops[i].qty,
                    stops[i].tif) = Ok
        /\ live' = LiveOf(stops[i].id, stops[i], stops[i].limit_price, 0)
        /\ UNCHANGED bookVars
    BY <2>1 DEF ActivateStop, StopCheck
  <2>3. stops[i].tif = "PostOnly"
    BY <2>2 DEF LiveOf
  <2>. QED  BY <2>2, <2>3, PassiveOnceChecked
<1>8. CASE StopsSettled \/ Deliver
  BY <1>8 DEF StopsSettled, Deliver
<1>9. CASE UNCHANGED vars
  BY <1>1, <1>9 DEF vars, engineVars
<1>. QED  BY <1>2, <1>3, <1>4, <1>5, <1>6, <1>7, <1>8, <1>9 DEF Next, Run

----------------------------------------------------------------------------
(* Trade-throughs: a trade is at the best level there is, and while the      *)
(* order is matched no level is added, so none it went past comes back.      *)

LEMMA NoBetterLevelLeft ==
    ASSUME NEW price \in Nat, MakerSide \in Sides, live.side \in Sides,
           IsBest(MakerSide, price), NoNewLevel,
           live'.side = live.side, live'.last_px = price,
           \A p \in DOMAIN levels[MakerSide] : p \in Nat
    PROVE  NoTradeThrough'
<1>1. MakerSide' = MakerSide
  BY DEF MakerSide
<1>2. DOMAIN levels'[MakerSide] \subseteq DOMAIN levels[MakerSide]
  BY DEF NoNewLevel
<1>3. \A p \in DOMAIN levels[MakerSide] : ~Better(MakerSide, p, price)
  BY DEF IsBest
<1>4. MakerSide = IF live.side = "Buy" THEN "Sell" ELSE "Buy"
  BY DEF MakerSide, Opposite
<1>. QED  BY <1>1, <1>2, <1>3, <1>4 DEF NoTradeThrough, Better, Sides

LEMMA NoTradeThroughKept ==
    Inv /\ NoTradeThrough /\ [Next]_vars => NoTradeThrough'
<1>. SUFFICES ASSUME Inv, NoTradeThrough, [Next]_vars
              PROVE  NoTradeThrough'
  OBVIOUS
<1>1. ASSUME phase' = "match" => live'.last_px = None
      PROVE  NoTradeThrough'
  BY <1>1 DEF NoTradeThrough
<1>2. ASSUME NoNewLevel, live'.side = live.side, live.side \in Sides,
             MakerSide \in Sides, live'.last_px = live.last_px,
             phase' = phase
      PROVE  NoTradeThrough'
  <2>1. MakerSide' = MakerSide
    BY <1>2 DEF MakerSide
  <2>2. DOMAIN levels'[MakerSide] \subseteq DOMAIN levels[MakerSide]
    BY <1>2 DEF NoNewLevel
  <2>. QED  BY <1>2, <2>1, <2>2 DEF NoTradeThrough
<1>3. CASE \E order \in NewOrders : SubmitNew(order)
  BY <1>1, <1>3 DEF SubmitNew, RejectCommand, ParkStop, RefuseOrder,
                    AcceptOrder, LiveOf
<1>4. CASE \E id \in KnownIds : SubmitCancel(id)
  BY <1>1, <1>4 DEF SubmitCancel, CancelInBook, CancelStop, CancelUnknown
<1>5. CASE \E id \in KnownIds, a \in Amendments : SubmitModify(id, a)
  BY <1>1, <1>5 DEF SubmitModify, RejectCommand, ModifyUnknown, ModifyInPlace,
                    ModifyReplace, ReplacementOf
<1>6. CASE phase = "match" /\ MatchStep
  <2>. USE <1>6
  <2>1. PICK price \in DOMAIN levels[MakerSide] :
           \/ TradeWithHead(price)
           \/ CancelMaker(price)
           \/ CancelTaker(price)
           \/ CancelBoth(price)
    BY DEF MatchStep
  <2>2. /\ live \in LiveOrder
        /\ live.side \in Sides
        /\ MakerSide \in Sides
        /\ live.qty \in Nat
        /\ live.owner \in Owners
    BY LiveFacts
  <2>3. \A p \in DOMAIN levels[MakerSide] : p \in Nat
    BY <2>2, LevelFacts DEF Inv
  <2>4. CASE TradeWithHead(price)
    <3>. DEFINE traded == Min({live.qty, resting[HeadOf(price)].qty})
    <3>1. /\ FillHead(MakerSide, price, traded, live.owner)
          /\ live' = [live EXCEPT !.qty = live.qty - traded,
                                  !.last_px = price]
          /\ IsBest(MakerSide, price)
      BY <2>4 DEF TradeWithHead, MatchesAt
    <3>2. traded \in Nat
      BY <2>2, MakerFacts, MinOfTwo
    <3>. HIDE DEF traded
    <3>3. NoNewLevel
      BY <2>2, <3>1, <3>2, MakerFacts, FillHeadKeepsBook DEF Inv
    <3>4. live'.side = live.side /\ live'.last_px = price
      BY <2>2, <3>1 DEF LiveOrder
    <3>. QED  BY <2>2, <2>3, <3>1, <3>3, <3>4, NoBetterLevelLeft
  <2>5. CASE CancelMaker(price)
    <3>1. NoNewLevel
      BY <2>2, <2>5, DetachKeepsBook DEF CancelMaker, Inv
    <3>2. live'.side = live.side /\ live'.last_px = live.last_px
      BY <2>2, <2>5 DEF CancelMaker, LiveOrder
    <3>. QED  BY <1>2, <2>2, <2>5, <3>1, <3>2 DEF CancelMaker
  <2>6. CASE CancelTaker(price) \/ CancelBoth(price)
    BY <1>1, <2>6 DEF CancelTaker, CancelBoth, FinishWith
  <2>. QED  BY <2>1, <2>4, <2>5, <2>6
<1>7. CASE FinishStep
  BY <1>1, <1>7 DEF FinishStep, FinishFilled, RestRemainder, CancelRemainder,
                    FinishWith
<1>8. CASE StopStep
  BY <1>1, <1>8 DEF StopStep, ActivateStop, RefuseStop, TakeTriggered, LiveOf
<1>9. CASE StopsSettled \/ Deliver
  BY <1>1, <1>9 DEF StopsSettled, Deliver
<1>10. CASE UNCHANGED vars
  BY <1>10 DEF vars, engineVars, bookVars, NoTradeThrough, MakerSide
<1>. QED  BY <1>3, <1>4, <1>5, <1>6, <1>7, <1>8, <1>9, <1>10 DEF Next, Run

----------------------------------------------------------------------------
LEMMA Invariance == Spec => [](Inv /\ NotCrossed)
<1>1. Inv /\ NotCrossed /\ [Next]_vars => (Inv /\ NotCrossed)'
  BY NextKeeps DEF StepKeeps
<1>. QED  BY InitInv, <1>1, PTL DEF Spec

\* Every variable keeps its type, whatever orders and amendments arrive.
THEOREM TypeCorrect == Spec => []TypeOK
<1>1. Inv => TypeOK
  BY DEF Inv, BookInv, TypeOK
<1>. QED  BY <1>1, Invariance, PTL

\* Index and price levels agree, and no level is empty, between any two
\* iterations of any call.
THEOREM IndexConsistent == Spec => []IndexMatchesQueues
<1>1. Inv => IndexMatchesQueues
  BY DEF Inv, BookInv
<1>. QED  BY <1>1, Invariance, PTL

\* No order of quantity 0 rests and no reserve is exhausted or orphaned.
THEOREM NeverEmpty == Spec => []NothingEmptyRests
<1>1. Inv => NothingEmptyRests
  BY DEF Inv, BookInv
<1>. QED  BY <1>1, Invariance, PTL

\* An order id is in one place, and ids are never given out twice.
THEOREM OnePlace == Spec => []OneHome
<1>1. Inv => OneHome
  BY DEF Inv
<1>. QED  BY <1>1, Invariance, PTL

\* The book is never crossed.
THEOREM BookNotCrossed == Spec => []NotCrossed
BY Invariance, PTL

\* Time priority is lost only by an iceberg whose peak was consumed.
THEOREM TimePriority == Spec => KeepsPlace
<1>1. Inv /\ [Next]_vars => [KeepsPlaceStep]_vars
  BY NextKeeps DEF StepKeeps
<1>. QED  BY <1>1, Invariance, PTL DEF Spec, KeepsPlace

\* No call returns with a triggered stop still dormant.
THEOREM NoStopLeftBehind == Spec => []StopsDormant
<1>1. Init => StopsDormant
  <2>1. Init => DOMAIN stops = {}
    BY DEF Init
  <2>. QED  BY <2>1 DEF StopsDormant
<1>. QED  BY <1>1, StopsDormantKept, Invariance, PTL DEF Spec

\* A post-only order never takes liquidity.
THEOREM PostOnlyIsPassive == Spec => []PostOnlyNeverTakes
<1>1. Init => PostOnlyNeverTakes
  BY DEF Init, PostOnlyNeverTakes
<1>. QED  BY <1>1, PostOnlyKept, Invariance, PTL DEF Spec

\* No order trades at a price while a better one is left in the book.
THEOREM TradesAreAtTheBest == Spec => []NoTradeThrough
<1>1. Init => NoTradeThrough
  BY DEF Init, NoTradeThrough
<1>. QED  BY <1>1, NoTradeThroughKept, Invariance, PTL DEF Spec

----------------------------------------------------------------------------
(* The price and the quantity grid.  The gateway looks at the numbers of a  *)
(* command; peaks, rests and what is hidden come out of subtractions that   *)
(* nobody checks again.                                                     *)

LEMMA MultipleOf ==
    ASSUME NEW a \in Nat, NEW n \in Nat \ {0}
    PROVE  (a % n = 0) <=> \E k \in Nat : a = n * k
<1>1. ASSUME a % n = 0
      PROVE  \E k \in Nat : a = n * k
  <2>1. a \div n \in Nat /\ a = n * (a \div n) + (a % n)
    OBVIOUS
  <2>. QED  BY <1>1, <2>1
<1>2. ASSUME NEW k \in Nat, a = n * k
      PROVE  a % n = 0
  BY <1>2, SMTT(30)
<1>. QED  BY <1>1, <1>2

LEMMA DifferenceOfMultiples ==
    ASSUME NEW a \in Nat, NEW b \in Nat, b <= a, NEW n \in Nat \ {0},
           a % n = 0, b % n = 0
    PROVE  (a - b) % n = 0
<1>1. PICK j \in Nat : a = n * j
  BY MultipleOf
<1>2. PICK k \in Nat : b = n * k
  BY MultipleOf
<1>3. a - b = n * (j - k)
  BY <1>1, <1>2, SMTT(30)
<1>4. j - k \in Nat
  BY <1>1, <1>2, SMTT(30)
<1>. QED  BY <1>3, <1>4, MultipleOf

\* Whole lots stay whole lots.
LEMMA LotFacts ==
    ASSUME NEW a \in Nat, NEW b \in Nat, LotOk(a), LotOk(b)
    PROVE  /\ b <= a => LotOk(a - b)
           /\ LotOk(Min({a, b}))
<1>1. LotSize \in Nat
  BY RiskAssumption
<1>2. CASE LotSize <= 1
  BY <1>2 DEF LotOk
<1>3. CASE LotSize > 1
  <2>1. a % LotSize = 0 /\ b % LotSize = 0 /\ LotSize \in Nat \ {0}
    BY <1>1, <1>3 DEF LotOk
  <2>2. b <= a => (a - b) % LotSize = 0
    BY <2>1, DifferenceOfMultiples
  <2>3. Min({a, b}) \in {a, b}
    BY MinOfTwo
  <2>. QED  BY <2>1, <2>2, <2>3 DEF LotOk
<1>. QED  BY <1>1, <1>2, <1>3

LEMMA ZeroIsWhole == LotOk(0)
<1>1. LotSize \in Nat
  BY RiskAssumption
<1>2. CASE LotSize > 1
  <2>1. 0 = LotSize * 0
    BY <1>1
  <2>2. 0 % LotSize = 0
    BY <1>1, <1>2, <2>1, MultipleOf
  <2>. QED  BY <2>2 DEF LotOk
<1>. QED  BY <1>1, <1>2 DEF LotOk

----------------------------------------------------------------------------
(* What the gateway has checked *)

LEMMA OrderOnGrid ==
    ASSUME NEW order \in NewOrder, Validate(New(order)) = Ok
    PROVE  /\ LotOk(order.qty)
           /\ order.type = "Iceberg" => LotOk(order.display)
           /\ order.type \in {"Limit", "Iceberg", "StopLimit"}
                => TickOk(order.price)
<1>1. CASE RiskActive
  <2>1. RiskNew(order, RiskContext(New(order))) = Ok
    BY <1>1 DEF Validate, RiskVerdict, New, Ok
  <2>2. /\ \A qty \in LotChecked(order) : LotOk(qty)
        /\ \A price \in OrderPrices(order) : TickOk(price)
    BY <2>1 DEF RiskNew, Ok
  <2>3. order.type \in OrderTypes
    BY DEF NewOrder
  <2>. QED  BY <2>2, <2>3 DEF LotChecked, OrderPrices, OrderTypes
<1>2. CASE ~RiskActive
  BY <1>2, RiskAssumption DEF RiskActive, LotOk, TickOk
<1>. QED  BY <1>1, <1>2

LEMMA AmendmentOnGrid ==
    ASSUME NEW id \in Nat, NEW a \in Amendment, Validate(Modify(id, a)) = Ok
    PROVE  LotOk(a.qty) /\ TickOk(a.price)
<1>1. CASE RiskActive
  <2>1. RiskModify(Modify(id, a), RiskContext(Modify(id, a))) = Ok
    BY <1>1 DEF Validate, RiskVerdict, Modify, Ok
  <2>. QED  BY <2>1 DEF RiskModify, Modify, Ok
<1>2. CASE ~RiskActive
  BY <1>2, RiskAssumption DEF RiskActive, LotOk, TickOk
<1>. QED  BY <1>1, <1>2

----------------------------------------------------------------------------
(* The invariant: what rests, what is being matched and what is dormant *)

LiveOnGrid ==
    phase = "match" =>
        /\ LotOk(live.qty)
        /\ LotOk(live.display)
        /\ live.limit_price # None => TickOk(live.limit_price)

StopsOnGrid ==
    \A i \in DOMAIN stops :
        /\ LotOk(stops[i].qty)
        /\ stops[i].limit_price # None => TickOk(stops[i].limit_price)

GridInv == OnGrid /\ LiveOnGrid /\ StopsOnGrid

----------------------------------------------------------------------------
(* The operations of the book *)

LEMMA DropKeepsGrid ==
    ASSUME OnGrid, NEW id, resting' = Drop(resting, id),
           reserves' = Drop(reserves, id) \/ reserves' = reserves
    PROVE  OnGrid'
<1>1. \A x \in DOMAIN resting' : x \in DOMAIN resting /\ resting'[x] = resting[x]
  BY DEF Drop, Restrict
<1>2. \A x \in DOMAIN reserves' :
          x \in DOMAIN reserves /\ reserves'[x] = reserves[x]
  <2>1. CASE reserves' = Drop(reserves, id)
    BY <2>1 DEF Drop, Restrict
  <2>. QED  BY <2>1
<1>. QED  BY <1>1, <1>2 DEF OnGrid, TickOk, LotOk

LEMMA QtyKeepsGrid ==
    ASSUME OnGrid, BookTypeOK, NEW id \in DOMAIN resting, NEW qty \in Nat,
           LotOk(qty), resting' = [resting EXCEPT ![id].qty = qty]
    PROVE  \A x \in DOMAIN resting' :
              TickOk(resting'[x].price) /\ LotOk(resting'[x].qty)
<1>1. \A x \in DOMAIN resting : resting[x] \in RestingOrder
  BY DEF BookTypeOK, IsMap
<1>2. \A x \in DOMAIN resting' :
          /\ x \in DOMAIN resting
          /\ resting'[x].price = resting[x].price
          /\ resting'[x].qty = IF x = id THEN qty ELSE resting[x].qty
  BY <1>1 DEF RestingOrder
<1>. QED  BY <1>2 DEF OnGrid

LEMMA FillHeadKeepsGrid ==
    ASSUME BookInv, OnGrid, NEW side \in Sides,
           NEW price \in DOMAIN levels[side],
           NEW traded \in Nat, LotOk(traded),
           NEW taker_owner, FillHead(side, price, traded, taker_owner)
    PROVE  OnGrid'
<1>. DEFINE id == Head(levels[side][price].fifo)
<1>1. /\ id \in DOMAIN resting
      /\ resting[id].qty \in Nat
      /\ LotOk(resting[id].qty)
  BY HeadFacts DEF FifoOf, OnGrid
<1>2. BookTypeOK
  BY DEF BookInv
<1>3. CASE FillPart(side, price, traded)
  <2>. DEFINE left == resting[id].qty - traded
  <2>1. /\ traded < resting[id].qty
        /\ resting' = [resting EXCEPT ![id].qty = left]
        /\ reserves' = reserves
    BY <1>3 DEF FillPart
  <2>2. left \in Nat /\ LotOk(left)
    <3>. HIDE DEF id
    <3>1. traded <= resting[id].qty /\ left \in Nat
      BY <1>1, <2>1
    <3>2. LotOk(resting[id].qty - traded)
      BY <1>1, <3>1, LotFacts
    <3>. QED  BY <3>1, <3>2
  <2>. HIDE DEF left, id
  <2>. QED  BY <1>1, <1>2, <2>1, <2>2, QtyKeepsGrid DEF OnGrid, LotOk, TickOk
<1>4. CASE FillAndRefill(side, price, traded)
  <2>. DEFINE reserve == reserves[id]
              peak == PeakOf(reserve)
              left == reserve.hidden - peak
  <2>1. /\ id \in DOMAIN reserves
        /\ resting' = [resting EXCEPT ![id].qty = peak]
        /\ \/ reserves' = Drop(reserves, id)
           \/ reserves' = [reserves EXCEPT ![id].hidden = left]
    BY <1>4 DEF FillAndRefill
  <2>2. /\ reserve \in Reserve
        /\ LotOk(reserve.display)
        /\ LotOk(reserve.hidden)
    BY <1>2, <2>1 DEF BookTypeOK, IsMap, OnGrid
  <2>3. /\ peak \in Nat /\ peak <= reserve.hidden
        /\ left \in Nat
        /\ LotOk(peak) /\ LotOk(left)
    <3>. HIDE DEF reserve
    <3>1. reserve.display \in Nat /\ reserve.hidden \in Nat
      BY <2>2 DEF Reserve
    <3>2. peak = Min({reserve.display, reserve.hidden})
      BY DEF PeakOf
    <3>3. LotOk(Min({reserve.display, reserve.hidden}))
      BY <2>2, <3>1, LotFacts
    <3>4. peak \in Nat /\ peak <= reserve.hidden /\ LotOk(peak)
      BY <3>1, <3>2, <3>3, MinOfTwo
    <3>. HIDE DEF peak
    <3>5. left \in Nat
      BY <3>1, <3>4
    <3>6. LotOk(reserve.hidden - peak)
      BY <2>2, <3>1, <3>4, LotFacts
    <3>. QED  BY <3>4, <3>5, <3>6
  <2>4. \A x \in DOMAIN resting' :
           TickOk(resting'[x].price) /\ LotOk(resting'[x].qty)
    <3>. HIDE DEF peak, id
    <3>. QED  BY <1>1, <1>2, <2>1, <2>3, QtyKeepsGrid
  <2>5. \A x \in DOMAIN reserves' :
           LotOk(reserves'[x].display) /\ LotOk(reserves'[x].hidden)
    <3>1. \A x \in DOMAIN reserves : reserves[x] \in Reserve
      BY <1>2 DEF BookTypeOK, IsMap
    <3>. HIDE DEF left, id
    <3>2. \A x \in DOMAIN reserves' :
             /\ x \in DOMAIN reserves
             /\ reserves'[x].display = reserves[x].display
             /\ reserves'[x].hidden \in {left, reserves[x].hidden}
      <4>1. CASE reserves' = Drop(reserves, id)
        <5>1. /\ DOMAIN reserves' = DOMAIN reserves \ {id}
              /\ \A x \in DOMAIN reserves \ {id} : reserves'[x] = reserves[x]
          BY <4>1, DropFacts
        <5>. QED  BY <5>1
      <4>2. CASE reserves' = [reserves EXCEPT ![id].hidden = left]
        BY <2>1, <3>1, <4>2 DEF Reserve
      <4>. QED  BY <2>1, <4>1, <4>2
    <3>. QED  BY <2>3, <3>2 DEF OnGrid
  <2>. QED  BY <2>4, <2>5 DEF OnGrid, LotOk, TickOk
<1>5. CASE FillAndRemove(side, price, traded)
  BY <1>5, DropKeepsGrid DEF FillAndRemove
<1>. QED  BY <1>3, <1>4, <1>5 DEF FillHead

LEMMA InsertKeepsGrid ==
    ASSUME OnGrid, NEW id, NEW order, NEW display, NEW hidden,
           Insert(id, order, display, hidden),
           TickOk(order.price), LotOk(order.qty),
           LotOk(display), LotOk(hidden)
    PROVE  OnGrid'
<1>1. \A x \in DOMAIN resting' :
         TickOk(resting'[x].price) /\ LotOk(resting'[x].qty)
  <2>1. resting' = Put(resting, id, order)
    BY DEF Insert
  <2>2. \A x \in DOMAIN resting' :
           \/ resting'[x] = order
           \/ x \in DOMAIN resting /\ resting'[x] = resting[x]
    BY <2>1 DEF Put
  <2>. QED  BY <2>2 DEF OnGrid
<1>2. \A x \in DOMAIN reserves' :
         LotOk(reserves'[x].display) /\ LotOk(reserves'[x].hidden)
  <2>. DEFINE reserve == [display |-> display, hidden |-> hidden]
  <2>1. reserves' = Put(reserves, id, reserve) \/ reserves' = reserves
    BY DEF Insert
  <2>2. \A x \in DOMAIN reserves' :
           \/ reserves'[x] = reserve
           \/ x \in DOMAIN reserves /\ reserves'[x] = reserves[x]
    BY <2>1 DEF Put
  <2>. QED  BY <2>2 DEF OnGrid
<1>. QED  BY <1>1, <1>2 DEF OnGrid, TickOk, LotOk

----------------------------------------------------------------------------
(* The steps of a call *)

LEMMA StopLeavesGrid ==
    ASSUME Inv, GridInv, NEW i \in DOMAIN stops, stops' = WithoutStop(i)
    PROVE  StopsOnGrid'
<1>1. \A j \in DOMAIN stops' : \E k \in DOMAIN stops : stops'[j] = stops[k]
  BY StopLeaves DEF Inv
<1>. QED  BY <1>1 DEF GridInv, StopsOnGrid, TickOk, LotOk

LEMMA BookUntouchedGrid ==
    ASSUME OnGrid, UNCHANGED bookVars
    PROVE  OnGrid'
BY DEF OnGrid, bookVars, TickOk, LotOk

\* Orders enter through the gateway and are matched or parked as they came.
LEMMA SubmitNewGrid ==
    ASSUME Inv, GridInv, NEW order \in NewOrders, SubmitNew(order)
    PROVE  GridInv'
<1>1. OnGrid'
  BY BookUntouchedGrid DEF SubmitNew, RejectCommand, ParkStop, RefuseOrder,
                           AcceptOrder, GridInv
<1>2. order \in NewOrder
  BY MenuAssumption
<1>3. CASE RejectCommand(New(order)) \/ RefuseOrder(order)
  BY <1>1, <1>3 DEF RejectCommand, RefuseOrder, GridInv, LiveOnGrid,
                    StopsOnGrid, TickOk, LotOk
<1>4. CASE ParkStop(order)
  <2>. DEFINE stop == PendingStopOf(order)
  <2>1. /\ Validate(New(order)) = Ok
        /\ stops' = Append(stops, stop)
        /\ phase' = "stops"
        /\ stops \in Seq(PendingStop)
    BY <1>4 DEF ParkStop, Admit, Inv, CallTypeOK
  <2>2. /\ LotOk(stop.qty)
        /\ stop.limit_price # None => TickOk(stop.limit_price)
    BY <1>2, <2>1, OrderOnGrid DEF PendingStopOf
  <2>. HIDE DEF stop
  <2>3. \A i \in DOMAIN stops' :
           stops'[i] = stop \/ (i \in DOMAIN stops /\ stops'[i] = stops[i])
    BY <2>1
  <2>4. StopsOnGrid'
    BY <2>2, <2>3 DEF GridInv, StopsOnGrid, TickOk, LotOk
  <2>. QED  BY <1>1, <2>1, <2>4 DEF GridInv, LiveOnGrid
<1>5. CASE AcceptOrder(order)
  <2>1. /\ Validate(New(order)) = Ok
        /\ order.type \in {"Limit", "Market", "Iceberg"}
        /\ live' = LiveOf(next_order_id, order, LimitOf(order),
                          DisplayOf(order))
        /\ stops' = stops
    BY <1>2, <1>5 DEF AcceptOrder, Admit, NewOrder, OrderTypes
  <2>2. /\ live'.qty = order.qty
        /\ live'.display = DisplayOf(order)
        /\ live'.limit_price = LimitOf(order)
    BY <2>1 DEF LiveOf
  <2>3. LotOk(order.qty) /\ LotOk(DisplayOf(order))
    BY <1>2, <2>1, OrderOnGrid, ZeroIsWhole DEF DisplayOf
  <2>4. LimitOf(order) # None => TickOk(LimitOf(order))
    BY <1>2, <2>1, OrderOnGrid DEF LimitOf
  <2>5. LiveOnGrid'
    BY <2>2, <2>3, <2>4 DEF LiveOnGrid, TickOk, LotOk
  <2>6. StopsOnGrid'
    BY <2>1 DEF GridInv, StopsOnGrid, TickOk, LotOk
  <2>. QED  BY <1>1, <2>5, <2>6 DEF GridInv
<1>. QED  BY <1>3, <1>4, <1>5 DEF SubmitNew

LEMMA SubmitCancelGrid ==
    ASSUME Inv, GridInv, NEW id \in Nat, SubmitCancel(id)
    PROVE  GridInv'
<1>1. phase' = "done"
  BY DEF SubmitCancel, CancelInBook, CancelStop, CancelUnknown
<1>2. OnGrid'
  <2>1. CASE CancelInBook(id)
    BY <2>1, DropKeepsGrid DEF CancelInBook, CancelResting, GridInv
  <2>2. CASE CancelStop(id) \/ CancelUnknown(id)
    BY <2>2, BookUntouchedGrid DEF CancelStop, CancelUnknown, GridInv
  <2>. QED  BY <2>1, <2>2 DEF SubmitCancel
<1>3. StopsOnGrid'
  <2>1. CASE stops' = stops
    BY <2>1 DEF GridInv, StopsOnGrid, TickOk, LotOk
  <2>2. CASE CancelStop(id)
    BY <2>2, StopLeavesGrid DEF CancelStop
  <2>. QED  BY <2>1, <2>2 DEF SubmitCancel, CancelInBook, CancelUnknown
<1>. QED  BY <1>1, <1>2, <1>3 DEF GridInv, LiveOnGrid

\* An amendment that moves or grows an order gives it the checked numbers;
\* the peak is the one the order already had.
LEMMA SubmitModifyGrid ==
    ASSUME Inv, GridInv, NEW id \in Nat, NEW a \in Amendments,
           SubmitModify(id, a)
    PROVE  GridInv'
<1>1. a \in Amendment
  BY MenuAssumption
<1>2. stops' = stops
  BY DEF SubmitModify, RejectCommand, ModifyUnknown, ModifyInPlace,
         ModifyReplace
<1>3. StopsOnGrid'
  BY <1>2 DEF GridInv, StopsOnGrid, TickOk, LotOk
<1>4. CASE RejectCommand(Modify(id, a)) \/ ModifyUnknown(id, a)
  <2>1. OnGrid'
    BY <1>4, BookUntouchedGrid DEF RejectCommand, ModifyUnknown, GridInv
  <2>2. phase' = "done"
    BY <1>4 DEF RejectCommand, ModifyUnknown
  <2>. QED  BY <1>3, <2>1, <2>2 DEF GridInv, LiveOnGrid
<1>5. CASE ModifyInPlace(id, a)
  <2>1. /\ Validate(Modify(id, a)) = Ok
        /\ id \in DOMAIN resting
        /\ phase' = "done"
        /\ Reduce(id, a.qty) \/ UNCHANGED bookVars
    BY <1>5 DEF ModifyInPlace, Admit
  <2>2. a.qty \in Nat /\ LotOk(a.qty)
    BY <1>1, <2>1, AmendmentOnGrid DEF Amendment
  <2>3. OnGrid'
    <3>1. CASE Reduce(id, a.qty)
      <4>1. /\ resting' = [resting EXCEPT ![id].qty = a.qty]
            /\ reserves' = reserves
        BY <3>1 DEF Reduce
      <4>2. \A x \in DOMAIN resting' :
               TickOk(resting'[x].price) /\ LotOk(resting'[x].qty)
        BY <2>1, <2>2, <4>1, QtyKeepsGrid DEF GridInv, Inv, BookInv
      <4>. QED  BY <4>1, <4>2 DEF GridInv, OnGrid, TickOk, LotOk
    <3>2. CASE UNCHANGED bookVars
      BY <3>2, BookUntouchedGrid DEF GridInv
    <3>. QED  BY <2>1, <3>1, <3>2
  <2>. QED  BY <1>3, <2>1, <2>3 DEF GridInv, LiveOnGrid
<1>6. CASE ModifyReplace(id, a)
  <2>1. /\ Validate(Modify(id, a)) = Ok
        /\ live' = ReplacementOf(id, a)
        /\ CancelResting(id)
    BY <1>6 DEF ModifyReplace, Admit
  <2>2. OnGrid'
    BY <2>1, DropKeepsGrid DEF CancelResting, GridInv
  <2>3. LotOk(a.qty) /\ TickOk(a.price)
    BY <1>1, <2>1, AmendmentOnGrid
  <2>4. LotOk(IF id \in DOMAIN reserves THEN reserves[id].display ELSE 0)
    BY ZeroIsWhole DEF GridInv, OnGrid
  <2>5. /\ live'.qty = a.qty
        /\ live'.limit_price = a.price
        /\ live'.display = IF id \in DOMAIN reserves
                           THEN reserves[id].display ELSE 0
    BY <2>1 DEF ReplacementOf
  <2>6. LiveOnGrid'
    BY <2>3, <2>4, <2>5 DEF LiveOnGrid, TickOk, LotOk
  <2>. QED  BY <1>3, <2>2, <2>6 DEF GridInv
<1>. QED  BY <1>4, <1>5, <1>6 DEF SubmitModify

\* What is left of a taker after a trade is whole lots again.
LEMMA MatchStepGrid ==
    ASSUME Inv, GridInv, phase = "match", MatchStep
    PROVE  GridInv'
<1>1. PICK price \in DOMAIN levels[MakerSide] :
         \/ TradeWithHead(price)
         \/ CancelMaker(price)
         \/ CancelTaker(price)
         \/ CancelBoth(price)
  BY DEF MatchStep
<1>2. stops' = stops
  BY <1>1 DEF TradeWithHead, CancelMaker, CancelTaker, CancelBoth, FinishWith
<1>3. StopsOnGrid'
  BY <1>2 DEF GridInv, StopsOnGrid, TickOk, LotOk
<1>4. /\ live \in LiveOrder
      /\ live.qty \in Nat
      /\ MakerSide \in Sides
      /\ HeadOf(price) \in DOMAIN resting
      /\ resting[HeadOf(price)].qty \in Nat
  BY LiveFacts, MakerFacts
<1>5. CASE TradeWithHead(price)
  <2>. DEFINE traded == Min({live.qty, resting[HeadOf(price)].qty})
  <2>1. /\ FillHead(MakerSide, price, traded, live.owner)
        /\ live' = [live EXCEPT !.qty = @ - traded, !.last_px = price]
        /\ phase' = phase
    BY <1>5 DEF TradeWithHead
  <2>2. traded \in Nat /\ traded <= live.qty
    BY <1>4, MinOfTwo
  <2>3. LotOk(live.qty) /\ LotOk(resting[HeadOf(price)].qty)
    BY <1>4 DEF GridInv, LiveOnGrid, OnGrid
  <2>4. LotOk(traded)
    BY <1>4, <2>3, LotFacts
  <2>. HIDE DEF traded
  <2>5. LotOk(live.qty - traded)
    BY <1>4, <2>2, <2>3, <2>4, LotFacts
  <2>6. OnGrid'
    BY <1>4, <2>1, <2>2, <2>4, FillHeadKeepsGrid DEF Inv, GridInv
  <2>7. /\ live'.qty = live.qty - traded
        /\ live'.display = live.display
        /\ live'.limit_price = live.limit_price
    BY <1>4, <2>1 DEF LiveOrder
  <2>8. LiveOnGrid'
    BY <2>5, <2>7 DEF GridInv, LiveOnGrid, TickOk, LotOk
  <2>. QED  BY <1>3, <2>6, <2>8 DEF GridInv
<1>6. CASE CancelMaker(price)
  <2>1. /\ Detach(MakerSide, price)
        /\ live' = [live EXCEPT !.self_canceled = Append(@, HeadOf(price))]
        /\ phase' = phase
    BY <1>6 DEF CancelMaker
  <2>2. OnGrid'
    BY <2>1, DropKeepsGrid DEF Detach, GridInv
  <2>3. /\ live'.qty = live.qty
        /\ live'.display = live.display
        /\ live'.limit_price = live.limit_price
    BY <1>4, <2>1 DEF LiveOrder
  <2>. QED  BY <1>3, <2>2, <2>3 DEF GridInv, LiveOnGrid, TickOk, LotOk
<1>7. CASE CancelTaker(price)
  <2>1. OnGrid'
    BY <1>7, BookUntouchedGrid DEF CancelTaker, GridInv
  <2>. QED  BY <1>3, <1>7, <2>1 DEF CancelTaker, FinishWith, GridInv, LiveOnGrid
<1>8. CASE CancelBoth(price)
  <2>1. OnGrid'
    BY <1>8, DropKeepsGrid DEF CancelBoth, Detach, GridInv
  <2>. QED  BY <1>3, <1>8, <2>1 DEF CancelBoth, FinishWith, GridInv, LiveOnGrid
<1>. QED  BY <1>1, <1>5, <1>6, <1>7, <1>8

\* The rest of an iceberg is cut into a peak and a reserve of whole lots.
LEMMA FinishStepGrid ==
    ASSUME Inv, GridInv, phase = "match", FinishStep
    PROVE  GridInv'
<1>1. stops' = stops /\ phase' = "stops"
  BY DEF FinishStep, FinishFilled, RestRemainder, CancelRemainder, FinishWith
<1>2. StopsOnGrid' /\ LiveOnGrid'
  BY <1>1 DEF GridInv, StopsOnGrid, LiveOnGrid, TickOk, LotOk
<1>3. CASE FinishFilled \/ CancelRemainder
  BY <1>2, <1>3, BookUntouchedGrid DEF FinishFilled, CancelRemainder, GridInv
<1>4. CASE RestRemainder
  <2>. DEFINE sliced == live.display > 0 /\ live.display < live.qty
              visible == IF sliced THEN live.display ELSE live.qty
              order == [side |-> live.side, price |-> live.limit_price,
                        qty |-> visible, seq |-> seq, owner |-> live.owner]
  <2>1. /\ live.qty \in Nat /\ live.display \in Nat
        /\ LotOk(live.qty) /\ LotOk(live.display)
        /\ live.limit_price # None => TickOk(live.limit_price)
    BY LiveFacts DEF GridInv, LiveOnGrid
  <2>2. /\ live.limit_price # None
        /\ Insert(live.order_id, order, live.display, live.qty - visible)
    BY <1>4 DEF RestRemainder, Rests
  <2>3. visible \in Nat /\ visible <= live.qty /\ LotOk(visible)
    BY <2>1
  <2>4. order.price = live.limit_price /\ order.qty = visible
    OBVIOUS
  <2>. HIDE DEF visible, order
  <2>5. LotOk(live.qty - visible)
    BY <2>1, <2>3, LotFacts
  <2>6. OnGrid'
    BY <2>1, <2>2, <2>3, <2>4, <2>5, InsertKeepsGrid DEF GridInv
  <2>. QED  BY <1>2, <2>6 DEF GridInv
<1>. QED  BY <1>3, <1>4 DEF FinishStep

\* A stop was checked when it was parked.
LEMMA StopStepGrid ==
    ASSUME Inv, GridInv, StopStep
    PROVE  GridInv'
<1>1. PICK i \in DOMAIN stops : ActivateStop(i) \/ RefuseStop(i)
  BY DEF StopStep
<1>2. /\ OnGrid'
      /\ stops' = WithoutStop(i)
      /\ phase = "stops"
  BY <1>1, BookUntouchedGrid DEF ActivateStop, RefuseStop, TakeTriggered, GridInv
<1>3. StopsOnGrid'
  BY <1>2, StopLeavesGrid
<1>4. CASE ActivateStop(i)
  <2>1. live' = LiveOf(stops[i].id, stops[i], stops[i].limit_price, 0)
    BY <1>4 DEF ActivateStop
  <2>2. /\ live'.qty = stops[i].qty
        /\ live'.display = 0
        /\ live'.limit_price = stops[i].limit_price
    BY <2>1 DEF LiveOf
  <2>3. LiveOnGrid'
    BY <2>2, ZeroIsWhole DEF GridInv, StopsOnGrid, LiveOnGrid, TickOk, LotOk
  <2>. QED  BY <1>2, <1>3, <2>3 DEF GridInv
<1>5. CASE RefuseStop(i)
  BY <1>2, <1>3, <1>5 DEF RefuseStop, GridInv, LiveOnGrid
<1>. QED  BY <1>1, <1>4, <1>5

LEMMA GridKept == Inv /\ GridInv /\ [Next]_vars => GridInv'
<1>. SUFFICES ASSUME Inv, GridInv, [Next]_vars
              PROVE  GridInv'
  OBVIOUS
<1>1. KnownIds \subseteq Nat
  BY DEF KnownIds, Inv, CallTypeOK
<1>2. CASE \E order \in NewOrders : SubmitNew(order)
  BY <1>2, SubmitNewGrid
<1>3. CASE \E id \in KnownIds : SubmitCancel(id)
  BY <1>1, <1>3, SubmitCancelGrid
<1>4. CASE \E id \in KnownIds, a \in Amendments : SubmitModify(id, a)
  BY <1>1, <1>4, SubmitModifyGrid
<1>5. CASE phase = "match" /\ (MatchStep \/ FinishStep)
  BY <1>5, MatchStepGrid, FinishStepGrid
<1>6. CASE StopStep
  BY <1>6, StopStepGrid
<1>7. CASE StopsSettled \/ Deliver
  <2>1. UNCHANGED <<bookVars, stops>> /\ phase' # "match"
    BY <1>7 DEF StopsSettled, Deliver
  <2>2. OnGrid'
    BY <2>1, BookUntouchedGrid DEF GridInv
  <2>. QED  BY <2>1, <2>2 DEF GridInv, StopsOnGrid, LiveOnGrid, TickOk, LotOk
<1>8. CASE UNCHANGED vars
  <2>1. UNCHANGED <<bookVars, stops, phase, live>>
    BY <1>8 DEF vars, engineVars
  <2>2. OnGrid'
    BY <2>1, BookUntouchedGrid DEF GridInv
  <2>. QED  BY <2>1, <2>2 DEF GridInv, StopsOnGrid, LiveOnGrid, TickOk, LotOk
<1>. QED  BY <1>2, <1>3, <1>4, <1>5, <1>6, <1>7, <1>8 DEF Next, Run

----------------------------------------------------------------------------
\* Everything in the book is on the tick and lot grid, for every grid: what
\* the gateway checks once is never lost by a fill, a refill or an amendment.
THEOREM GridKeeps == Spec => []OnGrid
<1>1. Init => GridInv
  <2>. SUFFICES ASSUME Init
                PROVE  GridInv
    OBVIOUS
  <2>1. /\ DOMAIN resting = {}
        /\ DOMAIN reserves = {}
        /\ DOMAIN stops = {}
        /\ phase = "idle"
    BY DEF Init, BookInit
  <2>. QED  BY <2>1 DEF GridInv, OnGrid, LiveOnGrid, StopsOnGrid
<1>2. GridInv => OnGrid
  BY DEF GridInv
<1>. QED  BY <1>1, <1>2, GridKept, Invariance, PTL DEF Spec
=============================================================================
