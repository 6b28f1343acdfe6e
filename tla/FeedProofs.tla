----------------------------- MODULE FeedProofs -----------------------------
(***************************************************************************)
(* The market data channels, for every menu of orders and amendments,      *)
(* every size of a batch and every capacity of the tape: what the feeds    *)
(* make of the events of a call is what a restart would make of the book.  *)
(***************************************************************************)
EXTENDS MarketData, VolumeProofs

----------------------------------------------------------------------------
(* What the events of a call tell of one order                              *)
(*                                                                          *)
(* The L2 feed reads the events when the call is over, with the book as it  *)
(* is then: whether an event counts depends on whether its order is still   *)
(* in the book.  As long as the call runs, both may come true; so an order  *)
(* is followed twice, once for either end.  sides is {} or has the side of  *)
(* the order, if it is in the book in the end; at has the level at which    *)
(* the feed looks for the order, if it does.                                *)

Noted(s, event, id, sides) ==
    CASE event.type = "Trade" /\ event.maker_order_id = id ->
           [touched |-> s.touched
                          \cup {<<Opposite(event.taker_side), event.price>>},
            at |-> IF sides = {} THEN {} ELSE s.at]
      [] event.type = "Resting" /\ event.order_id = id /\ sides # {} ->
           [touched |-> s.touched \cup (sides \X {event.price}),
            at |-> sides \X {event.price}]
      [] event.type = "Modified" /\ event.order_id = id ->
           [touched |-> s.touched \cup s.at, at |-> s.at]
      [] event.type \in {"Canceled", "Filled"} /\ event.order_id = id ->
           [touched |-> s.touched \cup s.at, at |-> {}]
      [] OTHER -> s

IsTrail(g, events, id, start, sides) ==
    /\ g[0] = [touched |-> {}, at |-> start]
    /\ \A i \in 1..Len(events) : g[i] = Noted(g[i - 1], events[i], id, sides)

\* What is noted of an order that was at start after all of the events.
Leads(events, id, start, sides, s) ==
    \E g : IsTrail(g, events, id, start, sides) /\ s = g[Len(events)]

LEMMA NothingLeads ==
    ASSUME NEW id, NEW start, NEW sides
    PROVE  Leads(<<>>, id, start, sides, [touched |-> {}, at |-> start])
<1> DEFINE g == [i \in 0..0 |-> [touched |-> {}, at |-> start]]
<1>1. IsTrail(g, <<>>, id, start, sides)
  BY DEF IsTrail
<1>2. g[Len(<<>>)] = [touched |-> {}, at |-> start]
  OBVIOUS
<1>. QED  BY <1>1, <1>2 DEF Leads

LEMMA AppendFacts ==
    ASSUME NEW events \in Seq(Event), NEW event \in Event
    PROVE  /\ Len(events) \in Nat
           /\ Append(events, event) \in Seq(Event)
           /\ Len(Append(events, event)) = Len(events) + 1
           /\ Append(events, event)[Len(events) + 1] = event
           /\ \A i \in 1..Len(events) : Append(events, event)[i] = events[i]
OBVIOUS

LEMMA AppendedOnce ==
    ASSUME NEW events \in Seq(Event), NEW event \in Event, NEW e \in Event,
           Append(events, event) = Append(events, e)
    PROVE  e = event
<1>1. Append(events, e)[Len(events) + 1] = e
  BY AppendFacts
<1>. QED  BY <1>1, AppendFacts

LEMMA NextLeads ==
    ASSUME NEW events \in Seq(Event), NEW event \in Event, NEW id, NEW start,
           NEW sides, NEW s, Leads(events, id, start, sides, s)
    PROVE  Leads(Append(events, event), id, start, sides,
                 Noted(s, event, id, sides))
<1>1. PICK g : IsTrail(g, events, id, start, sides) /\ s = g[Len(events)]
  BY DEF Leads
<1> DEFINE all == Append(events, event)
           h == [i \in 0..(Len(events) + 1) |->
                    IF i <= Len(events) THEN g[i]
                    ELSE Noted(s, event, id, sides)]
<1>2. PICK n \in Nat : n = Len(events)
  OBVIOUS
<1>3. /\ Len(all) = n + 1
      /\ all[n + 1] = event
      /\ \A i \in 1..n : all[i] = events[i]
  BY <1>2, AppendFacts
<1>. HIDE DEF all
<1>4. /\ \A i \in 0..n : h[i] = g[i]
      /\ h[n + 1] = Noted(s, event, id, sides)
  BY <1>2
<1>. HIDE DEF h
<1>5. ASSUME NEW i \in 1..(n + 1)
      PROVE  h[i] = Noted(h[i - 1], all[i], id, sides)
  <2>1. CASE i = n + 1
    <3>1. i - 1 = n /\ n \in 0..n
      BY <2>1
    <3>. QED  BY <1>1, <1>2, <1>3, <1>4, <2>1, <3>1
  <2>2. CASE i # n + 1
    <3>1. i \in 1..n /\ i \in 0..n /\ i - 1 \in 0..n
      BY <2>2
    <3>. QED  BY <1>1, <1>2, <1>3, <1>4, <3>1 DEF IsTrail
  <2>. QED  BY <2>1, <2>2
<1>6. h[0] = [touched |-> {}, at |-> start]
  <2>1. 0 \in 0..n
    OBVIOUS
  <2>. QED  BY <1>1, <1>4, <2>1 DEF IsTrail
<1>7. IsTrail(h, all, id, start, sides)
  BY <1>3, <1>5, <1>6 DEF IsTrail
<1>. QED  BY <1>3, <1>4, <1>7 DEF Leads, all

\* The orders that a run of cancels takes away.
AreCancels(cancels, ids, s) ==
    /\ Len(cancels) = Len(ids)
    /\ \A i \in 1..Len(ids) : cancels[i] = Canceled(s, ids[i])

WithCancel(s) == [touched |-> s.touched \cup s.at, at |-> {}]
WithModified(s) == [touched |-> s.touched \cup s.at, at |-> s.at]
WithResting(s, at) == [touched |-> s.touched \cup at, at |-> at]
WithTrade(s, sides, level) ==
    [touched |-> s.touched \cup {level},
     at |-> IF sides = {} THEN {} ELSE s.at]

LEMMA NewsFacts ==
    ASSUME NEW a \in Seq(Event), NEW b \in Seq(Event)
    PROVE  /\ a \o b \in Seq(Event)
           /\ Len(a) \in Nat
           /\ Len(b) \in Nat
           /\ Len(a \o b) = Len(a) + Len(b)
           /\ \A i \in 1..Len(a) : (a \o b)[i] = a[i]
           /\ \A i \in 1..Len(b) : (a \o b)[Len(a) + i] = b[i]
OBVIOUS

LEMMA CancelNoted ==
    ASSUME NEW s, NEW n, NEW x, NEW id, NEW sides
    PROVE  Noted(s, Canceled(n, x), id, sides) =
               IF x = id THEN WithCancel(s) ELSE s
BY DEF Noted, Canceled, WithCancel

LEMMA CancelsLead ==
    ASSUME NEW events \in Seq(Event), NEW cancels \in Seq(Event),
           NEW ids \in Seq(Nat), NEW n, AreCancels(cancels, ids, n),
           NEW id, NEW start, NEW sides, NEW s,
           Leads(events, id, start, sides, s)
    PROVE  Leads(events \o cancels, id, start, sides,
                 IF id \in ToSet(ids) THEN WithCancel(s) ELSE s)
<1>1. PICK g : IsTrail(g, events, id, start, sides) /\ s = g[Len(events)]
  BY DEF Leads
<1>2. PICK m \in Nat, k \in Nat : m = Len(events) /\ k = Len(ids)
  OBVIOUS
<1> DEFINE all == events \o cancels
           Off(j) == \E i \in 1..j : ids[i] = id
           h == [i \in 0..(m + k) |->
                    IF i <= m THEN g[i]
                    ELSE IF Off(i - m) THEN WithCancel(s) ELSE s]
<1>3. /\ Len(all) = m + k
      /\ \A i \in 1..m : all[i] = events[i]
      /\ \A i \in 1..k : all[m + i] = Canceled(n, ids[i])
  <2>1. Len(cancels) = k /\ \A i \in 1..k : cancels[i] = Canceled(n, ids[i])
    BY <1>2 DEF AreCancels
  <2>2. /\ Len(all) = Len(events) + Len(cancels)
        /\ \A i \in 1..Len(events) : all[i] = events[i]
        /\ \A i \in 1..Len(cancels) : all[Len(events) + i] = cancels[i]
    BY NewsFacts
  <2>. QED  BY <1>2, <2>1, <2>2
<1>. HIDE DEF all
<1>4. /\ \A i \in 0..m : h[i] = g[i]
      /\ \A j \in 0..k : h[m + j] = IF Off(j) THEN WithCancel(s) ELSE s
  <2>1. \A i \in 0..m : i \in 0..(m + k) /\ i <= m
    OBVIOUS
  <2>2. ASSUME NEW j \in 0..k
        PROVE  h[m + j] = IF Off(j) THEN WithCancel(s) ELSE s
    <3>1. m + j \in 0..(m + k) /\ (m + j) - m = j
      OBVIOUS
    <3>2. CASE j = 0
      <4>1. ~Off(j) /\ m + j = m
        BY <3>2
      <4>. QED  BY <1>1, <1>2, <3>1, <4>1
    <3>3. CASE j # 0
      <4>1. ~(m + j <= m)
        BY <3>3
      <4>. QED  BY <3>1, <4>1
    <3>. QED  BY <3>2, <3>3
  <2>. QED  BY <2>1, <2>2
<1>. HIDE DEF h
<1>5. ASSUME NEW j \in 1..k
      PROVE  h[m + j] = Noted(h[m + (j - 1)], all[m + j], id, sides)
  <2>1. j - 1 \in 0..k /\ j \in 0..k
    OBVIOUS
  <2>2. Off(j) <=> Off(j - 1) \/ ids[j] = id
    <3>1. \A i : i \in 1..j <=> i \in 1..(j - 1) \/ i = j
      OBVIOUS
    <3>. QED  BY <3>1
  <2>3. WithCancel(WithCancel(s)) = WithCancel(s)
    BY DEF WithCancel
  <2>4. Noted(h[m + (j - 1)], all[m + j], id, sides) =
           IF ids[j] = id THEN WithCancel(h[m + (j - 1)]) ELSE h[m + (j - 1)]
    BY <1>3, CancelNoted
  <2>5. /\ h[m + j] = IF Off(j) THEN WithCancel(s) ELSE s
        /\ h[m + (j - 1)] = IF Off(j - 1) THEN WithCancel(s) ELSE s
    BY <1>4, <2>1
  <2>. HIDE DEF Off
  <2>. QED  BY <2>2, <2>3, <2>4, <2>5
<1>6. ASSUME NEW i \in 1..(m + k)
      PROVE  h[i] = Noted(h[i - 1], all[i], id, sides)
  <2>1. CASE i <= m
    <3>1. i \in 1..m /\ i \in 0..m /\ i - 1 \in 0..m
      BY <2>1
    <3>2. g[i] = Noted(g[i - 1], events[i], id, sides)
      BY <1>1, <1>2, <3>1 DEF IsTrail
    <3>. QED  BY <1>3, <1>4, <3>1, <3>2
  <2>2. CASE i > m
    <3>1. i - m \in 1..k /\ m + (i - m) = i /\ m + ((i - m) - 1) = i - 1
      BY <2>2
    <3>2. PICK j \in 1..k : j = i - m
      BY <3>1
    <3>. QED  BY <1>5, <3>1, <3>2
  <2>. QED  BY <2>1, <2>2
<1>7. h[0] = [touched |-> {}, at |-> start]
  <2>1. 0 \in 0..m
    OBVIOUS
  <2>. QED  BY <1>1, <1>4, <2>1 DEF IsTrail
<1>8. IsTrail(h, all, id, start, sides)
  BY <1>3, <1>6, <1>7 DEF IsTrail
<1>9. Off(k) <=> id \in ToSet(ids)
  <2>1. DOMAIN ids = 1..k
    BY <1>2
  <2>. QED  BY <2>1 DEF ToSet
<1>10. h[Len(all)] = IF id \in ToSet(ids) THEN WithCancel(s) ELSE s
  <2>1. k \in 0..k
    OBVIOUS
  <2>2. h[m + k] = IF Off(k) THEN WithCancel(s) ELSE s
    BY <1>4, <2>1
  <2>. HIDE DEF Off
  <2>. QED  BY <1>3, <1>9, <2>2
<1>. QED  BY <1>8, <1>10 DEF Leads, all

----------------------------------------------------------------------------
(* The invariant of the L2 feed                                             *)
(*                                                                          *)
(* r stands for the orders of the book when the feed was last brought up    *)
(* to date.  What became of each of them since, the events tell: News are   *)
(* those of the call under way.                                             *)

News == backlog \o out

Where(r, id) == <<r[id].side, r[id].price>>
Was(r, id) == IF id \in DOMAIN r THEN {Where(r, id)} ELSE {}

\* Makers that self-trade prevention has removed and not yet published.
GoneIds == IF phase = "match" THEN ToSet(live.self_canceled) ELSE {}

ToldResting(r, id, sides, s) ==
    /\ sides = {resting[id].side} =>
          /\ s.at = {LevelOf(id)}
          /\ \/ /\ id \in DOMAIN r
                /\ Where(r, id) = LevelOf(id)
                /\ r[id].qty = resting[id].qty
             \/ {LevelOf(id)} \cup Was(r, id) \subseteq s.touched
    /\ sides = {} =>
          \/ s.at = {LevelOf(id)} /\ Was(r, id) = {LevelOf(id)}
          \/ Was(r, id) \subseteq s.touched

ToldLive(r, id, sides, s) ==
    sides \in {{}, {live.side}} => Was(r, id) \subseteq s.touched

ToldGone(r, id, sides, s) ==
    sides = {} => s.at = Was(r, id) \/ Was(r, id) \subseteq s.touched

ToldLeft(r, id, sides, s) ==
    sides = {} => s.at = {} /\ Was(r, id) \subseteq s.touched

\* A level that is not touched has its orders of then, each with its quantity
\* of then; and the feed looks for an order where it is.
Told(r, id, sides, s) ==
    CASE id \in DOMAIN resting -> ToldResting(r, id, sides, s)
      [] id \notin DOMAIN resting /\ id \in LiveIds ->
           ToldLive(r, id, sides, s)
      [] id \notin DOMAIN resting \cup LiveIds /\ id \in GoneIds ->
           ToldGone(r, id, sides, s)
      [] OTHER -> ToldLeft(r, id, sides, s)

Ends == {{}, {"Buy"}, {"Sell"}}

Followed(r, id) ==
    \A sides \in Ends :
        \E s : /\ Leads(News, id, Was(r, id), sides, s)
              /\ Told(r, id, sides, s)

SumAt(r, level) ==
    SumFunctionOnSet([id \in DOMAIN r |-> r[id].qty],
                     {id \in DOMAIN r : Where(r, id) = level})

\* The feed is the one that the orders r make.
Seeds(r) ==
    /\ order_loc = [id \in DOMAIN r |-> Where(r, id)]
    /\ l2 = [level \in {Where(r, id) : id \in DOMAIN r} |-> SumAt(r, level)]

\* None of them is dormant, or has an id that was not handed out.
NotAhead(r) ==
    \A id \in DOMAIN r : /\ id \in Nat
                         /\ id < next_order_id
                         /\ id \notin StopIds

FollowsAll(r) == NotAhead(r) /\ \A id : Followed(r, id)

CallFacts ==
    /\ backlog \in Seq(Event)
    /\ phase = "idle" => out = <<>>
    /\ GoneIds \cap DOMAIN resting = {}

L2Inv == CallFacts /\ \E r : Seeds(r) /\ FollowsAll(r)

----------------------------------------------------------------------------
(* One more event, or none                                                  *)

\* An event that the feed looks the order up for.
Concerns(event, id) ==
    \/ event.type = "Trade" /\ event.maker_order_id = id
    \/ /\ event.type \in {"Resting", "Modified", "Canceled", "Filled"}
       /\ event.order_id = id

LEMMA OthersUnnoted ==
    ASSUME NEW s, NEW event, NEW id, NEW sides, ~Concerns(event, id)
    PROVE  Noted(s, event, id, sides) = s
BY DEF Noted, Concerns

\* Nothing happened to the order.
Unmoved(id) ==
    /\ id \in DOMAIN resting' <=> id \in DOMAIN resting
    /\ id \in DOMAIN resting => resting'[id] = resting[id]
    /\ id \in LiveIds' <=> id \in LiveIds
    /\ id \in LiveIds => live'.side = live.side
    /\ id \in GoneIds' <=> id \in GoneIds

LEMMA UnmovedTold ==
    ASSUME NEW r, NEW id, Unmoved(id), NEW sides, NEW s,
           Told(r, id, sides, s)
    PROVE  Told(r, id, sides, s)'
BY DEF Unmoved, Told, ToldResting, ToldLive, ToldGone, ToldLeft, LevelOf

LEMMA SilentFollowed ==
    ASSUME NEW r, NEW id, Followed(r, id), News' = News,
           \A sides \in Ends : \A s :
               Told(r, id, sides, s) => Told(r, id, sides, s)'
    PROVE  Followed(r, id)'
BY DEF Followed

LEMMA NextFollowed ==
    ASSUME NEW r, NEW id, Followed(r, id), News \in Seq(Event),
           NEW event \in Event, News' = Append(News, event),
           \A sides \in Ends : \A s :
               Told(r, id, sides, s)
                  => Told(r, id, sides, Noted(s, event, id, sides))'
    PROVE  Followed(r, id)'
<1>. SUFFICES ASSUME NEW sides \in Ends
              PROVE  \E s : /\ Leads(News', id, Was(r, id), sides, s)
                           /\ Told(r, id, sides, s)'
  BY DEF Followed
<1>1. PICK s : Leads(News, id, Was(r, id), sides, s) /\ Told(r, id, sides, s)
  BY DEF Followed
<1>2. Leads(News', id, Was(r, id), sides, Noted(s, event, id, sides))
  BY <1>1, NextLeads
<1>. QED  BY <1>1, <1>2

LEMMA UnmovedFollowed ==
    ASSUME NEW r, NEW id, Followed(r, id), Unmoved(id), News \in Seq(Event),
           \/ News' = News
           \/ \E event \in Event : /\ News' = Append(News, event)
                                  /\ ~Concerns(event, id)
    PROVE  Followed(r, id)'
<1>1. \A sides \in Ends : \A s :
         Told(r, id, sides, s) => Told(r, id, sides, s)'
  BY UnmovedTold
<1>2. CASE News' = News
  BY <1>1, <1>2, SilentFollowed
<1>3. CASE \E event \in Event : /\ News' = Append(News, event)
                                /\ ~Concerns(event, id)
  <2>1. PICK event \in Event : /\ News' = Append(News, event)
                               /\ ~Concerns(event, id)
    BY <1>3
  <2>2. \A sides \in Ends : \A s : Noted(s, event, id, sides) = s
    BY <2>1, OthersUnnoted
  <2>. QED  BY <1>1, <2>1, <2>2, NextFollowed
<1>. QED  BY <1>2, <1>3

\* The end of settle: the cancels of the removed makers, and one more event.
LEMMA FinishFollowed ==
    ASSUME NEW r, NEW id, Followed(r, id), News \in Seq(Event),
           NEW ids \in Seq(Nat), NEW event \in Event, seq \in Nat,
           News' = Append(News \o SelfCancels(ids), event),
           \A sides \in Ends : \A s :
               Told(r, id, sides, s)
                  => Told(r, id, sides,
                          Noted(IF id \in ToSet(ids) THEN WithCancel(s) ELSE s,
                                event, id, sides))'
    PROVE  Followed(r, id)'
<1>. SUFFICES ASSUME NEW sides \in Ends
              PROVE  \E s : /\ Leads(News', id, Was(r, id), sides, s)
                           /\ Told(r, id, sides, s)'
  BY DEF Followed
<1>1. PICK s : Leads(News, id, Was(r, id), sides, s) /\ Told(r, id, sides, s)
  BY DEF Followed
<1>2. SelfCancels(ids) \in Seq(Event)
  BY SelfCancelsTyped
<1>3. AreCancels(SelfCancels(ids), ids, seq)
  BY DEF AreCancels, SelfCancels
<1> DEFINE t == IF id \in ToSet(ids) THEN WithCancel(s) ELSE s
<1>4. Leads(News \o SelfCancels(ids), id, Was(r, id), sides, t)
  BY <1>1, <1>2, <1>3, CancelsLead
<1>. HIDE DEF t
<1>5. Leads(News', id, Was(r, id), sides, Noted(t, event, id, sides))
  <2>1. News \o SelfCancels(ids) \in Seq(Event)
    BY <1>2, NewsFacts
  <2>. QED  BY <1>4, <2>1, NextLeads
<1>. QED  BY <1>1, <1>5 DEF t

LEMMA NewsTyped ==
    ASSUME Inv, CallFacts
    PROVE  /\ out \in Seq(Event)
           /\ backlog \in Seq(Event)
           /\ News \in Seq(Event)
BY NewsFacts DEF News, CallFacts, Inv, CallTypeOK

LEMMA NewsAppended ==
    ASSUME Inv, CallFacts, backlog' = backlog, NEW event \in Event,
           out' = Append(out, event)
    PROVE  News' = Append(News, event)
<1>1. \A a, b \in Seq(Event) : a \o Append(b, event) = Append(a \o b, event)
  OBVIOUS
<1>. QED  BY <1>1, NewsTyped DEF News

LEMMA FirstNews ==
    ASSUME Inv, CallFacts, backlog' = backlog, phase = "idle",
           NEW event \in Event, out' = <<event>>
    PROVE  News' = Append(News, event)
<1>1. out' = Append(out, event)
  BY DEF CallFacts
<1>. QED  BY <1>1, NewsAppended

LEMMA ConcatAppends ==
    ASSUME NEW S, NEW a \in Seq(S), NEW b \in Seq(S), NEW c \in Seq(S),
           NEW e \in S
    PROVE  a \o (b \o c \o <<e>>) = Append((a \o b) \o c, e)
<1>1. /\ b \o c \in Seq(S)
      /\ (a \o b) \o c \in Seq(S)
      /\ <<e>> \in Seq(S)
  OBVIOUS
<1>2. a \o ((b \o c) \o <<e>>) = (a \o (b \o c)) \o <<e>>
  BY <1>1, ConcatAssociative
<1>3. a \o (b \o c) = (a \o b) \o c
  BY ConcatAssociative
<1>4. Append((a \o b) \o c, e) = ((a \o b) \o c) \o <<e>>
  BY <1>1, AppendIsConcat, Zenon
<1>. QED  BY <1>2, <1>3, <1>4, Zenon

LEMMA NewsFinished ==
    ASSUME Inv, CallFacts, backlog' = backlog, phase = "match",
           NEW ids \in Seq(Nat), NEW event \in Event, FinishWith(ids, event)
    PROVE  News' = Append(News \o SelfCancels(ids), event)
<1>1. SelfCancels(ids) \in Seq(Event)
  BY LiveFacts, SelfCancelsTyped
<1>2. backlog \in Seq(Event) /\ out \in Seq(Event)
  BY NewsTyped
<1>3. backlog \o (out \o SelfCancels(ids) \o <<event>>)
         = Append((backlog \o out) \o SelfCancels(ids), event)
  BY <1>1, <1>2, ConcatAppends
<1>. QED  BY <1>3 DEF News, FinishWith

\* The ids of later orders are new.
LEMMA StaysNotAhead ==
    ASSUME NEW r, NotAhead(r), next_order_id \in Nat, next_order_id' \in Nat,
           next_order_id' >= next_order_id,
           StopIds' \subseteq StopIds \cup {next_order_id}
    PROVE  NotAhead(r)'
BY DEF NotAhead

LEMMA NewIdUnseen ==
    ASSUME NEW r, NotAhead(r), NEW id,
           id \in StopIds \/ (id = next_order_id /\ next_order_id \in Nat)
    PROVE  Was(r, id) = {}
BY DEF NotAhead, Was

\* A step of which the feed learns nothing but of one order.
LEMMA OneFollowed ==
    ASSUME Inv, CallFacts, NEW r, FollowsAll(r), NotAhead(r)',
           News' = News \/ (\E event \in Event : News' = Append(News, event)),
           NEW id,
           \A x : x # id => /\ Unmoved(x)
                            /\ \A event \in Event :
                                  News' = Append(News, event)
                                      => ~Concerns(event, x),
           Followed(r, id)'
    PROVE  FollowsAll(r)'
<1>1. ASSUME NEW x, x # id
      PROVE  Followed(r, x)'
  <2>1. Followed(r, x) /\ News \in Seq(Event)
    BY NewsTyped DEF FollowsAll
  <2>. QED  BY <1>1, <2>1, UnmovedFollowed
<1>. QED  BY <1>1 DEF FollowsAll

LEMMA QuietUnmoved ==
    ASSUME UNCHANGED <<resting, live>>, NEW id,
           phase' = phase \/ (phase # "match" /\ phase' # "match")
    PROVE  Unmoved(id)
BY DEF Unmoved, LiveIds, GoneIds

\* Nothing is told of an order in the book.
LEMMA QuietFollowed ==
    ASSUME Inv, CallFacts, NEW r, FollowsAll(r), NotAhead(r)',
           UNCHANGED <<resting, live>>,
           phase # "match", phase' # "match",
           \/ News' = News
           \/ \E event \in Event :
                 /\ News' = Append(News, event)
                 /\ event.type \in {"Accepted", "Rejected", "Triggered"}
    PROVE  FollowsAll(r)'
<1>. SUFFICES ASSUME NEW id
              PROVE  Followed(r, id)'
  BY DEF FollowsAll
<1>1. Followed(r, id) /\ News \in Seq(Event) /\ Unmoved(id)
  BY NewsTyped, QuietUnmoved DEF FollowsAll
<1>2. \A event : event.type \in {"Accepted", "Rejected", "Triggered"}
                    => ~Concerns(event, id)
  BY DEF Concerns
<1>. QED  BY <1>1, <1>2, UnmovedFollowed

----------------------------------------------------------------------------
(* Every step of a call *)

LEMMA EntryFollowed ==
    ASSUME Inv, CallFacts, NEW r, FollowsAll(r), backlog' = backlog,
           \/ \E c \in Command : RejectCommand(c)
           \/ \E order \in NewOrders : ParkStop(order) \/ RefuseOrder(order)
           \/ \E id \in Nat : CancelUnknown(id)
           \/ \E id \in Nat, a \in Amendments : ModifyUnknown(id, a)
    PROVE  FollowsAll(r)'
<1>1. /\ phase = "idle"
      /\ phase' \in {"done", "stops"}
      /\ UNCHANGED <<resting, live>>
      /\ next_order_id \in Nat
      /\ next_order_id' \in {next_order_id, next_order_id + 1}
  BY DEF RejectCommand, ParkStop, RefuseOrder, CancelUnknown, ModifyUnknown,
         Admit, Submit, TakeOrderId, bookVars, Inv, CallTypeOK
<1>2. StopIds' \subseteq StopIds \cup {next_order_id}
  <2>1. CASE stops' = stops
    BY <2>1 DEF StopIds
  <2>2. CASE \E order \in NewOrders : ParkStop(order)
    <3>1. PICK stop : stops' = Append(stops, stop) /\ stop.id = next_order_id
      BY <2>2 DEF ParkStop, PendingStopOf
    <3>2. stops \in Seq(PendingStop)
      BY DEF Inv, CallTypeOK
    <3>3. \A i \in DOMAIN stops' :
              stops'[i] = stop \/ (i \in DOMAIN stops /\ stops'[i] = stops[i])
      BY <3>1, <3>2
    <3>. QED  BY <3>1, <3>3 DEF StopIds
  <2>. QED  BY <2>1, <2>2
            DEF RejectCommand, RefuseOrder, CancelUnknown, ModifyUnknown
<1>3. NotAhead(r)'
  BY <1>1, <1>2, StaysNotAhead DEF FollowsAll
<1>4. \E event \in Event : /\ out' = <<event>>
                           /\ event.type \in {"Accepted", "Rejected"}
  <2>1. ASSUME NEW reason \in RejectReasons
        PROVE  /\ Rejected(seq + 1, reason) \in Event
               /\ Rejected(seq + 1, reason).type = "Rejected"
    BY EventsTyped DEF Inv, CallTypeOK, Rejected
  <2>2. /\ Accepted(seq + 1, next_order_id) \in Event
        /\ Accepted(seq + 1, next_order_id).type = "Accepted"
    BY EventsTyped DEF Inv, CallTypeOK, Accepted
  <2>3. "UnknownOrder" \in RejectReasons
    BY DEF RejectReasons
  <2>4. ASSUME NEW c \in Command, RejectCommand(c)
        PROVE  \E reason \in RejectReasons :
                  out' = <<Rejected(seq + 1, reason)>>
    BY <2>4, ValidateTyped DEF RejectCommand
  <2>5. ASSUME NEW order \in NewOrders, RefuseOrder(order)
        PROVE  \E reason \in RejectReasons :
                  out' = <<Rejected(seq + 1, reason)>>
    BY <2>5, PrecheckTyped DEF RefuseOrder, EntryCheck
  <2>6. ASSUME NEW id \in Nat, CancelUnknown(id)
        PROVE  out' = <<Rejected(seq + 1, "UnknownOrder")>>
    BY <2>6 DEF CancelUnknown
  <2>7. ASSUME NEW id \in Nat, NEW a \in Amendments, ModifyUnknown(id, a)
        PROVE  out' = <<Rejected(seq + 1, "UnknownOrder")>>
    BY <2>7 DEF ModifyUnknown
  <2>8. ASSUME NEW order \in NewOrders, ParkStop(order)
        PROVE  out' = <<Accepted(seq + 1, next_order_id)>>
    BY <2>8 DEF ParkStop
  <2>. QED  BY <2>1, <2>2, <2>3, <2>4, <2>5, <2>6, <2>7, <2>8
<1>5. \E event \in Event : /\ News' = Append(News, event)
                           /\ event.type \in {"Accepted", "Rejected"}
  BY <1>1, <1>4, FirstNews
<1>. QED  BY <1>1, <1>3, <1>5, QuietFollowed

\* Two events in one step.
LEMMA TwoFollowed ==
    ASSUME NEW r, NEW id, Followed(r, id), News \in Seq(Event),
           NEW first \in Event, NEW second \in Event,
           News' = Append(Append(News, first), second),
           \A sides \in Ends : \A s :
               Told(r, id, sides, s)
                  => Told(r, id, sides,
                          Noted(Noted(s, first, id, sides), second, id, sides))'
    PROVE  Followed(r, id)'
<1>. SUFFICES ASSUME NEW sides \in Ends
              PROVE  \E s : /\ Leads(News', id, Was(r, id), sides, s)
                           /\ Told(r, id, sides, s)'
  BY DEF Followed
<1>1. PICK s : Leads(News, id, Was(r, id), sides, s) /\ Told(r, id, sides, s)
  BY DEF Followed
<1>2. Leads(Append(News, first), id, Was(r, id), sides,
            Noted(s, first, id, sides))
  BY <1>1, NextLeads
<1>3. Append(News, first) \in Seq(Event)
  BY AppendFacts
<1>4. Leads(News', id, Was(r, id), sides,
            Noted(Noted(s, first, id, sides), second, id, sides))
  BY <1>2, <1>3, NextLeads
<1>. QED  BY <1>1, <1>4

LEMMA NewsAppendedTwice ==
    ASSUME Inv, CallFacts, backlog' = backlog,
           NEW first \in Event, NEW second \in Event,
           \/ out' = out \o <<first, second>>
           \/ phase = "idle" /\ out' = <<first, second>>
    PROVE  News' = Append(Append(News, first), second)
<1>1. out' = out \o <<first, second>>
  <2>1. <<first, second>> = <<>> \o <<first, second>>
    OBVIOUS
  <2>. QED  BY <2>1 DEF CallFacts
<1>2. out' = Append(Append(out, first), second)
  <2>1. \A b \in Seq(Event) :
           b \o <<first, second>> = Append(Append(b, first), second)
    OBVIOUS
  <2>. QED  BY <1>1, <2>1, NewsTyped
<1>3. \A a, b \in Seq(Event), e \in Event :
         a \o Append(b, e) = Append(a \o b, e)
  OBVIOUS
<1>4. Append(out, first) \in Seq(Event)
  BY NewsTyped, AppendFacts
<1>5. backlog \o Append(Append(out, first), second) =
          Append(backlog \o Append(out, first), second)
  BY <1>3, <1>4, NewsTyped
<1>6. backlog \o Append(out, first) = Append(backlog \o out, first)
  BY <1>3, NewsTyped
<1>. QED  BY <1>2, <1>5, <1>6 DEF News

LEMMA StopIdsShrink ==
    ASSUME Inv, NEW i \in DOMAIN stops, stops' = WithoutStop(i)
    PROVE  StopIds' = StopIds \ {stops[i].id} /\ stops[i].id \in StopIds
BY StopLeaves DEF Inv, StopIds

LEMMA SettledFollowed ==
    ASSUME Inv, CallFacts, NEW r, FollowsAll(r), backlog' = backlog,
           StopsSettled
    PROVE  FollowsAll(r)'
<1>1. /\ phase # "match" /\ phase' # "match"
      /\ UNCHANGED <<resting, live, stops, next_order_id, out>>
  BY DEF StopsSettled, bookVars
<1>2. NotAhead(r)' /\ News' = News
  BY <1>1 DEF FollowsAll, NotAhead, StopIds, News
<1>. QED  BY <1>1, <1>2, QuietFollowed

LEMMA RefusedStopFollowed ==
    ASSUME Inv, CallFacts, NEW r, FollowsAll(r), backlog' = backlog,
           NEW i \in DOMAIN stops, RefuseStop(i)
    PROVE  FollowsAll(r)'
<1>1. PICK reason \in RejectReasons : reason = StopCheck(stops[i])
  BY PrecheckTyped DEF RefuseStop, StopCheck
<1>2. /\ Triggered(seq, stops[i].id) \in Event
      /\ Rejected(seq, reason) \in Event
  BY TakenStopFacts, EventsTyped DEF RefuseStop
<1>3. /\ phase = "stops" /\ phase' = phase
      /\ UNCHANGED <<resting, live, next_order_id>>
      /\ stops' = WithoutStop(i)
      /\ next_order_id \in Nat
      /\ out' = out \o <<Triggered(seq, stops[i].id), Rejected(seq, reason)>>
  BY <1>1 DEF RefuseStop, TakeTriggered, bookVars, Inv, CallTypeOK
<1>4. NotAhead(r)'
  BY <1>3, StopIdsShrink, StaysNotAhead DEF FollowsAll
<1>5. News' = Append(Append(News, Triggered(seq, stops[i].id)),
                     Rejected(seq, reason))
  BY <1>2, <1>3, NewsAppendedTwice
<1>6. ASSUME NEW id
      PROVE  Followed(r, id)'
  <2>1. \A sides \in Ends : \A s :
           Told(r, id, sides, s) => Told(r, id, sides, s)'
    BY <1>3, QuietUnmoved, UnmovedTold
  <2>2. /\ ~Concerns(Triggered(seq, stops[i].id), id)
        /\ ~Concerns(Rejected(seq, reason), id)
    BY DEF Concerns, Triggered, Rejected
  <2>3. Followed(r, id) /\ News \in Seq(Event)
    BY NewsTyped DEF FollowsAll
  <2>. QED  BY <1>2, <1>5, <2>1, <2>2, <2>3, OthersUnnoted, TwoFollowed
<1>. QED  BY <1>4, <1>6 DEF FollowsAll

\* A dormant order was never in the book.
LEMMA CanceledStopFollowed ==
    ASSUME Inv, CallFacts, NEW r, FollowsAll(r), backlog' = backlog,
           NEW id \in Nat, CancelStop(id)
    PROVE  FollowsAll(r)'
<1>1. PICK i \in DOMAIN stops : stops[i].id = id /\ stops' = WithoutStop(i)
  BY DEF CancelStop
<1>2. /\ phase = "idle" /\ phase' = "done"
      /\ UNCHANGED <<resting, live, next_order_id>>
      /\ next_order_id \in Nat
      /\ id \notin DOMAIN resting
      /\ out' = <<Canceled(seq + 1, id)>>
      /\ Canceled(seq + 1, id) \in Event
  BY EventsTyped
     DEF CancelStop, Admit, Submit, bookVars, Inv, CallTypeOK
<1>3. NotAhead(r)'
  BY <1>1, <1>2, StopIdsShrink, StaysNotAhead DEF FollowsAll
<1>4. PICK event \in Event : /\ News' = Append(News, event)
                            /\ event = Canceled(seq + 1, id)
  BY <1>2, FirstNews
<1>5. Followed(r, id)'
  <2>1. ASSUME NEW sides \in Ends, NEW s, Told(r, id, sides, s)
        PROVE  Told(r, id, sides, Noted(s, event, id, sides))'
    <3>1. ToldLeft(r, id, sides, s)
      BY <1>2, <2>1 DEF Told, LiveIds, GoneIds
    <3>2. ToldLeft(r, id, sides, WithCancel(s))
      BY <3>1 DEF ToldLeft, WithCancel
    <3>. QED  BY <1>2, <1>4, <3>2, CancelNoted
              DEF Told, LiveIds, GoneIds, ToldLeft
  <2>2. Followed(r, id) /\ News \in Seq(Event)
    BY NewsTyped DEF FollowsAll
  <2>. QED  BY <1>4, <2>1, <2>2, NextFollowed
<1>6. ASSUME NEW x, x # id
      PROVE  /\ Unmoved(x)
             /\ ~Concerns(Canceled(seq + 1, id), x)
  BY <1>2, <1>6, QuietUnmoved DEF Concerns, Canceled
<1>7. ASSUME NEW e \in Event, News' = Append(News, e)
      PROVE  e = Canceled(seq + 1, id)
  BY <1>2, <1>4, <1>7, NewsTyped, AppendedOnce
<1>. QED  BY <1>2, <1>3, <1>4, <1>5, <1>6, <1>7, OneFollowed

\* An order that is new, or was dormant, becomes the live one.
LEMMA BecomesLiveFollowed ==
    ASSUME Inv, CallFacts, NEW r, FollowsAll(r), backlog' = backlog,
           NEW id, Was(r, id) = {},
           phase # "match", phase' = "match",
           live'.order_id = id, live'.self_canceled = <<>>,
           resting' = resting, id \notin DOMAIN resting, NotAhead(r)',
           NEW event \in Event, News' = Append(News, event),
           event.type \in {"Accepted", "Triggered"}
    PROVE  FollowsAll(r)'
<1>1. /\ LiveIds' = {id} /\ GoneIds' = {}
      /\ LiveIds = {} /\ GoneIds = {}
  <2>1. ToSet(<<>>) = {}
    BY DEF ToSet
  <2>. QED  BY <2>1 DEF LiveIds, GoneIds
<1>2. \A e, x : e.type \in {"Accepted", "Triggered"} => ~Concerns(e, x)
  BY DEF Concerns
<1>3. \A x : x # id => Unmoved(x)
  BY <1>1 DEF Unmoved
<1>4. Followed(r, id)'
  <2>1. ASSUME NEW sides \in Ends, NEW s
        PROVE  Told(r, id, sides, Noted(s, event, id, sides))'
    BY <1>1 DEF Told, ToldLive
  <2>. QED  BY <2>1, NewsTyped, NextFollowed DEF FollowsAll
<1>5. ASSUME NEW e \in Event, News' = Append(News, e)
      PROVE  e = event
  BY <1>5, NewsTyped, AppendedOnce
<1>. QED  BY <1>2, <1>3, <1>4, <1>5, OneFollowed

LEMMA AcceptedFollowed ==
    ASSUME Inv, CallFacts, NEW r, FollowsAll(r), backlog' = backlog,
           NEW order \in NewOrders, AcceptOrder(order)
    PROVE  FollowsAll(r)'
<1>1. PICK id : id = next_order_id
  OBVIOUS
<1>2. /\ phase = "idle" /\ phase' = "match"
      /\ id \in Nat
      /\ next_order_id' = next_order_id + 1
      /\ UNCHANGED <<resting, stops>>
      /\ live'.order_id = id
      /\ live'.self_canceled = <<>>
      /\ out' = <<Accepted(seq + 1, id)>>
      /\ Accepted(seq + 1, id) \in Event
  BY <1>1, EventsTyped
     DEF AcceptOrder, Admit, Submit, TakeOrderId, LiveOf, bookVars, Inv,
         CallTypeOK
<1>3. Was(r, id) = {} /\ NotAhead(r)'
  <2>1. StopIds' = StopIds
    BY <1>2 DEF StopIds
  <2>. QED  BY <1>1, <1>2, <2>1, NewIdUnseen, StaysNotAhead DEF FollowsAll
<1>4. id \notin DOMAIN resting
  BY <1>1, <1>2 DEF Inv, OneHome
<1>5. News' = Append(News, Accepted(seq + 1, id))
  BY <1>2, FirstNews
<1>6. Accepted(seq + 1, id).type = "Accepted"
  BY DEF Accepted
<1>. QED  BY <1>2, <1>3, <1>4, <1>5, <1>6, BecomesLiveFollowed

LEMMA ActivatedFollowed ==
    ASSUME Inv, CallFacts, NEW r, FollowsAll(r), backlog' = backlog,
           NEW i \in DOMAIN stops, ActivateStop(i)
    PROVE  FollowsAll(r)'
<1>1. PICK id : id = stops[i].id
  OBVIOUS
<1>2. /\ phase = "stops" /\ phase' = "match"
      /\ next_order_id \in Nat
      /\ next_order_id' = next_order_id
      /\ resting' = resting
      /\ stops' = WithoutStop(i)
      /\ live'.order_id = id
      /\ live'.self_canceled = <<>>
      /\ out' = Append(out, Triggered(seq, id))
      /\ Triggered(seq, id) \in Event
      /\ id \in StopIds
  BY <1>1, TakenStopFacts, EventsTyped
     DEF ActivateStop, TakeTriggered, LiveOf, bookVars, Inv, CallTypeOK
<1>3. Was(r, id) = {} /\ NotAhead(r)'
  <2>1. StopIds' \subseteq StopIds
    BY <1>2, StopIdsShrink
  <2>. QED  BY <1>2, <2>1, NewIdUnseen, StaysNotAhead DEF FollowsAll
<1>4. id \notin DOMAIN resting
  BY <1>2 DEF Inv, OneHome
<1>5. PICK event \in Event : /\ event.type = "Triggered"
                            /\ out' = Append(out, event)
  BY <1>2 DEF Triggered
<1>6. News' = Append(News, event)
  BY <1>5, NewsAppended
<1>. QED  BY <1>2, <1>3, <1>4, <1>5, <1>6, BecomesLiveFollowed

LEMMA PairOf ==
    ASSUME NEW x, NEW y
    PROVE  {x} \X {y} = {<<x, y>>} /\ {} \X {y} = {}
OBVIOUS

\* What one event makes of what the feed knows of its order.
LEMMA LeavingNoted ==
    ASSUME NEW s, NEW event, NEW n, NEW id, NEW sides,
           event = Canceled(n, id) \/ event = Filled(n, id)
    PROVE  Noted(s, event, id, sides) = WithCancel(s)
BY DEF Noted, Canceled, Filled, WithCancel

LEMMA ModifiedNoted ==
    ASSUME NEW s, NEW event, NEW n, NEW id, NEW sides,
           event = Modified(n, id)
    PROVE  Noted(s, event, id, sides) = WithModified(s)
BY DEF Noted, Modified, WithModified

LEMMA RestingNoted ==
    ASSUME NEW s, NEW event, NEW n, NEW id, NEW sides, NEW price, NEW qty,
           event = Resting(n, id, price, qty)
    PROVE  Noted(s, event, id, sides) =
               IF sides = {} THEN s ELSE WithResting(s, sides \X {price})
BY DEF Noted, Resting, WithResting

LEMMA TradeNoted ==
    ASSUME NEW s, NEW event, NEW n, NEW id, NEW sides, NEW taker, NEW price,
           NEW qty, NEW side, NEW fee, NEW rebate,
           event = Trade(n, taker, id, price, qty, side, fee, rebate)
    PROVE  Noted(s, event, id, sides) =
               WithTrade(s, sides, <<Opposite(side), price>>)
BY DEF Noted, Trade, WithTrade

LEMMA OnlyOwn ==
    ASSUME NEW n, NEW id, NEW x, x # id
    PROVE  /\ ~Concerns(Canceled(n, id), x)
           /\ ~Concerns(Filled(n, id), x)
           /\ ~Concerns(Modified(n, id), x)
           /\ \A price, qty : ~Concerns(Resting(n, id, price, qty), x)
           /\ \A taker, price, qty, side, fee, rebate :
                 ~Concerns(Trade(n, taker, id, price, qty, side, fee, rebate),
                           x)
BY DEF Concerns, Canceled, Filled, Modified, Resting, Trade

LEMMA ToldEnds ==
    ASSUME NEW r, NEW id, NEW sides, NEW s
    PROVE  /\ ToldResting(r, id, sides, s) => ToldGone(r, id, sides, s)
           /\ ToldLeft(r, id, sides, s) => ToldGone(r, id, sides, s)
           /\ ToldGone(r, id, sides, s)
                 => ToldLeft(r, id, sides, WithCancel(s))
           /\ ToldLive(r, id, sides, s)
                 => ToldLeft(r, id, sides, WithCancel(s))
BY DEF ToldResting, ToldGone, ToldLeft, ToldLive, WithCancel

LEMMA OthersInBook ==
    ASSUME NEW id, resting' = Drop(resting, id)
    PROVE  /\ DOMAIN resting' = DOMAIN resting \ {id}
           /\ \A x \in DOMAIN resting \ {id} : resting'[x] = resting[x]
BY DropFacts

LEMMA CanceledInBookFollowed ==
    ASSUME Inv, CallFacts, NEW r, FollowsAll(r), backlog' = backlog,
           NEW id \in Nat, CancelInBook(id)
    PROVE  FollowsAll(r)'
<1>1. /\ phase = "idle" /\ phase' = "done"
      /\ resting' = Drop(resting, id)
      /\ UNCHANGED <<live, stops, next_order_id>>
      /\ id \in DOMAIN resting
      /\ out' = <<Canceled(seq + 1, id)>>
      /\ Canceled(seq + 1, id) \in Event
  BY EventsTyped
     DEF CancelInBook, CancelResting, Admit, Submit, Inv, CallTypeOK
<1>2. PICK event \in Event : /\ News' = Append(News, event)
                            /\ event = Canceled(seq + 1, id)
  BY <1>1, FirstNews
<1>3. NotAhead(r)'
  BY <1>1 DEF FollowsAll, NotAhead, StopIds
<1>4. Followed(r, id)'
  <2>1. ASSUME NEW sides \in Ends, NEW s, Told(r, id, sides, s)
        PROVE  Told(r, id, sides, Noted(s, event, id, sides))'
    <3>1. ToldLeft(r, id, sides, WithCancel(s))
      BY <1>1, <2>1, ToldEnds DEF Told
    <3>2. id \notin DOMAIN resting' /\ LiveIds' = {} /\ GoneIds' = {}
      BY <1>1, OthersInBook DEF LiveIds, GoneIds
    <3>. QED  BY <1>2, <3>1, <3>2, LeavingNoted DEF Told, ToldLeft
  <2>2. Followed(r, id) /\ News \in Seq(Event)
    BY NewsTyped DEF FollowsAll
  <2>. QED  BY <1>2, <2>1, <2>2, NextFollowed
<1>5. ASSUME NEW x, x # id
      PROVE  Unmoved(x) /\ ~Concerns(event, x)
  BY <1>1, <1>2, <1>5, OthersInBook, OnlyOwn DEF Unmoved, LiveIds, GoneIds
<1>6. ASSUME NEW e \in Event, News' = Append(News, e)
      PROVE  e = event
  BY <1>2, <1>6, NewsTyped, AppendedOnce
<1>. QED  BY <1>2, <1>3, <1>4, <1>5, <1>6, OneFollowed

LEMMA ReducedInBook ==
    ASSUME Inv, NEW id \in DOMAIN resting,
           UNCHANGED bookVars \/ \E qty : Reduce(id, qty)
    PROVE  /\ DOMAIN resting' = DOMAIN resting
           /\ LevelOf(id)' = LevelOf(id)
           /\ resting'[id].side = resting[id].side
           /\ \A x \in DOMAIN resting \ {id} : resting'[x] = resting[x]
<1>1. CASE UNCHANGED bookVars
  BY <1>1 DEF bookVars, LevelOf
<1>2. CASE \E qty : Reduce(id, qty)
  <2>1. PICK qty : resting' = [resting EXCEPT ![id].qty = qty]
    BY <1>2 DEF Reduce
  <2>2. resting[id] \in RestingOrder
    BY OrderFacts DEF Inv
  <2>. QED  BY <2>1, <2>2 DEF LevelOf, RestingOrder
<1>. QED  BY <1>1, <1>2

LEMMA ReducedFollowed ==
    ASSUME Inv, CallFacts, NEW r, FollowsAll(r), backlog' = backlog,
           NEW id \in Nat, NEW a \in Amendments, ModifyInPlace(id, a)
    PROVE  FollowsAll(r)'
<1>1. /\ phase = "idle" /\ phase' = "done"
      /\ UNCHANGED <<live, stops, next_order_id>>
      /\ id \in DOMAIN resting
      /\ a.price = resting[id].price
      /\ (UNCHANGED bookVars \/ \E qty : Reduce(id, qty))
      /\ out' = <<Modified(seq + 1, id), Resting(seq + 1, id, a.price, a.qty)>>
  BY DEF ModifyInPlace, StaysInPlace, Admit, Submit
<1>2. PICK first \in Event, second \in Event :
         /\ first = Modified(seq + 1, id)
         /\ second = Resting(seq + 1, id, a.price, a.qty)
         /\ News' = Append(Append(News, first), second)
  <2>1. /\ Modified(seq + 1, id) \in Event
        /\ Resting(seq + 1, id, a.price, a.qty) \in Event
    BY EventsTyped, MenuAssumption DEF Amendment, Inv, CallTypeOK
  <2>. QED  BY <1>1, <2>1, NewsAppendedTwice
<1>3. NotAhead(r)'
  BY <1>1 DEF FollowsAll, NotAhead, StopIds
<1>4. /\ DOMAIN resting' = DOMAIN resting
      /\ LevelOf(id)' = LevelOf(id)
      /\ resting'[id].side = resting[id].side
      /\ \A x \in DOMAIN resting \ {id} : resting'[x] = resting[x]
  BY <1>1, ReducedInBook
<1>5. ASSUME NEW x
      PROVE  Followed(r, x) /\ News \in Seq(Event)
  BY NewsTyped DEF FollowsAll
<1>6. Followed(r, id)'
  <2>1. ASSUME NEW sides \in Ends, NEW s, Told(r, id, sides, s)
        PROVE  Told(r, id, sides,
                    Noted(Noted(s, first, id, sides), second, id, sides))'
    <3>1. ToldResting(r, id, sides, s)
      BY <1>1, <2>1 DEF Told
    <3>2. PICK t : t = WithModified(s)
      OBVIOUS
    <3>3. PICK u : u = Noted(t, second, id, sides)
      OBVIOUS
    <3>4. u = Noted(Noted(s, first, id, sides), second, id, sides)
      BY <1>2, <3>2, <3>3, ModifiedNoted
    <3>5. CASE sides = {}
      <4>1. u = t
        BY <1>2, <3>3, <3>5, RestingNoted
      <4>2. Was(r, id) \subseteq u.touched
        BY <3>1, <3>2, <3>5, <4>1 DEF ToldResting, WithModified
      <4>. QED  BY <1>1, <1>4, <3>4, <3>5, <4>2 DEF Told, ToldResting
    <3>6. CASE sides # {}
      <4>1. u = WithResting(t, sides \X {a.price})
        BY <1>2, <3>3, <3>6, RestingNoted
      <4>2. ASSUME sides = {resting[id].side}
            PROVE  /\ u.at = {LevelOf(id)}
                   /\ {LevelOf(id)} \cup Was(r, id) \subseteq u.touched
        <5>1. sides \X {a.price} = {LevelOf(id)}
          BY <1>1, <4>2, PairOf DEF LevelOf
        <5>2. Was(r, id) \subseteq s.touched \cup {LevelOf(id)}
          BY <3>1, <4>2 DEF ToldResting, Was
        <5>. QED  BY <3>2, <4>1, <5>1, <5>2 DEF WithModified, WithResting
      <4>. QED  BY <1>1, <1>4, <3>4, <3>6, <4>2 DEF Told, ToldResting
    <3>. QED  BY <3>5, <3>6
  <2>. QED  BY <1>2, <1>5, <2>1, TwoFollowed
<1>7. ASSUME NEW x, x # id
      PROVE  Followed(r, x)'
  <2>1. Unmoved(x) /\ ~Concerns(first, x) /\ ~Concerns(second, x)
    BY <1>1, <1>2, <1>4, <1>7, OnlyOwn DEF Unmoved, LiveIds, GoneIds
  <2>2. ASSUME NEW sides \in Ends, NEW s, Told(r, x, sides, s)
        PROVE  Told(r, x, sides,
                    Noted(Noted(s, first, x, sides), second, x, sides))'
    BY <2>1, <2>2, UnmovedTold, OthersUnnoted
  <2>. QED  BY <1>2, <1>5, <2>2, TwoFollowed
<1>. QED  BY <1>3, <1>6, <1>7 DEF FollowsAll

\* An amended order that is settled anew: what it had is touched by Modified.
LEMMA ReplacedFollowed ==
    ASSUME Inv, CallFacts, NEW r, FollowsAll(r), backlog' = backlog,
           NEW id \in Nat, NEW a \in Amendments, ModifyReplace(id, a)
    PROVE  FollowsAll(r)'
<1>1. /\ phase = "idle" /\ phase' = "match"
      /\ UNCHANGED <<stops, next_order_id>>
      /\ id \in DOMAIN resting
      /\ resting' = Drop(resting, id)
      /\ live'.order_id = id
      /\ live'.side = resting[id].side
      /\ live'.self_canceled = <<>>
      /\ out' = <<Modified(seq + 1, id)>>
      /\ Modified(seq + 1, id) \in Event
  BY EventsTyped
     DEF ModifyReplace, ReplacementOf, CancelResting, Admit, Submit, Inv,
         CallTypeOK
<1>2. PICK event \in Event : /\ News' = Append(News, event)
                            /\ event = Modified(seq + 1, id)
  BY <1>1, FirstNews
<1>3. NotAhead(r)'
  BY <1>1 DEF FollowsAll, NotAhead, StopIds
<1>4. /\ id \notin DOMAIN resting' /\ LiveIds' = {id} /\ GoneIds' = {}
      /\ LiveIds = {} /\ GoneIds = {}
  <2>1. ToSet(<<>>) = {}
    BY DEF ToSet
  <2>. QED  BY <1>1, <2>1, OthersInBook DEF LiveIds, GoneIds
<1>5. Followed(r, id)'
  <2>1. ASSUME NEW sides \in Ends, NEW s, Told(r, id, sides, s)
        PROVE  Told(r, id, sides, Noted(s, event, id, sides))'
    <3>1. ToldResting(r, id, sides, s)
      BY <1>1, <2>1 DEF Told
    <3>2. PICK u : u = WithModified(s)
      OBVIOUS
    <3>3. u = Noted(s, event, id, sides)
      BY <1>2, <3>2, ModifiedNoted
    <3>4. sides \in {{}, {live'.side}} => Was(r, id) \subseteq u.touched
      BY <1>1, <3>1, <3>2 DEF ToldResting, Was, WithModified
    <3>. QED  BY <1>4, <3>3, <3>4 DEF Told, ToldLive
  <2>2. Followed(r, id) /\ News \in Seq(Event)
    BY NewsTyped DEF FollowsAll
  <2>. QED  BY <1>2, <2>1, <2>2, NextFollowed
<1>6. ASSUME NEW x, x # id
      PROVE  Unmoved(x) /\ ~Concerns(event, x)
  BY <1>1, <1>2, <1>4, <1>6, OthersInBook, OnlyOwn DEF Unmoved
<1>7. ASSUME NEW e \in Event, News' = Append(News, e)
      PROVE  e = event
  BY <1>2, <1>7, NewsTyped, AppendedOnce
<1>. QED  BY <1>2, <1>3, <1>5, <1>6, <1>7, OneFollowed

\* A trade touches the level of the maker, whether it stays there or leaves.
LEMMA TradedFollowed ==
    ASSUME Inv, VolumeInv, CallFacts, NEW r, FollowsAll(r), backlog' = backlog,
           phase = "match", NEW price \in DOMAIN levels[MakerSide],
           TradeWithHead(price)
    PROVE  FollowsAll(r)'
<1>1. PICK id : id = HeadOf(price)
  OBVIOUS
<1>2. PICK traded : traded = Min({live.qty, resting[id].qty})
  OBVIOUS
<1>3. /\ id \in DOMAIN resting
      /\ id \in Nat
      /\ id = Head(FifoOf(MakerSide, price))
      /\ resting[id].qty \in Nat
      /\ price \in Nat
      /\ live \in LiveOrder
      /\ live.qty \in Nat
      /\ live.order_id \in Nat
      /\ live.owner \in Owners
      /\ live.side \in Sides
      /\ MakerSide \in Sides
      /\ seq \in Nat
      /\ BookInv
  BY <1>1, MakerFacts, LiveFacts DEF Inv
<1>4. PICK trade : trade = Trade(seq, live.order_id, id, price, traded,
                                 live.side, TakerFee(price, traded),
                                 MakerFee(price, traded))
  OBVIOUS
<1>5. /\ FillHead(MakerSide, price, traded, live.owner)
      /\ live' = [live EXCEPT !.qty = live.qty - traded, !.last_px = price]
      /\ out' = Append(out, trade)
      /\ UNCHANGED <<stops, phase, next_order_id>>
  BY <1>1, <1>2, <1>4 DEF TradeWithHead
<1>6. /\ LiveIds' = LiveIds
      /\ GoneIds' = GoneIds
      /\ live'.side = live.side
  BY <1>3, <1>5 DEF LiveOrder, LiveIds, GoneIds
<1>7. traded \in Nat
  BY <1>2, <1>3, MinOfTwo
<1>8. trade \in Event
  BY <1>3, <1>4, <1>7, FeesTyped, EventsTyped
<1>9. News' = Append(News, trade)
  BY <1>5, <1>8, NewsAppended
<1>10. /\ \A x \in DOMAIN resting \ {id} : resting'[x] = resting[x]
       /\ DOMAIN resting' \ {id} = DOMAIN resting \ {id}
       /\ LevelOf(id) = <<MakerSide, price>>
       /\ id \in DOMAIN resting' => /\ LevelOf(id)' = <<MakerSide, price>>
                                    /\ resting'[id].side = MakerSide
  <2>1. OpenCovers
    BY RestingFinite, VolumesCover DEF Inv, VolumeInv, FinitelyMany
  <2>2. PICK side \in Sides : side = MakerSide
    BY <1>3
  <2>3. OneOrder(id, side, price, resting[id].owner)
    BY <1>3, <1>5, <1>7, <2>1, <2>2, FillMoves DEF OneMove
  <2>4. /\ DOMAIN resting' \ {id} = DOMAIN resting \ {id}
        /\ \A x \in DOMAIN resting \ {id} : resting'[x] = resting[x]
    BY <2>3 DEF OneOrder
  <2>5. /\ resting[id].side = side
        /\ resting[id].price = price
        /\ id \in DOMAIN resting' => /\ resting'[id].side = side
                                     /\ resting'[id].price = price
    BY <1>3, <2>3 DEF OneOrder, RestsAs
  <2>. QED  BY <2>2, <2>4, <2>5 DEF LevelOf
<1>11. id \notin LiveIds /\ id \notin GoneIds
  BY <1>3 DEF CallFacts, Inv, OneHome
<1>12. NotAhead(r)'
  BY <1>5 DEF FollowsAll, NotAhead, StopIds
<1>13. Followed(r, id)'
  <2>1. ASSUME NEW sides \in Ends, NEW s, Told(r, id, sides, s)
        PROVE  Told(r, id, sides, Noted(s, trade, id, sides))'
    <3>1. ToldResting(r, id, sides, s) /\ resting[id].side = MakerSide
      BY <1>3, <1>10, <2>1, HeadFacts DEF Told
    <3>2. PICK u : u = WithTrade(s, sides, <<MakerSide, price>>)
      OBVIOUS
    <3>3. Noted(s, trade, id, sides) = u
      BY <1>4, <3>2, TradeNoted DEF MakerSide
    <3>4. /\ u.touched = s.touched \cup {LevelOf(id)}
          /\ u.at = IF sides = {} THEN {} ELSE s.at
      BY <1>10, <3>2 DEF WithTrade
    <3>5. /\ sides = {} => u.at = {} /\ Was(r, id) \subseteq u.touched
          /\ sides = {MakerSide} =>
                /\ u.at = {LevelOf(id)}
                /\ {LevelOf(id)} \cup Was(r, id) \subseteq u.touched
      BY <3>1, <3>4 DEF ToldResting, Was
    <3>. HIDE DEF Ends
    <3>6. CASE id \in DOMAIN resting'
      <4>1. LevelOf(id)' = LevelOf(id)
        BY <1>10, <3>6
      <4>2. ToldResting(r, id, sides, u)'
        BY <1>10, <3>5, <3>6, <4>1 DEF ToldResting
      <4>. QED  BY <3>3, <3>6, <4>2 DEF Told
    <3>7. CASE id \notin DOMAIN resting'
      <4>1. ToldLeft(r, id, sides, u)'
        BY <3>5 DEF ToldLeft
      <4>. QED  BY <1>6, <1>11, <3>3, <3>7, <4>1 DEF Told
    <3>. QED  BY <3>6, <3>7
  <2>2. Followed(r, id) /\ News \in Seq(Event)
    BY NewsTyped DEF FollowsAll
  <2>. QED  BY <1>8, <1>9, <2>1, <2>2, NextFollowed
<1>14. ASSUME NEW x, x # id
       PROVE  Unmoved(x) /\ ~Concerns(trade, x)
  <2>1. Unmoved(x)
    BY <1>6, <1>10, <1>14 DEF Unmoved
  <2>2. ~Concerns(trade, x)
    BY <1>4, <1>14, OnlyOwn
  <2>. QED  BY <2>1, <2>2
<1>15. ASSUME NEW e \in Event, News' = Append(News, e)
       PROVE  e = trade
  BY <1>8, <1>9, <1>15, NewsTyped, AppendedOnce
<1>. QED  BY <1>8, <1>9, <1>12, <1>13, <1>14, <1>15, OneFollowed

LEMMA AppendedSet ==
    ASSUME NEW ids \in Seq(Nat), NEW id \in Nat
    PROVE  ToSet(Append(ids, id)) = ToSet(ids) \cup {id}
<1>1. /\ DOMAIN ids = 1..Len(ids)
      /\ DOMAIN Append(ids, id) = 1..(Len(ids) + 1)
      /\ \A i \in 1..Len(ids) : Append(ids, id)[i] = ids[i]
      /\ Append(ids, id)[Len(ids) + 1] = id
  OBVIOUS
<1>2. \A i : i \in 1..(Len(ids) + 1) <=> i \in 1..Len(ids) \/ i = Len(ids) + 1
  OBVIOUS
<1>. QED  BY <1>1, <1>2 DEF ToSet

\* Nothing is told of a removed maker until the live order is done.
LEMMA CanceledMakerFollowed ==
    ASSUME Inv, CallFacts, NEW r, FollowsAll(r), backlog' = backlog,
           phase = "match", NEW price \in DOMAIN levels[MakerSide],
           CancelMaker(price)
    PROVE  FollowsAll(r)' /\ GoneIds' \cap DOMAIN resting' = {}
<1>1. PICK id : id = HeadOf(price)
  OBVIOUS
<1>2. /\ id \in DOMAIN resting
      /\ id \in Nat
      /\ live \in LiveOrder
      /\ live.self_canceled \in Seq(Nat)
  BY <1>1, MakerFacts, LiveFacts
<1>3. /\ resting' = Drop(resting, id)
      /\ live' = [live EXCEPT !.self_canceled = Append(live.self_canceled, id)]
      /\ UNCHANGED <<stops, phase, next_order_id, out>>
  BY <1>1 DEF CancelMaker, Detach, HeadOf
<1>4. /\ LiveIds' = LiveIds
      /\ GoneIds' = GoneIds \cup {id}
      /\ live'.side = live.side
  <2>1. /\ live'.self_canceled = Append(live.self_canceled, id)
        /\ live'.order_id = live.order_id
        /\ live'.side = live.side
    BY <1>2, <1>3 DEF LiveOrder
  <2>. QED  BY <1>2, <1>3, <2>1, AppendedSet DEF LiveIds, GoneIds
<1>5. NotAhead(r)' /\ News' = News
  BY <1>3 DEF FollowsAll, NotAhead, StopIds, News
<1>6. /\ DOMAIN resting' = DOMAIN resting \ {id}
      /\ \A x \in DOMAIN resting \ {id} : resting'[x] = resting[x]
  BY <1>3, OthersInBook
<1>7. id \notin LiveIds
  BY <1>2 DEF Inv, OneHome
<1>8. Followed(r, id)'
  <2>1. ASSUME NEW sides \in Ends, NEW s, Told(r, id, sides, s)
        PROVE  Told(r, id, sides, s)'
    <3>1. ToldGone(r, id, sides, s)
      BY <1>2, <2>1, ToldEnds DEF Told
    <3>. QED  BY <1>4, <1>6, <1>7, <3>1 DEF Told, ToldGone
  <2>. QED  BY <1>5, <2>1, SilentFollowed DEF FollowsAll
<1>9. ASSUME NEW x, x # id
      PROVE  Followed(r, x)'
  <2>1. Unmoved(x)
    BY <1>4, <1>6, <1>9 DEF Unmoved
  <2>. QED  BY <1>5, <2>1, NewsTyped, UnmovedFollowed DEF FollowsAll
<1>. QED  BY <1>4, <1>5, <1>6, <1>8, <1>9 DEF FollowsAll, CallFacts

\* The live order leaves: filled, or canceled, and with it those that
\* self-trade prevention removed.
LEMMA LeftFollowed ==
    ASSUME Inv, CallFacts, NEW r, FollowsAll(r), backlog' = backlog,
           phase = "match",
           NEW ids \in Seq(Nat), NEW event \in Event, FinishWith(ids, event),
           \/ event = Canceled(seq, live.order_id)
           \/ event = Filled(seq, live.order_id),
           DOMAIN resting' \subseteq DOMAIN resting,
           \A x \in DOMAIN resting' : resting'[x] = resting[x],
           ToSet(ids) = GoneIds \cup (DOMAIN resting \ DOMAIN resting')
    PROVE  FollowsAll(r)'
<1>1. PICK id : id = live.order_id
  OBVIOUS
<1>2. LiveIds = {id} /\ id \notin DOMAIN resting
  BY <1>1 DEF LiveIds, Inv, OneHome
<1>3. /\ phase' = "stops"
      /\ UNCHANGED <<stops, next_order_id>>
      /\ LiveIds' = {}
      /\ GoneIds' = {}
      /\ seq \in Nat
  BY LiveFacts DEF FinishWith, LiveIds, GoneIds
<1>4. NotAhead(r)'
  BY <1>3 DEF FollowsAll, NotAhead, StopIds
<1>5. News' = Append(News \o SelfCancels(ids), event)
  BY NewsFinished
<1>6. ASSUME NEW x, NEW sides \in Ends, NEW s, Told(r, x, sides, s)
      PROVE  Told(r, x, sides,
                  Noted(IF x \in ToSet(ids) THEN WithCancel(s) ELSE s,
                        event, x, sides))'
  <2>1. PICK t : t = IF x \in ToSet(ids) THEN WithCancel(s) ELSE s
    OBVIOUS
  <2>2. CASE x = id
    <3>1. Noted(t, event, x, sides) = WithCancel(t)
      BY <1>1, <2>2, LeavingNoted
    <3>2. WithCancel(WithCancel(s)) = WithCancel(s)
      BY DEF WithCancel
    <3>3. Noted(t, event, x, sides) = WithCancel(s)
      BY <2>1, <3>1, <3>2
    <3>4. ToldLive(r, x, sides, s)
      BY <1>2, <1>6, <2>2 DEF Told
    <3>5. ToldLeft(r, x, sides, WithCancel(s))
      BY <3>4, ToldEnds
    <3>. QED  BY <1>2, <1>3, <2>1, <2>2, <3>3, <3>5 DEF Told, ToldLeft
  <2>3. CASE x # id /\ x \in ToSet(ids)
    <3>1. Noted(t, event, x, sides) = WithCancel(s)
      BY <1>1, <2>1, <2>3, OnlyOwn, OthersUnnoted
    <3>2. ToldGone(r, x, sides, s)
      BY <1>2, <1>6, <2>3, ToldEnds DEF Told
    <3>3. ToldLeft(r, x, sides, WithCancel(s))
      BY <3>2, ToldEnds
    <3>4. x \notin DOMAIN resting'
      BY <2>3 DEF CallFacts
    <3>. QED  BY <1>3, <2>1, <3>1, <3>3, <3>4 DEF Told, ToldLeft
  <2>4. CASE x # id /\ x \notin ToSet(ids)
    <3>1. Noted(t, event, x, sides) = s
      BY <1>1, <2>1, <2>4, OnlyOwn, OthersUnnoted
    <3>2. Unmoved(x)
      BY <1>2, <1>3, <2>4 DEF Unmoved
    <3>. QED  BY <1>6, <2>1, <3>1, <3>2, UnmovedTold
  <2>. QED  BY <2>2, <2>3, <2>4
<1>7. ASSUME NEW x
      PROVE  Followed(r, x)'
  <2>1. Followed(r, x) /\ News \in Seq(Event)
    BY NewsTyped DEF FollowsAll
  <2>. QED  BY <1>3, <1>5, <1>6, <2>1, FinishFollowed
<1>. QED  BY <1>4, <1>7 DEF FollowsAll

LEMMA FinishedFollowed ==
    ASSUME Inv, CallFacts, NEW r, FollowsAll(r), backlog' = backlog,
           phase = "match",
           \/ \E price \in DOMAIN levels[MakerSide] : CancelTaker(price)
           \/ \E price \in DOMAIN levels[MakerSide] : CancelBoth(price)
           \/ FinishFilled
           \/ CancelRemainder
    PROVE  FollowsAll(r)'
<1>1. /\ live.self_canceled \in Seq(Nat)
      /\ GoneIds = ToSet(live.self_canceled)
      /\ Canceled(seq, live.order_id) \in Event
      /\ Filled(seq, live.order_id) \in Event
  BY LiveFacts, EventsTyped DEF GoneIds
<1>2. ASSUME NEW event \in Event, FinishWith(live.self_canceled, event),
             \/ event = Canceled(seq, live.order_id)
             \/ event = Filled(seq, live.order_id),
             UNCHANGED bookVars
      PROVE  FollowsAll(r)'
  <2>1. resting' = resting
    BY <1>2 DEF bookVars
  <2>. QED  BY <1>1, <1>2, <2>1, LeftFollowed
<1>3. ASSUME NEW price \in DOMAIN levels[MakerSide], CancelTaker(price)
      PROVE  FollowsAll(r)'
  BY <1>1, <1>2, <1>3 DEF CancelTaker
<1>4. ASSUME FinishFilled
      PROVE  FollowsAll(r)'
  BY <1>1, <1>2, <1>4 DEF FinishFilled
<1>5. ASSUME CancelRemainder
      PROVE  FollowsAll(r)'
  BY <1>1, <1>2, <1>5 DEF CancelRemainder
<1>6. ASSUME NEW price \in DOMAIN levels[MakerSide], CancelBoth(price)
      PROVE  FollowsAll(r)'
  <2>1. PICK maker, ids : /\ maker = HeadOf(price)
                          /\ ids = Append(live.self_canceled, maker)
    OBVIOUS
  <2>2. maker \in DOMAIN resting /\ maker \in Nat
    BY <2>1, MakerFacts
  <2>3. /\ resting' = Drop(resting, maker)
        /\ FinishWith(ids, Canceled(seq, live.order_id))
    BY <1>6, <2>1 DEF CancelBoth, Detach, HeadOf
  <2>4. ids \in Seq(Nat) /\ ToSet(ids) = GoneIds \cup {maker}
    BY <1>1, <2>1, <2>2, AppendedSet
  <2>5. /\ DOMAIN resting' = DOMAIN resting \ {maker}
        /\ \A x \in DOMAIN resting' : resting'[x] = resting[x]
    BY <2>3, OthersInBook
  <2>6. ToSet(ids) = GoneIds \cup (DOMAIN resting \ DOMAIN resting')
    BY <2>2, <2>4, <2>5
  <2>. QED  BY <1>1, <2>3, <2>4, <2>5, <2>6, LeftFollowed
<1>. QED  BY <1>3, <1>4, <1>5, <1>6

\* What is left of the live order rests: its level is touched.
LEMMA RestedFollowed ==
    ASSUME Inv, CallFacts, NEW r, FollowsAll(r), backlog' = backlog,
           RestRemainder
    PROVE  FollowsAll(r)'
<1>1. phase = "match"
  BY DEF RestRemainder, Matching
<1>2. PICK id, ids, side, price, qty :
         /\ id = live.order_id
         /\ ids = live.self_canceled
         /\ side = live.side
         /\ price = live.limit_price
         /\ qty = IF live.display > 0 /\ live.display < live.qty
                  THEN live.display ELSE live.qty
  OBVIOUS
<1>3. PICK order : /\ resting' = Put(resting, id, order)
                   /\ order.side = side
                   /\ order.price = price
  BY <1>2 DEF RestRemainder, Insert
<1>4. /\ FinishWith(ids, Resting(seq, id, price, qty))
      /\ price # None
  BY <1>2 DEF RestRemainder, Rests
<1>5. /\ qty \in Nat
      /\ price \in Nat
      /\ seq \in Nat
      /\ id \in Nat
      /\ ids \in Seq(Nat)
      /\ side \in Sides
  BY <1>1, <1>2, <1>4, LiveFacts
<1>6. PICK event \in Event : /\ event = Resting(seq, id, price, qty)
                            /\ FinishWith(ids, event)
  BY <1>4, <1>5, EventsTyped
<1>7. News' = Append(News \o SelfCancels(ids), event)
  BY <1>1, <1>5, <1>6, NewsFinished
<1>8. /\ phase' = "stops"
      /\ UNCHANGED <<stops, next_order_id>>
      /\ LiveIds' = {}
      /\ GoneIds' = {}
  BY <1>6 DEF FinishWith, LiveIds, GoneIds
<1>9. NotAhead(r)'
  BY <1>8 DEF FollowsAll, NotAhead, StopIds
<1>10. /\ LiveIds = {id}
       /\ id \notin DOMAIN resting
       /\ GoneIds = ToSet(ids)
  BY <1>1, <1>2 DEF LiveIds, GoneIds, Inv, OneHome
<1>11. /\ DOMAIN resting' = DOMAIN resting \cup {id}
       /\ \A x \in DOMAIN resting : resting'[x] = resting[x]
       /\ resting'[id] = order
  BY <1>3, <1>10 DEF Put
<1>12. LevelOf(id)' = <<side, price>> /\ resting'[id].side = side
  BY <1>3, <1>11 DEF LevelOf
<1>13. ASSUME NEW x, NEW sides \in Ends, NEW s, Told(r, x, sides, s)
       PROVE  Told(r, x, sides,
                   Noted(IF x \in ToSet(ids) THEN WithCancel(s) ELSE s,
                         event, x, sides))'
  <2>1. PICK t : t = IF x \in ToSet(ids) THEN WithCancel(s) ELSE s
    OBVIOUS
  <2>2. CASE x = id
    <3>1. PICK u : u = Noted(t, event, x, sides)
      OBVIOUS
    <3>2. u = IF sides = {} THEN t ELSE WithResting(t, sides \X {price})
      BY <1>6, <2>2, <3>1, RestingNoted
    <3>3. ToldLive(r, x, sides, s)
      BY <1>10, <1>13, <2>2 DEF Told
    <3>4. sides \in {{}, {side}} => Was(r, x) \subseteq t.touched
      BY <1>2, <2>1, <3>3 DEF ToldLive, WithCancel
    <3>5. sides = {} => Was(r, x) \subseteq u.touched
      BY <3>2, <3>4
    <3>6. ASSUME sides = {side}
          PROVE  /\ u.at = {<<side, price>>}
                 /\ {<<side, price>>} \cup Was(r, x) \subseteq u.touched
      <4>1. sides \X {price} = {<<side, price>>}
        BY <3>6, PairOf
      <4>. QED  BY <3>2, <3>4, <3>6, <4>1 DEF WithResting
    <3>. HIDE DEF Ends
    <3>7. ToldResting(r, x, sides, u)'
      BY <1>12, <2>2, <3>5, <3>6 DEF ToldResting
    <3>. QED  BY <1>11, <2>1, <2>2, <3>1, <3>7 DEF Told
  <2>3. CASE x # id
    <3>1. Noted(t, event, x, sides) = t
      BY <1>6, <2>3, OnlyOwn, OthersUnnoted
    <3>2. CASE x \in ToSet(ids)
      <4>1. x \notin DOMAIN resting'
        BY <1>10, <1>11, <2>3, <3>2 DEF CallFacts
      <4>2. ToldGone(r, x, sides, s)
        BY <1>10, <1>11, <1>13, <2>3, <3>2, <4>1, ToldEnds DEF Told
      <4>3. ToldLeft(r, x, sides, WithCancel(s))
        BY <4>2, ToldEnds
      <4>. QED  BY <1>8, <2>1, <3>1, <3>2, <4>1, <4>3 DEF Told, ToldLeft
    <3>3. CASE x \notin ToSet(ids)
      <4>1. Unmoved(x)
        BY <1>8, <1>10, <1>11, <2>3, <3>3 DEF Unmoved
      <4>. QED  BY <1>13, <2>1, <3>1, <3>3, <4>1, UnmovedTold
    <3>. QED  BY <3>2, <3>3
  <2>. QED  BY <2>2, <2>3
<1>14. ASSUME NEW x
       PROVE  Followed(r, x)'
  <2>1. Followed(r, x) /\ News \in Seq(Event)
    BY NewsTyped DEF FollowsAll
  <2>. QED  BY <1>5, <1>7, <1>13, <2>1, FinishFollowed
<1>. QED  BY <1>9, <1>14 DEF FollowsAll

\* The next command of a batch: the feed waits with the events so far.
LEMMA BatchedFollowed ==
    ASSUME Inv, CallFacts, NEW r, FollowsAll(r), NextOfBatch
    PROVE  FollowsAll(r)'
<1>1. /\ phase # "match" /\ phase' # "match"
      /\ UNCHANGED <<resting, live, stops, next_order_id>>
      /\ backlog' = backlog \o out
      /\ out' = <<>>
  BY DEF NextOfBatch, Deliver, bookVars
<1>2. News' = News
  <2>1. \A events \in Seq(Event) : events \o <<>> = events
    OBVIOUS
  <2>. QED  BY <1>1, <2>1, NewsTyped DEF News
<1>3. NotAhead(r)'
  BY <1>1 DEF FollowsAll, NotAhead, StopIds
<1>. QED  BY <1>1, <1>2, <1>3, QuietFollowed

----------------------------------------------------------------------------
(* The steps that leave the feeds alone *)

LEMMA FeedsWaitFollowed ==
    ASSUME Inv, VolumeInv, CallFacts, NEW r, FollowsAll(r),
           backlog' = backlog, phase # "done", Next
    PROVE  FollowsAll(r)'
<1>1. KnownIds \subseteq Nat
  BY DEF KnownIds, Inv, CallTypeOK
<1>2. ASSUME NEW order \in NewOrders, SubmitNew(order)
      PROVE  FollowsAll(r)'
  BY <1>2, CommandsTyped, EntryFollowed, AcceptedFollowed DEF SubmitNew
<1>3. ASSUME NEW id \in KnownIds, SubmitCancel(id)
      PROVE  FollowsAll(r)'
  BY <1>1, <1>3, CanceledInBookFollowed, CanceledStopFollowed, EntryFollowed
     DEF SubmitCancel
<1>4. ASSUME NEW id \in KnownIds, NEW a \in Amendments, SubmitModify(id, a)
      PROVE  FollowsAll(r)'
  <2>1. CASE RejectCommand(Modify(id, a)) \/ ModifyUnknown(id, a)
    BY <1>1, <2>1, CommandsTyped, EntryFollowed
  <2>2. CASE ModifyInPlace(id, a)
    BY <1>1, <2>2, ReducedFollowed
  <2>3. CASE ModifyReplace(id, a)
    BY <1>1, <2>3, ReplacedFollowed
  <2>. QED  BY <1>4, <2>1, <2>2, <2>3 DEF SubmitModify
<1>5. ASSUME phase = "match", MatchStep
      PROVE  FollowsAll(r)'
  <2>1. PICK price \in DOMAIN levels[MakerSide] :
           \/ TradeWithHead(price)
           \/ CancelMaker(price)
           \/ CancelTaker(price)
           \/ CancelBoth(price)
    BY <1>5 DEF MatchStep
  <2>2. CASE TradeWithHead(price)
    BY <1>5, <2>2, TradedFollowed
  <2>3. CASE CancelMaker(price)
    BY <1>5, <2>3, CanceledMakerFollowed
  <2>4. CASE CancelTaker(price) \/ CancelBoth(price)
    BY <1>5, <2>4, FinishedFollowed
  <2>. QED  BY <2>1, <2>2, <2>3, <2>4
<1>6. ASSUME phase = "match", FinishStep
      PROVE  FollowsAll(r)'
  BY <1>6, RestedFollowed, FinishedFollowed DEF FinishStep
<1>7. ASSUME StopStep
      PROVE  FollowsAll(r)'
  BY <1>7, ActivatedFollowed, RefusedStopFollowed DEF StopStep
<1>8. ASSUME StopsSettled
      PROVE  FollowsAll(r)'
  BY <1>8, SettledFollowed
<1>9. ~Deliver
  BY DEF Deliver
<1>. QED  BY <1>2, <1>3, <1>4, <1>5, <1>6, <1>7, <1>8, <1>9 DEF Next, Run

----------------------------------------------------------------------------
(* The feed reads the events of the call *)

Unseen == [touched |-> {}, loc |-> order_loc]

\* What L2Seen builds, event after event.
IsSighting(events, n, g) ==
    g = [i \in 0..n |-> IF i = 0 THEN Unseen
                        ELSE L2Event(g[i - 1], events[i])]

LEMMA SightingSteps ==
    \A events, g : \A n \in Nat :
        IsSighting(events, n, g) =>
            /\ g[0] = Unseen
            /\ \A i \in 1..n : g[i] = L2Event(g[i - 1], events[i])
BY DEF IsSighting

LEMMA SightingExists ==
    ASSUME NEW events, NEW n \in Nat
    PROVE  \E g : IsSighting(events, n, g)
<1> DEFINE Lengths == {k \in Nat : \E g : IsSighting(events, k, g)}
           start == Unseen
<1>1. 0 \in Lengths
  <2> DEFINE g == [i \in 0..0 |-> start]
  <2>1. g = [i \in 0..0 |-> IF i = 0 THEN start
                            ELSE L2Event(g[i - 1], events[i])]
    OBVIOUS
  <2>. HIDE DEF g
  <2>. QED  BY <2>1 DEF IsSighting
<1>2. ASSUME NEW k \in Nat, k \in Lengths
      PROVE  k + 1 \in Lengths
  <2>1. PICK g : IsSighting(events, k, g)
    BY <1>2
  <2>2. /\ g[0] = start
        /\ \A i \in 1..k : g[i] = L2Event(g[i - 1], events[i])
    BY <2>1, SightingSteps
  <2> DEFINE last == L2Event(g[k], events[k + 1])
             h == [i \in 0..(k + 1) |-> IF i = k + 1 THEN last ELSE g[i]]
  <2>3. \A i \in 0..k : h[i] = g[i]
    OBVIOUS
  <2>4. h[k + 1] = L2Event(h[k], events[k + 1])
    <3>1. k \in 0..k /\ h[k + 1] = last
      OBVIOUS
    <3>. QED  BY <2>3, <3>1
  <2>5. h = [i \in 0..(k + 1) |-> h[i]]
    OBVIOUS
  <2>. HIDE DEF h, start
  <2>6. ASSUME NEW i \in 0..(k + 1)
        PROVE  h[i] = IF i = 0 THEN start ELSE L2Event(h[i - 1], events[i])
    <3>1. CASE i = 0
      BY <2>2, <2>3, <3>1
    <3>2. CASE i = k + 1
      <4>1. i # 0 /\ i - 1 = k
        BY <3>2
      <4>. QED  BY <2>4, <3>2, <4>1
    <3>3. CASE i \in 1..k
      <4>1. i \in 0..k /\ i - 1 \in 0..k /\ i # 0
        BY <3>3
      <4>. QED  BY <2>2, <2>3, <3>3, <4>1
    <3>. QED  BY <3>1, <3>2, <3>3
  <2>7. IsSighting(events, k + 1, h)
    BY <2>5, <2>6 DEF IsSighting, start
  <2>. QED  BY <2>7
<1>. HIDE DEF Lengths
<1>3. n \in Lengths
  BY <1>1, <1>2, NatInductive
<1>. QED  BY <1>3 DEF Lengths

LEMMA SeenIsSighting ==
    ASSUME NEW events, Len(events) \in Nat
    PROVE  \E g : /\ IsSighting(events, Len(events), g)
                  /\ L2Seen(events) = g[Len(events)]
<1> DEFINE g == CHOOSE x : IsSighting(events, Len(events), x)
<1>1. IsSighting(events, Len(events), g)
  BY SightingExists
<1>2. L2Seen(events) = g[Len(events)]
  BY DEF L2Seen, IsSighting, Unseen
<1>. QED  BY <1>1, <1>2

IsFcn(f) == f = [x \in DOMAIN f |-> f[x]]

LEMMA PutDropFcn ==
    ASSUME NEW f, NEW key
    PROVE  /\ IsFcn(Drop(f, key))
           /\ \A value : IsFcn(Put(f, key, value))
BY DEF IsFcn, Drop, Restrict, Put

LEMMA SightingsAreFcns ==
    ASSUME IsFcn(order_loc), NEW events, NEW n \in Nat, NEW g,
           IsSighting(events, n, g)
    PROVE  \A i \in 0..n : IsFcn(g[i].loc)
<1> DEFINE Places == {k \in Nat : k <= n => IsFcn(g[k].loc)}
<1>1. 0 \in Places
  BY SightingSteps DEF Unseen
<1>2. ASSUME NEW k \in Nat, k \in Places
      PROVE  k + 1 \in Places
  <2>. SUFFICES ASSUME k + 1 <= n
                PROVE  IsFcn(g[k + 1].loc)
    OBVIOUS
  <2>1. k + 1 \in 1..n /\ (k + 1) - 1 = k
    OBVIOUS
  <2>2. g[k + 1] = L2Event(g[k], events[k + 1])
    BY <2>1, SightingSteps
  <2>3. IsFcn(g[k].loc)
    BY <1>2
  <2>4. \A s, e : IsFcn(s.loc) => IsFcn(L2Event(s, e).loc)
    <3>. SUFFICES ASSUME NEW s, NEW e, IsFcn(s.loc)
                  PROVE  IsFcn(L2Event(s, e).loc)
      OBVIOUS
    <3>1. \/ L2Event(s, e).loc = s.loc
          \/ \E key : L2Event(s, e).loc = Drop(s.loc, key)
          \/ \E key, value : L2Event(s, e).loc = Put(s.loc, key, value)
      BY DEF L2Event
    <3>. QED  BY <3>1, PutDropFcn
  <2>. QED  BY <2>2, <2>3, <2>4
<1>. HIDE DEF Places
<1>3. Nat \subseteq Places
  BY <1>1, <1>2, NatInductive
<1>. QED  BY <1>3 DEF Places

\* The side of an order, if it is in the book.
EndOf(id) == IF id \in DOMAIN resting THEN {resting[id].side} ELSE {}

LEMMA OldLevelDropped ==
    ASSUME NEW l, NEW key, NEW id
    PROVE  OldLevel(Drop(l, key), id) =
               IF key = id THEN {} ELSE OldLevel(l, id)
<1>1. CASE key = id
  <2>1. id \notin DOMAIN Drop(l, key)
    BY <1>1, DropFacts
  <2>. QED  BY <1>1, <2>1 DEF OldLevel
<1>2. CASE key # id
  <2>1. CASE id \in DOMAIN l
    <3>1. /\ id \in DOMAIN Drop(l, key)
          /\ Drop(l, key)[id] = l[id]
      BY <1>2, <2>1, DropFacts
    <3>. QED  BY <1>2, <2>1, <3>1 DEF OldLevel
  <2>2. CASE id \notin DOMAIN l
    <3>1. id \notin DOMAIN Drop(l, key)
      BY <2>2, DropFacts
    <3>. QED  BY <1>2, <2>2, <3>1 DEF OldLevel
  <2>. QED  BY <2>1, <2>2
<1>. QED  BY <1>1, <1>2

LEMMA OldLevelPut ==
    ASSUME NEW l, NEW key, NEW value, NEW id
    PROVE  OldLevel(Put(l, key, value), id) =
               IF key = id THEN {value} ELSE OldLevel(l, id)
<1>1. CASE key = id
  <2>1. id \in DOMAIN Put(l, key, value) /\ Put(l, key, value)[id] = value
    BY <1>1 DEF Put
  <2>. QED  BY <1>1, <2>1 DEF OldLevel
<1>2. CASE key # id
  <2>1. CASE id \in DOMAIN l
    <3>1. /\ id \in DOMAIN Put(l, key, value)
          /\ Put(l, key, value)[id] = l[id]
      BY <1>2, <2>1 DEF Put
    <3>. QED  BY <1>2, <2>1, <3>1 DEF OldLevel
  <2>2. CASE id \notin DOMAIN l
    <3>1. id \notin DOMAIN Put(l, key, value)
      BY <1>2, <2>2, PutFacts
    <3>. QED  BY <1>2, <2>2, <3>1 DEF OldLevel
  <2>. QED  BY <2>1, <2>2
<1>. QED  BY <1>1, <1>2

\* The feed notes at least what is noted of one order.
Sees(seen, s, id) ==
    /\ OldLevel(seen.loc, id) = s.at
    /\ s.touched \subseteq seen.touched

LEMMA SeesNext ==
    ASSUME NEW event \in Event, NEW seen, NEW s, NEW id, Sees(seen, s, id)
    PROVE  Sees(L2Event(seen, event), Noted(s, event, id, EndOf(id)), id)
<1>1. event.type \in {"Accepted", "Filled", "Canceled", "Modified",
                      "Triggered", "Rejected", "Resting", "Trade"}
  BY DEF Event
<1>2. CASE event.type = "Trade"
  <2>1. L2Event(seen, event) =
           [touched |-> seen.touched
                          \cup {<<Opposite(event.taker_side), event.price>>},
            loc |-> IF event.maker_order_id \in DOMAIN resting THEN seen.loc
                    ELSE Drop(seen.loc, event.maker_order_id)]
    BY <1>2 DEF L2Event
  <2>2. CASE event.maker_order_id = id
    <3>1. Noted(s, event, id, EndOf(id)) =
             WithTrade(s, EndOf(id),
                       <<Opposite(event.taker_side), event.price>>)
      BY <1>2, <2>2 DEF Noted, WithTrade
    <3>2. EndOf(id) = {} <=> id \notin DOMAIN resting
      BY DEF EndOf
    <3>3. OldLevel(L2Event(seen, event).loc, id) =
             IF EndOf(id) = {} THEN {} ELSE s.at
      BY <2>1, <2>2, <3>2, OldLevelDropped DEF Sees
    <3>. QED  BY <2>1, <2>2, <3>1, <3>3 DEF Sees, WithTrade
  <2>3. CASE event.maker_order_id # id
    <3>1. Noted(s, event, id, EndOf(id)) = s
      BY <1>2, <2>3, OthersUnnoted DEF Concerns
    <3>. QED  BY <2>1, <2>3, <3>1, OldLevelDropped DEF Sees
  <2>. QED  BY <2>2, <2>3
<1>3. CASE event.type = "Resting" /\ event.order_id \in DOMAIN resting
  <2> DEFINE level == <<resting[event.order_id].side, event.price>>
  <2>1. L2Event(seen, event) =
           [touched |-> seen.touched \cup {level},
            loc |-> Put(seen.loc, event.order_id, level)]
    BY <1>3 DEF L2Event
  <2>4. event.order_id = id =>
           EndOf(id) \X {event.price} = {level} /\ EndOf(id) # {}
    BY <1>3, PairOf DEF EndOf
  <2>. HIDE DEF level
  <2>2. CASE event.order_id = id
    <3>1. EndOf(id) \X {event.price} = {level} /\ EndOf(id) # {}
      BY <2>2, <2>4
    <3>2. Noted(s, event, id, EndOf(id)) = WithResting(s, {level})
      BY <1>3, <2>2, <3>1 DEF Noted, WithResting
    <3>. QED  BY <2>1, <2>2, <3>2, OldLevelPut DEF Sees, WithResting
  <2>3. CASE event.order_id # id
    <3>1. Noted(s, event, id, EndOf(id)) = s
      BY <1>3, <2>3, OthersUnnoted DEF Concerns
    <3>2. L2Event(seen, event).loc = Put(seen.loc, event.order_id, level)
      BY <2>1
    <3>3. L2Event(seen, event).touched = seen.touched \cup {level}
      BY <2>1
    <3>4. OldLevel(L2Event(seen, event).loc, id) = OldLevel(seen.loc, id)
      BY <2>3, <3>2, OldLevelPut
    <3>. QED  BY <3>1, <3>3, <3>4 DEF Sees
  <2>. QED  BY <2>2, <2>3
<1>4. CASE event.type = "Resting" /\ event.order_id \notin DOMAIN resting
  <2>1. L2Event(seen, event) = seen
    BY <1>4 DEF L2Event
  <2>2. Noted(s, event, id, EndOf(id)) = s
    BY <1>4 DEF Noted, EndOf
  <2>. QED  BY <2>1, <2>2
<1>5. CASE event.type = "Modified"
  <2>1. L2Event(seen, event) =
           [seen EXCEPT !.touched = @ \cup OldLevel(seen.loc, event.order_id)]
    BY <1>5 DEF L2Event
  <2>2. CASE event.order_id = id
    <3>1. Noted(s, event, id, EndOf(id)) = WithModified(s)
      BY <1>5, <2>2 DEF Noted, WithModified
    <3>. QED  BY <2>1, <2>2, <3>1 DEF Sees, WithModified
  <2>3. CASE event.order_id # id
    <3>1. Noted(s, event, id, EndOf(id)) = s
      BY <1>5, <2>3, OthersUnnoted DEF Concerns
    <3>. QED  BY <2>1, <3>1 DEF Sees
  <2>. QED  BY <2>2, <2>3
<1>6. CASE event.type \in {"Canceled", "Filled"}
  <2>1. L2Event(seen, event) =
           [touched |-> seen.touched \cup OldLevel(seen.loc, event.order_id),
            loc |-> Drop(seen.loc, event.order_id)]
    BY <1>6 DEF L2Event
  <2>2. CASE event.order_id = id
    <3>1. Noted(s, event, id, EndOf(id)) = WithCancel(s)
      BY <1>6, <2>2 DEF Noted, WithCancel
    <3>. QED  BY <2>1, <2>2, <3>1, OldLevelDropped DEF Sees, WithCancel
  <2>3. CASE event.order_id # id
    <3>1. Noted(s, event, id, EndOf(id)) = s
      BY <1>6, <2>3, OthersUnnoted DEF Concerns
    <3>. QED  BY <2>1, <2>3, <3>1, OldLevelDropped DEF Sees
  <2>. QED  BY <2>2, <2>3
<1>7. CASE event.type \in {"Accepted", "Triggered", "Rejected"}
  BY <1>7 DEF L2Event, Noted
<1>. QED  BY <1>1, <1>2, <1>3, <1>4, <1>5, <1>6, <1>7

LEMMA SeesAll ==
    ASSUME NEW events \in Seq(Event), NEW id, NEW start,
           OldLevel(order_loc, id) = start,
           NEW s, Leads(events, id, start, EndOf(id), s)
    PROVE  Sees(L2Seen(events), s, id)
<1>1. PICK g : /\ IsTrail(g, events, id, start, EndOf(id))
               /\ s = g[Len(events)]
  BY DEF Leads
<1>2. PICK h : /\ IsSighting(events, Len(events), h)
               /\ L2Seen(events) = h[Len(events)]
  BY SeenIsSighting
<1>3. PICK n \in Nat : n = Len(events)
  OBVIOUS
<1> DEFINE Places == {k \in Nat : k <= n => Sees(h[k], g[k], id)}
<1>4. 0 \in Places
  <2>1. h[0] = [touched |-> {}, loc |-> order_loc]
    BY <1>2, <1>3, SightingSteps DEF Unseen
  <2>2. g[0] = [touched |-> {}, at |-> start]
    BY <1>1 DEF IsTrail
  <2>. QED  BY <2>1, <2>2 DEF Sees
<1>5. ASSUME NEW k \in Nat, k \in Places
      PROVE  k + 1 \in Places
  <2>. SUFFICES ASSUME k + 1 <= n
                PROVE  Sees(h[k + 1], g[k + 1], id)
    OBVIOUS
  <2>1. k + 1 \in 1..n /\ (k + 1) - 1 = k
    OBVIOUS
  <2>2. h[k + 1] = L2Event(h[k], events[k + 1])
    BY <1>2, <1>3, <2>1, SightingSteps
  <2>3. g[k + 1] = Noted(g[k], events[k + 1], id, EndOf(id))
    BY <1>1, <1>3, <2>1 DEF IsTrail
  <2>4. events[k + 1] \in Event
    BY <1>3, <2>1
  <2>. QED  BY <1>5, <2>2, <2>3, <2>4, SeesNext
<1>. HIDE DEF Places
<1>6. n \in Places
  BY <1>4, <1>5, NatInductive
<1>. QED  BY <1>1, <1>2, <1>3, <1>6 DEF Places

----------------------------------------------------------------------------
(* The book as a restart would seed the feed from it *)

LEMMA LevelsAreOrders ==
    ASSUME BookInv
    PROVE  Levels = {Where(resting, id) : id \in DOMAIN resting}
<1>1. ASSUME NEW level \in Levels
      PROVE  \E id \in DOMAIN resting : level = Where(resting, id)
  <2> DEFINE At(side, price) == level = <<side, price>>
  <2>0. PICK side \in Sides : \E price \in DOMAIN levels[side] :
           At(side, price)
    BY <1>1 DEF Levels
  <2>1. PICK price \in DOMAIN levels[side] : At(side, price)
    BY <2>0
  <2>2. PICK id : id = Head(FifoOf(side, price))
    OBVIOUS
  <2>3. id \in ToSet(FifoOf(side, price))
    <3>1. FifoOf(side, price) \in Seq(Nat) /\ FifoOf(side, price) # <<>>
      BY LevelFacts
    <3>. QED  BY <2>2, <3>1 DEF ToSet
  <2>4. /\ id \in DOMAIN resting
        /\ resting[id].side = side
        /\ resting[id].price = price
    BY <2>3, LevelFacts
  <2>. QED  BY <2>1, <2>4 DEF Where
<1>2. ASSUME NEW id \in DOMAIN resting
      PROVE  Where(resting, id) \in Levels
  <2>1. resting[id].side \in Sides
    BY OrderFacts
  <2>2. resting[id].price \in DOMAIN levels[resting[id].side]
    BY OrderFacts
  <2>3. Where(resting, id)
           \in {resting[id].side} \X DOMAIN levels[resting[id].side]
    BY <2>2 DEF Where
  <2>. QED  BY <2>1, <2>3 DEF Levels
<1>. QED  BY <1>1, <1>2

\* The quantity of a level is what its orders show, and more than nothing.
LEMMA LevelSums ==
    ASSUME Inv, VolumeInv
    PROVE  /\ \A level \in Levels : /\ LevelQty(level) = SumAt(resting, level)
                                    /\ LevelQty(level) # 0
           /\ \A level : level \notin Levels => LevelQty(level) = 0
<1>1. BookInv
  BY DEF Inv
<1>2. ASSUME NEW level \in Levels
      PROVE  /\ LevelQty(level) = SumAt(resting, level)
             /\ LevelQty(level) # 0
  <2> DEFINE At(side, price) == level = <<side, price>>
  <2>0. PICK side \in Sides : \E price \in DOMAIN levels[side] :
           At(side, price)
    BY <1>2 DEF Levels
  <2>1. PICK price \in DOMAIN levels[side] : At(side, price)
    BY <2>0
  <2>2. LevelQty(level) = TotalOf(side, price)
    BY <1>2, <2>1 DEF LevelQty, TotalOf, LevelAt
  <2>3. price \in Nat
    BY <1>1, LevelFacts
  <2>4. TotalOf(side, price) =
           SumFunctionOnSet(Shown, OrdersAt(side, price))
    BY <2>3 DEF VolumeInv, TotalsHold
  <2>5. OrdersAt(side, price) =
           {id \in DOMAIN resting : Where(resting, id) = level}
    BY <2>1 DEF OrdersAt, Where
  <2>6. LevelQty(level) = SumAt(resting, level)
    BY <2>2, <2>4, <2>5 DEF SumAt, Shown
  <2>7. PICK id \in DOMAIN resting : level = Where(resting, id)
    BY <1>1, <1>2, LevelsAreOrders
  <2>8. IsFiniteSet(OrdersAt(side, price))
    BY RestingFinite, FS_Subset DEF FinitelyMany, OrdersAt
  <2>9. \A x \in OrdersAt(side, price) : Shown[x] \in Nat \ {0}
    BY <1>1, OrderFacts DEF OrdersAt, Shown
  <2>10. id \in OrdersAt(side, price)
    BY <2>5, <2>7
  <2>11. SumFunctionOnSet(Shown, OrdersAt(side, price)) # 0
    <3> DEFINE rest == SumFunctionOnSet(Shown, OrdersAt(side, price) \ {id})
    <3>1. SumFunctionOnSet(Shown, OrdersAt(side, price)) = Shown[id] + rest
      BY <2>8, <2>9, <2>10, SumRemove
    <3>2. rest \in Nat
      <4>1. \A x \in OrdersAt(side, price) : Shown[x] \in Nat
        BY <2>9
      <4>. QED  BY <2>8, <4>1, SumMonotone
    <3>. QED  BY <2>9, <2>10, <3>1, <3>2
  <2>. QED  BY <2>2, <2>4, <2>6, <2>11
<1>. QED  BY <1>2 DEF LevelQty

LEMMA BookSeeds ==
    ASSUME BookInv
    PROVE  /\ L2FromBook = [level \in Levels |-> SumAt(resting, level)]
           /\ LocFromBook = [id \in DOMAIN resting |-> Where(resting, id)]
BY DEF L2FromBook, LocFromBook, SumAt, Shown, Where, LevelOf

----------------------------------------------------------------------------
(* What the feed makes of the events when the call is over *)

LEMMA EndIsEnd ==
    ASSUME BookInv, NEW id
    PROVE  EndOf(id) \in Ends
<1>1. id \in DOMAIN resting => resting[id].side \in {"Buy", "Sell"}
  BY OrderFacts DEF Sides
<1>. QED  BY <1>1 DEF EndOf, Ends

LEMMA OldIsWas ==
    ASSUME NEW r, Seeds(r), NEW id
    PROVE  OldLevel(order_loc, id) = Was(r, id)
BY DEF Seeds, OldLevel, Was

\* What was noted of an order, and that the feed noted it.
LEMMA SettledTold ==
    ASSUME Inv, CallFacts, phase # "match",
           NEW r, Seeds(r), FollowsAll(r), NEW id
    PROVE  \E s : /\ Sees(L2Seen(News), s, id)
                  /\ id \in DOMAIN resting => ToldResting(r, id, EndOf(id), s)
                  /\ id \notin DOMAIN resting => ToldLeft(r, id, EndOf(id), s)
<1>1. BookInv
  BY DEF Inv
<1>2. Followed(r, id) /\ EndOf(id) \in Ends
  BY <1>1, EndIsEnd DEF FollowsAll
<1>3. PICK s : /\ Leads(News, id, Was(r, id), EndOf(id), s)
               /\ Told(r, id, EndOf(id), s)
  BY <1>2 DEF Followed
<1>4. Sees(L2Seen(News), s, id)
  BY <1>3, NewsTyped, OldIsWas, SeesAll
<1>5. LiveIds = {} /\ GoneIds = {}
  BY DEF LiveIds, GoneIds
<1>. QED  BY <1>3, <1>4, <1>5 DEF Told

\* The feed looks for every order where the book has it.
LEMMA SettledLocations ==
    ASSUME Inv, CallFacts, phase # "match", NEW r, Seeds(r), FollowsAll(r)
    PROVE  L2Seen(News).loc = LocFromBook
<1> DEFINE locs == L2Seen(News).loc
<1>1. ASSUME NEW id
      PROVE  OldLevel(locs, id) =
                IF id \in DOMAIN resting THEN {LevelOf(id)} ELSE {}
  <2>1. PICK s : /\ Sees(L2Seen(News), s, id)
                 /\ id \in DOMAIN resting => ToldResting(r, id, EndOf(id), s)
                 /\ id \notin DOMAIN resting => ToldLeft(r, id, EndOf(id), s)
    BY SettledTold
  <2>. QED  BY <2>1 DEF Sees, ToldResting, ToldLeft, EndOf
<1>2. DOMAIN locs = DOMAIN resting
  <2>1. \A id : OldLevel(locs, id) # {} <=> id \in DOMAIN locs
    BY DEF OldLevel
  <2>. HIDE DEF locs
  <2>2. \A id : id \in DOMAIN locs <=> id \in DOMAIN resting
    BY <1>1, <2>1
  <2>. QED  BY <2>2
<1>3. \A id \in DOMAIN resting : locs[id] = LevelOf(id)
  <2>. HIDE DEF locs
  <2>. QED  BY <1>1, <1>2 DEF OldLevel
<1>4. IsFcn(locs)
  <2>1. IsFcn(order_loc)
    BY DEF Seeds, IsFcn
  <2>2. PICK g : /\ IsSighting(News, Len(News), g)
                 /\ L2Seen(News) = g[Len(News)]
    BY NewsTyped, SeenIsSighting
  <2>3. Len(News) \in Nat /\ Len(News) \in 0..Len(News)
    BY NewsTyped
  <2>. QED  BY <2>1, <2>2, <2>3, SightingsAreFcns
<1>. HIDE DEF locs
<1>. QED  BY <1>2, <1>3, <1>4 DEF IsFcn, LocFromBook, locs

\* A level the events do not touch has its orders and quantities of then.
LEMMA UntouchedLevels ==
    ASSUME Inv, CallFacts, phase # "match", NEW r, Seeds(r), FollowsAll(r),
           NEW level, level \notin L2Seen(News).touched
    PROVE  /\ level \in DOMAIN l2 <=> level \in Levels
           /\ level \in Levels => l2[level] = SumAt(resting, level)
<1> DEFINE then == {id \in DOMAIN r : Where(r, id) = level}
           now  == {id \in DOMAIN resting : Where(resting, id) = level}
<1>1. ASSUME NEW id
      PROVE  /\ id \in then <=> id \in now
             /\ id \in then => r[id].qty = resting[id].qty
  <2>1. PICK s : /\ Sees(L2Seen(News), s, id)
                 /\ id \in DOMAIN resting => ToldResting(r, id, EndOf(id), s)
                 /\ id \notin DOMAIN resting => ToldLeft(r, id, EndOf(id), s)
    BY SettledTold
  <2>2. level \notin s.touched
    BY <2>1 DEF Sees
  <2>3. id \in DOMAIN r => Was(r, id) = {Where(r, id)}
    BY DEF Was
  <2>4. CASE id \in DOMAIN resting
    <3>1. \/ /\ id \in DOMAIN r
             /\ Where(r, id) = LevelOf(id)
             /\ r[id].qty = resting[id].qty
          \/ {LevelOf(id)} \cup Was(r, id) \subseteq s.touched
      BY <2>1, <2>4 DEF ToldResting, EndOf
    <3>2. LevelOf(id) = Where(resting, id)
      BY DEF LevelOf, Where
    <3>. QED  BY <2>2, <2>3, <2>4, <3>1, <3>2
  <2>5. CASE id \notin DOMAIN resting
    <3>1. Was(r, id) \subseteq s.touched
      BY <2>1, <2>5 DEF ToldLeft, EndOf
    <3>. QED  BY <2>2, <2>3, <2>5, <3>1
  <2>. QED  BY <2>4, <2>5
<1>2. then = now
  BY <1>1
<1>3. level \in DOMAIN l2 <=> then # {}
  BY DEF Seeds
<1>4. level \in Levels <=> now # {}
  BY LevelsAreOrders DEF Inv
<1>5. level \in DOMAIN l2 => l2[level] = SumAt(r, level)
  BY DEF Seeds
<1>6. SumAt(r, level) = SumAt(resting, level)
  <2> DEFINE f == [id \in DOMAIN r |-> r[id].qty]
             g == [id \in DOMAIN resting |-> resting[id].qty]
  <2>1. IsFiniteSet(now)
    BY RestingFinite, FS_Subset DEF FinitelyMany
  <2>2. \A id \in now : f[id] = g[id]
    BY <1>1, <1>2
  <2>3. SumFunctionOnSet(f, now) = SumFunctionOnSet(g, now)
    <3>. HIDE DEF f, g, now
    <3>. QED  BY <2>1, <2>2, SumAgree
  <2>. QED  BY <1>2, <2>3 DEF SumAt
<1>. QED  BY <1>2, <1>3, <1>4, <1>5, <1>6

\* What the feed makes of the events of a call is the book.
LEMMA SettledFeed ==
    ASSUME Inv, VolumeInv, CallFacts, phase # "match",
           NEW r, Seeds(r), FollowsAll(r)
    PROVE  /\ L2Diff(L2Seen(News).touched) = L2FromBook
           /\ L2Seen(News).loc = LocFromBook
<1> DEFINE touched == L2Seen(News).touched
           Qty(level) == IF level \in touched THEN LevelQty(level)
                         ELSE l2[level]
           left == {k \in DOMAIN l2 \cup touched : Qty(k) # 0}
<1>1. ASSUME NEW level \in DOMAIN l2 \cup touched
      PROVE  /\ level \in Levels =>
                   Qty(level) = SumAt(resting, level) /\ Qty(level) # 0
             /\ level \notin Levels => Qty(level) = 0
  <2>1. CASE level \in touched
    BY <2>1, LevelSums
  <2>2. CASE level \notin touched
    <3>1. /\ level \in DOMAIN l2 <=> level \in Levels
          /\ level \in Levels => l2[level] = SumAt(resting, level)
      BY <2>2, UntouchedLevels
    <3>. QED  BY <1>1, <2>2, <3>1, LevelSums
  <2>. QED  BY <2>1, <2>2
<1>2. Levels \subseteq DOMAIN l2 \cup touched
  BY UntouchedLevels
<1>3. L2Diff(touched) = [level \in left |-> Qty(level)]
  BY DEF L2Diff
<1>. HIDE DEF Qty, touched
<1>4. left = Levels
  BY <1>1, <1>2
<1>5. \A level \in Levels : Qty(level) = SumAt(resting, level)
  BY <1>1, <1>2
<1>6. L2Diff(touched) = [level \in Levels |-> SumAt(resting, level)]
  <2>. HIDE DEF left
  <2>. QED  BY <1>3, <1>4, <1>5
<1>. QED  BY <1>6, BookSeeds, SettledLocations DEF Inv, touched

\* When the feed is up to date, the book stands for itself.
Fresh == \A q : q = resting => FollowsAll(q)

LEMMA FreshFollowed == Inv /\ News = <<>> /\ phase = "idle" => Fresh
<1>. SUFFICES ASSUME Inv, News = <<>>, phase = "idle", NEW q, q = resting
              PROVE  FollowsAll(q)
  BY DEF Fresh
<1>1. NotAhead(q)
  BY OrderFacts DEF NotAhead, Inv, OneHome
<1>2. ASSUME NEW id, NEW sides \in Ends
      PROVE  \E s : Leads(News, id, Was(q, id), sides, s)
                       /\ Told(q, id, sides, s)
  <2> DEFINE s == [touched |-> {}, at |-> Was(q, id)]
  <2>1. Leads(News, id, Was(q, id), sides, s)
    BY NothingLeads
  <2>2. LiveIds = {} /\ GoneIds = {}
    BY DEF LiveIds, GoneIds
  <2>3. CASE id \in DOMAIN resting
    <3>1. s.at = {LevelOf(id)} /\ Where(q, id) = LevelOf(id)
      BY <2>3 DEF Was, Where, LevelOf
    <3>2. ToldResting(q, id, sides, s)
      BY <2>3, <3>1 DEF ToldResting, Was
    <3>. QED  BY <2>1, <2>3, <3>2 DEF Told
  <2>4. CASE id \notin DOMAIN resting
    <3>1. ToldLeft(q, id, sides, s)
      BY <2>4 DEF ToldLeft, Was
    <3>. QED  BY <2>1, <2>2, <2>4, <3>1 DEF Told
  <2>. QED  BY <2>3, <2>4
<1>. QED  BY <1>1, <1>2 DEF FollowsAll, Followed

----------------------------------------------------------------------------
(* The invariant, step by step *)

\* No maker that self-trade prevention removed is in the book.
LEMMA GoneStayGone ==
    ASSUME Inv, CallFacts, NEW r, FollowsAll(r), backlog' = backlog,
           phase # "done", Next
    PROVE  GoneIds' \cap DOMAIN resting' = {}
<1>1. CASE phase' # "match"
  BY <1>1 DEF GoneIds
<1>2. CASE phase' = "match" /\ live'.self_canceled = <<>>
  BY <1>2 DEF GoneIds, ToSet
<1>3. ASSUME NEW order \in NewOrders, SubmitNew(order), phase' = "match"
      PROVE  live'.self_canceled = <<>>
  BY <1>3 DEF SubmitNew, RejectCommand, ParkStop, RefuseOrder, AcceptOrder,
              LiveOf
<1>4. ASSUME NEW id \in KnownIds, SubmitCancel(id)
      PROVE  phase' # "match"
  BY <1>4 DEF SubmitCancel, RejectCommand, CancelInBook, CancelStop,
              CancelUnknown
<1>5. ASSUME NEW id \in KnownIds, NEW a \in Amendments, SubmitModify(id, a),
             phase' = "match"
      PROVE  live'.self_canceled = <<>>
  BY <1>5 DEF SubmitModify, RejectCommand, ModifyUnknown, ModifyInPlace,
              ModifyReplace, ReplacementOf
<1>6. ASSUME phase = "match", MatchStep, phase' = "match"
      PROVE  GoneIds' \cap DOMAIN resting' = {}
  <2>1. PICK price \in DOMAIN levels[MakerSide] :
           \/ TradeWithHead(price)
           \/ CancelMaker(price)
           \/ CancelTaker(price)
           \/ CancelBoth(price)
    BY <1>6 DEF MatchStep
  <2>2. CASE TradeWithHead(price)
    <3>1. DOMAIN resting' \subseteq DOMAIN resting
      <4>1. PICK traded \in Nat :
               FillHead(MakerSide, price, traded, live.owner)
        BY <1>6, <2>2, TradeFacts
      <4>2. live.owner \in Owners /\ MakerSide \in Sides
        BY <1>6, LiveFacts, MakerFacts DEF LiveOrder
      <4>. QED  BY <4>1, <4>2, FillHeadKeepsBook DEF Inv
    <3>2. live'.self_canceled = live.self_canceled
      BY <1>6, <2>2, LiveFacts DEF TradeWithHead, LiveOrder
    <3>. QED  BY <1>6, <3>1, <3>2 DEF CallFacts, GoneIds
  <2>3. CASE CancelMaker(price)
    BY <1>6, <2>3, CanceledMakerFollowed
  <2>4. CASE CancelTaker(price) \/ CancelBoth(price)
    BY <1>6, <2>4 DEF CancelTaker, CancelBoth, FinishWith
  <2>. QED  BY <2>1, <2>2, <2>3, <2>4
<1>7. ASSUME FinishStep
      PROVE  phase' # "match"
  BY <1>7 DEF FinishStep, FinishFilled, RestRemainder, CancelRemainder,
              FinishWith
<1>8. ASSUME StopStep, phase' = "match"
      PROVE  live'.self_canceled = <<>>
  BY <1>8 DEF StopStep, ActivateStop, RefuseStop, TakeTriggered, LiveOf
<1>9. ASSUME StopsSettled
      PROVE  phase' # "match"
  BY <1>9 DEF StopsSettled
<1>10. ~Deliver
  BY DEF Deliver
<1>. QED  BY <1>1, <1>2, <1>3, <1>4, <1>5, <1>6, <1>7, <1>8, <1>9, <1>10
          DEF Next, Run

\* No step leads back to phase idle but the return of the call.
LEMMA CallsGoOn ==
    ASSUME Next, phase # "done"
    PROVE  phase' # "idle"
<1>1. ~Deliver
  BY DEF Deliver
<1>2. ASSUME NEW order \in NewOrders, SubmitNew(order)
      PROVE  phase' # "idle"
  BY <1>2 DEF SubmitNew, RejectCommand, ParkStop, RefuseOrder, AcceptOrder
<1>3. ASSUME NEW id \in KnownIds, SubmitCancel(id)
      PROVE  phase' # "idle"
  BY <1>3 DEF SubmitCancel, RejectCommand, CancelInBook, CancelStop,
              CancelUnknown
<1>4. ASSUME NEW id \in KnownIds, NEW a \in Amendments, SubmitModify(id, a)
      PROVE  phase' # "idle"
  BY <1>4 DEF SubmitModify, RejectCommand, ModifyUnknown, ModifyInPlace,
              ModifyReplace
<1>5. ASSUME phase = "match", MatchStep
      PROVE  phase' # "idle"
  BY <1>5 DEF MatchStep, TradeWithHead, CancelMaker, CancelTaker, CancelBoth,
              FinishWith
<1>6. ASSUME FinishStep
      PROVE  phase' # "idle"
  BY <1>6 DEF FinishStep, FinishFilled, RestRemainder, CancelRemainder,
              FinishWith
<1>7. ASSUME StopStep
      PROVE  phase' # "idle"
  BY <1>7 DEF StopStep, ActivateStop, RefuseStop, TakeTriggered
<1>8. ASSUME StopsSettled
      PROVE  phase' # "idle"
  BY <1>8 DEF StopsSettled
<1>. QED  BY <1>1, <1>2, <1>3, <1>4, <1>5, <1>6, <1>7, <1>8 DEF Next, Run

LEMMA CallFactsKept ==
    ASSUME Inv, CallFacts, NEW r, FollowsAll(r), backlog' = backlog,
           phase # "done", Next
    PROVE  CallFacts'
BY GoneStayGone, CallsGoOn DEF CallFacts

\* A command of a batch returns, and the feed is not brought up to date yet.
LEMMA BatchGoesOn ==
    ASSUME Inv, L2Inv, NextOfBatch
    PROVE  L2Inv'
<1>1. PICK r : Seeds(r) /\ FollowsAll(r)
  BY DEF L2Inv
<1>2. CallFacts'
  BY NewsTyped DEF NextOfBatch, Deliver, CallFacts, GoneIds, News, L2Inv
<1>3. FollowsAll(r)'
  BY <1>1, BatchedFollowed DEF L2Inv
<1>4. Seeds(r)'
  BY <1>1 DEF NextOfBatch, Seeds, SumAt, Where
<1>. QED  BY <1>2, <1>3, <1>4 DEF L2Inv

LEMMA FreshNext ==
    (Inv /\ News = <<>> /\ phase = "idle")' => Fresh'
BY FreshFollowed, PTL

LEMMA PublishedFeed ==
    ASSUME Inv, Inv', VolumeInv, L2Inv, Publish
    PROVE  L2Inv'
<1>1. PICK r : Seeds(r) /\ FollowsAll(r)
  BY DEF L2Inv
<1>2. PICK q : q = resting
  OBVIOUS
<1>3. CallFacts
  BY DEF L2Inv
<1>4. /\ phase = "done"
      /\ phase' = "idle"
      /\ out' = <<>>
      /\ backlog' = <<>>
      /\ resting' = resting
      /\ l2' = L2Diff(L2Seen(News).touched)
      /\ order_loc' = L2Seen(News).loc
  BY DEF Publish, Deliver, ApplyL2, News, bookVars
<1>5. /\ l2' = L2FromBook
      /\ order_loc' = LocFromBook
  BY <1>1, <1>3, <1>4, SettledFeed
<1>6. Seeds(q)'
  <2>1. /\ l2' = [level \in {Where(q, id) : id \in DOMAIN q} |->
                     SumAt(q, level)]
        /\ order_loc' = [id \in DOMAIN q |-> Where(q, id)]
    BY <1>2, <1>5, BookSeeds, LevelsAreOrders DEF Inv
  <2>. QED  BY <2>1 DEF Seeds, SumAt, Where
<1>7. News' = <<>>
  BY <1>4 DEF News
<1>8. Fresh'
  BY <1>4, <1>7, FreshNext
<1>9. FollowsAll(q)'
  BY <1>2, <1>4, <1>8 DEF Fresh
<1>10. CallFacts'
  BY <1>4 DEF CallFacts, GoneIds
<1>. QED  BY <1>6, <1>9, <1>10 DEF L2Inv

\* No step of the market data changes the engine but by a step of it.
LEMMA FeedStepsAreSteps == [FeedNext]_<<vars, feedVars>> => [Next]_vars
BY DEF FeedNext, NextOfBatch, Publish, Join, Receive, Next, Run, vars,
       feedVars

LEMMA FeedKeepsL2 ==
    ASSUME Inv, Inv', VolumeInv, L2Inv, [FeedNext]_<<vars, feedVars>>
    PROVE  L2Inv'
<1>1. PICK r : Seeds(r) /\ FollowsAll(r)
  BY DEF L2Inv
<1>2. CASE phase # "done" /\ Next /\ UNCHANGED feedVars
  <2>1. UNCHANGED <<l2, order_loc, backlog>>
    BY <1>2 DEF feedVars
  <2>2. FollowsAll(r)' /\ CallFacts'
    BY <1>1, <1>2, <2>1, FeedsWaitFollowed, CallFactsKept DEF L2Inv
  <2>3. Seeds(r)'
    BY <1>1, <2>1 DEF Seeds, SumAt, Where
  <2>. QED  BY <2>2, <2>3 DEF L2Inv
<1>3. CASE UNCHANGED <<vars, l2, order_loc, backlog>>
  <2>1. /\ UNCHANGED <<levels, resting, stops, next_order_id, phase, live, out>>
        /\ UNCHANGED <<l2, order_loc, backlog>>
    BY <1>3 DEF vars, bookVars, engineVars
  <2>2. CallFacts'
    BY <2>1 DEF L2Inv, CallFacts, GoneIds
  <2>3. Seeds(r)'
    BY <1>1, <2>1 DEF Seeds, SumAt, Where
  <2>4. FollowsAll(r)'
    <3>1. NotAhead(r)'
      BY <1>1, <2>1 DEF FollowsAll, NotAhead, StopIds
    <3>2. ASSUME NEW id
          PROVE  Followed(r, id)'
      <4>1. Unmoved(id)
        BY <2>1, QuietUnmoved
      <4>2. News' = News
        BY <2>1 DEF News
      <4>3. Followed(r, id)
        BY <1>1 DEF FollowsAll
      <4>. QED  BY <4>1, <4>2, <4>3, UnmovedTold, SilentFollowed
    <3>. QED  BY <3>1, <3>2 DEF FollowsAll
  <2>. QED  BY <2>2, <2>3, <2>4 DEF L2Inv
<1>4. Join => UNCHANGED <<vars, l2, order_loc, backlog>>
  BY DEF Join
<1>5. Receive => UNCHANGED <<vars, l2, order_loc, backlog>>
  BY DEF Receive
<1>6. UNCHANGED <<vars, feedVars>> => UNCHANGED <<vars, l2, order_loc, backlog>>
  BY DEF feedVars
<1>. QED  BY <1>2, <1>3, <1>4, <1>5, <1>6, BatchGoesOn, PublishedFeed
          DEF FeedNext

LEMMA FeedInitL2 ==
    ASSUME FeedInit, Inv
    PROVE  L2Inv
<1>1. PICK q : q = resting
  OBVIOUS
<1>2. /\ resting = <<>>
      /\ phase = "idle"
      /\ News = <<>>
      /\ backlog = <<>>
      /\ out = <<>>
      /\ l2 = <<>>
      /\ order_loc = <<>>
  BY DEF FeedInit, Init, BookInit, News
<1>3. FollowsAll(q)
  BY <1>1, <1>2, FreshFollowed DEF Fresh
<1>4. Seeds(q)
  BY <1>1, <1>2 DEF Seeds
<1>5. CallFacts
  BY <1>2 DEF CallFacts, GoneIds
<1>. QED  BY <1>3, <1>4, <1>5 DEF L2Inv

LEMMA NothingSeen == L2Seen(<<>>) = Unseen
<1>1. PICK g : IsSighting(<<>>, 0, g) /\ L2Seen(<<>>) = g[0]
  BY SeenIsSighting
<1>. QED  BY <1>1, SightingSteps

\* Between calls there are no news, and what the feed would make of them is
\* what it has.
LEMMA L2InvSuffices ==
    ASSUME Inv, VolumeInv, L2Inv
    PROVE  L2InSync
<1>. SUFFICES ASSUME BetweenCalls
              PROVE  l2 = L2FromBook /\ order_loc = LocFromBook
  BY DEF L2InSync
<1>1. PICK r : Seeds(r) /\ FollowsAll(r)
  BY DEF L2Inv
<1>2. CallFacts /\ phase # "match"
  BY DEF L2Inv, BetweenCalls
<1>3. News = <<>>
  BY DEF L2Inv, CallFacts, BetweenCalls, News
<1>4. L2Seen(News) = [touched |-> {}, loc |-> order_loc]
  BY <1>3, NothingSeen DEF Unseen
<1>5. order_loc = LocFromBook
  BY <1>1, <1>2, <1>4, SettledLocations
<1>6. \A level : level \notin L2Seen(News).touched
  BY <1>4
<1>7. /\ \A level : level \in DOMAIN l2 <=> level \in Levels
      /\ \A level \in Levels : l2[level] = SumAt(resting, level)
  BY <1>1, <1>2, <1>6, UntouchedLevels
<1>8. IsFcn(l2)
  BY <1>1 DEF Seeds, IsFcn
<1>9. DOMAIN l2 = Levels
  BY <1>7
<1>10. l2 = [level \in Levels |-> SumAt(resting, level)]
  BY <1>7, <1>8, <1>9 DEF IsFcn
<1>. QED  BY <1>5, <1>10, BookSeeds DEF Inv

FeedInv == Inv /\ VolumeInv /\ L2Inv

LEMMA FeedInvariance == FeedSpec => []FeedInv
<1>1. FeedInit => FeedInv
  BY InitInv, VolumeInit, FeedInitL2 DEF FeedInit, FeedInv
<1>2. FeedInv /\ [FeedNext]_<<vars, feedVars>> => FeedInv'
  <2>. SUFFICES ASSUME FeedInv, [FeedNext]_<<vars, feedVars>>
                PROVE  FeedInv'
    OBVIOUS
  <2>1. Inv' /\ VolumeInv'
    BY FeedStepsAreSteps, NextKeeps, VolumesKept DEF FeedInv, StepKeeps
  <2>. QED  BY <2>1, FeedKeepsL2 DEF FeedInv
<1>. QED  BY <1>1, <1>2, PTL DEF FeedSpec

\* After every call, of one command or of a batch, the L2 feed and the levels
\* it remembers of the orders are those a restart would seed from the book.
THEOREM L2Exact == FeedSpec => []L2InSync
<1>1. FeedInv => L2InSync
  BY L2InvSuffices DEF FeedInv
<1>. QED  BY <1>1, FeedInvariance, PTL

----------------------------------------------------------------------------
(* The trade tape                                                           *)
(*                                                                          *)
(* What the tape has once the events of the call are recorded is the price  *)
(* of the last trade among them, or the one it had before.                  *)

\* p is the price of the last trade among the first n events, or start.
NewestUpTo(events, n, start, p) ==
    \/ /\ \A i \in 1..n : events[i].type # "Trade"
       /\ p = start
    \/ \E i \in 1..n : /\ events[i].type = "Trade"
                       /\ p = events[i].price
                       /\ \A j \in 1..n : j > i => events[j].type # "Trade"

NewestOf(events, start, p) == NewestUpTo(events, Len(events), start, p)

PriceOn(prints) == IF prints = <<>> THEN None ELSE prints[Len(prints)].price

\* The price the stops are triggered by, or will be when the order is settled.
LastPrice ==
    IF phase = "match" /\ live.last_px # None THEN live.last_px
    ELSE last_trade_price

TapePrint == [seq : Nat, price : Nat, qty : Nat, taker_side : Sides]

TapeInv ==
    /\ tape \in Seq(TapePrint)
    /\ Len(tape) <= TapeCap
    /\ TapeCap > 0 => NewestOf(News, PriceOn(tape), LastPrice)

Hushed(events) ==
    /\ events \in Seq(Event)
    /\ \A i \in 1..Len(events) : events[i].type # "Trade"

LEMMA NewestIsOne ==
    ASSUME NEW events, NEW n \in Nat, NEW start, NEW p, NEW q,
           NewestUpTo(events, n, start, p), NewestUpTo(events, n, start, q)
    PROVE  p = q
<1>1. ASSUME NEW i \in 1..n, NEW k \in 1..n,
             events[i].type = "Trade", events[k].type = "Trade",
             \A j \in 1..n : j > i => events[j].type # "Trade",
             \A j \in 1..n : j > k => events[j].type # "Trade"
      PROVE  i = k
  BY <1>1
<1>. QED  BY <1>1 DEF NewestUpTo

LEMMA NewestKept ==
    ASSUME NEW events \in Seq(Event), NEW more, Hushed(more),
           NEW start, NEW p, NewestOf(events, start, p)
    PROVE  NewestOf(events \o more, start, p)
<1>1. PICK n \in Nat, k \in Nat : n = Len(events) /\ k = Len(more)
  BY DEF Hushed
<1>2. PICK all : all = events \o more
  OBVIOUS
<1>3. /\ Len(all) = n + k
      /\ \A i \in 1..n : all[i] = events[i]
      /\ \A i \in 1..k : all[n + i] = more[i]
  BY <1>1, <1>2, NewsFacts DEF Hushed
<1>4. \A i \in 1..(n + k) : i > n => all[i].type # "Trade"
  <2>1. ASSUME NEW i \in 1..(n + k), i > n
        PROVE  all[i].type # "Trade"
    <3>1. PICK j \in 1..k : i = n + j
      <4>1. i - n \in 1..k /\ i = n + (i - n)
        BY <2>1
      <4>. QED  BY <4>1
    <3>. QED  BY <1>1, <1>3, <3>1 DEF Hushed
  <2>. QED  BY <2>1
<1>5. CASE /\ \A i \in 1..n : events[i].type # "Trade"
           /\ p = start
  <2>1. \A i \in 1..(n + k) : all[i].type # "Trade"
    BY <1>3, <1>4, <1>5
  <2>. QED  BY <1>2, <1>3, <1>5, <2>1 DEF NewestOf, NewestUpTo
<1>6. ASSUME NEW i \in 1..n, events[i].type = "Trade", p = events[i].price,
             \A j \in 1..n : j > i => events[j].type # "Trade"
      PROVE  NewestOf(all, start, p)
  <2>1. /\ i \in 1..(n + k)
        /\ all[i].type = "Trade"
        /\ p = all[i].price
    BY <1>3, <1>6
  <2>2. \A j \in 1..(n + k) : j > i => all[j].type # "Trade"
    BY <1>3, <1>4, <1>6
  <2>. QED  BY <1>3, <2>1, <2>2 DEF NewestOf, NewestUpTo
<1>. QED  BY <1>1, <1>2, <1>5, <1>6 DEF NewestOf, NewestUpTo

LEMMA NewestTrade ==
    ASSUME NEW events \in Seq(Event), NEW event \in Event,
           event.type = "Trade", NEW start
    PROVE  NewestOf(Append(events, event), start, event.price)
<1>1. PICK n \in Nat : n = Len(events)
  OBVIOUS
<1>2. PICK all : all = Append(events, event)
  OBVIOUS
<1>3. Len(all) = n + 1 /\ all[n + 1] = event
  BY <1>1, <1>2, AppendFacts
<1>4. n + 1 \in 1..(n + 1) /\ \A j \in 1..(n + 1) : ~(j > n + 1)
  OBVIOUS
<1>. QED  BY <1>2, <1>3, <1>4 DEF NewestOf, NewestUpTo

\* The recursion of ApplyTape.
IsTaping(events, n, g) ==
    g = [i \in 0..n |->
            IF i = 0 THEN tape
            ELSE IF events[i].type = "Trade"
            THEN Record(g[i - 1], PrintOf(events[i]))
            ELSE g[i - 1]]

LEMMA TapingSteps ==
    \A events, g : \A n \in Nat :
        IsTaping(events, n, g) =>
            /\ g[0] = tape
            /\ \A i \in 1..n :
                  g[i] = IF events[i].type = "Trade"
                         THEN Record(g[i - 1], PrintOf(events[i]))
                         ELSE g[i - 1]
BY DEF IsTaping

LEMMA TapingExists ==
    ASSUME NEW events, NEW n \in Nat
    PROVE  \E g : IsTaping(events, n, g)
<1> DEFINE Lengths == {k \in Nat : \E g : IsTaping(events, k, g)}
           start == tape
           Step(p, i) == IF events[i].type = "Trade"
                         THEN Record(p, PrintOf(events[i])) ELSE p
<1>1. 0 \in Lengths
  <2> DEFINE g == [i \in 0..0 |-> start]
  <2>1. g = [i \in 0..0 |-> IF i = 0 THEN start ELSE Step(g[i - 1], i)]
    OBVIOUS
  <2>. HIDE DEF g
  <2>. QED  BY <2>1 DEF IsTaping
<1>2. ASSUME NEW k \in Nat, k \in Lengths
      PROVE  k + 1 \in Lengths
  <2>1. PICK g : IsTaping(events, k, g)
    BY <1>2
  <2>2. /\ g[0] = start
        /\ \A i \in 1..k : g[i] = Step(g[i - 1], i)
    BY <2>1, TapingSteps
  <2> DEFINE last == Step(g[k], k + 1)
             h == [i \in 0..(k + 1) |-> IF i = k + 1 THEN last ELSE g[i]]
  <2>. HIDE DEF Step, start
  <2>3. \A i \in 0..k : h[i] = g[i]
    OBVIOUS
  <2>4. h[k + 1] = Step(h[k], k + 1)
    <3>1. k \in 0..k /\ h[k + 1] = last
      OBVIOUS
    <3>. QED  BY <2>3, <3>1
  <2>5. h = [i \in 0..(k + 1) |-> h[i]]
    OBVIOUS
  <2>. HIDE DEF h
  <2>6. ASSUME NEW i \in 0..(k + 1)
        PROVE  h[i] = IF i = 0 THEN start ELSE Step(h[i - 1], i)
    <3>1. CASE i = 0
      BY <2>2, <2>3, <3>1
    <3>2. CASE i = k + 1
      <4>1. i # 0 /\ i - 1 = k
        BY <3>2
      <4>. QED  BY <2>4, <3>2, <4>1
    <3>3. CASE i \in 1..k
      <4>1. i \in 0..k /\ i - 1 \in 0..k /\ i # 0
        BY <3>3
      <4>. QED  BY <2>2, <2>3, <3>3, <4>1
    <3>. QED  BY <3>1, <3>2, <3>3
  <2>7. IsTaping(events, k + 1, h)
    BY <2>5, <2>6 DEF IsTaping, start, Step
  <2>. QED  BY <2>7
<1>. HIDE DEF Lengths
<1>3. n \in Lengths
  BY <1>1, <1>2, NatInductive
<1>. QED  BY <1>3 DEF Lengths

\* A print goes to the end of the tape, if the tape has any room at all.
LEMMA RecordFacts ==
    ASSUME NEW prints \in Seq(TapePrint), Len(prints) <= TapeCap,
           NEW print \in TapePrint
    PROVE  /\ Record(prints, print) \in Seq(TapePrint)
           /\ Len(Record(prints, print)) <= TapeCap
           /\ TapeCap > 0 => PriceOn(Record(prints, print)) = print.price
<1>1. TapeCap \in Nat
  BY FeedAssumption
<1> DEFINE longer == Append(prints, print)
<1>2. /\ longer \in Seq(TapePrint)
      /\ Len(longer) = Len(prints) + 1
      /\ longer[Len(prints) + 1] = print
      /\ longer # <<>>
  OBVIOUS
<1>3. CASE Len(prints) < TapeCap
  <2>1. Record(prints, print) = longer
    BY <1>3 DEF Record
  <2>. HIDE DEF longer
  <2>. QED  BY <1>1, <1>2, <1>3, <2>1 DEF PriceOn
<1>4. CASE Len(prints) = TapeCap
  <2>1. Record(prints, print) = Tail(longer)
    BY <1>1, <1>4 DEF Record
  <2>. HIDE DEF longer
  <2>2. PICK shifted : shifted = Tail(longer)
    OBVIOUS
  <2>3. /\ shifted \in Seq(TapePrint)
        /\ Len(shifted) = Len(prints)
        /\ \A i \in 1..Len(prints) : shifted[i] = longer[i + 1]
    BY <1>2, <2>2
  <2>4. Len(prints) > 0 =>
           /\ shifted # <<>>
           /\ shifted[Len(shifted)] = print
    BY <1>2, <2>3
  <2>. QED  BY <1>1, <1>4, <2>1, <2>2, <2>3, <2>4 DEF PriceOn
<1>. QED  BY <1>1, <1>3, <1>4

LEMMA PrintTyped ==
    ASSUME NEW event \in Event, event.type = "Trade"
    PROVE  /\ PrintOf(event) \in TapePrint
           /\ PrintOf(event).price = event.price
BY DEF Event, PrintOf, TapePrint

LEMMA TapedFacts ==
    ASSUME NEW events \in Seq(Event), ApplyTape(events),
           tape \in Seq(TapePrint), Len(tape) <= TapeCap
    PROVE  /\ tape' \in Seq(TapePrint)
           /\ Len(tape') <= TapeCap
           /\ TapeCap > 0 => NewestOf(events, PriceOn(tape), PriceOn(tape'))
<1>1. PICK n \in Nat : n = Len(events)
  OBVIOUS
<1> DEFINE g == CHOOSE x : IsTaping(events, n, x)
<1>2. IsTaping(events, n, g)
  BY TapingExists
<1>3. tape' = g[n]
  BY <1>1 DEF ApplyTape, IsTaping
<1>. HIDE DEF g
<1>4. /\ g[0] = tape
      /\ \A i \in 1..n : g[i] = IF events[i].type = "Trade"
                                THEN Record(g[i - 1], PrintOf(events[i]))
                                ELSE g[i - 1]
  BY <1>2, TapingSteps
<1> DEFINE Good(k) ==
              /\ g[k] \in Seq(TapePrint)
              /\ Len(g[k]) <= TapeCap
              /\ TapeCap > 0 =>
                    NewestUpTo(events, k, PriceOn(tape), PriceOn(g[k]))
           Places == {k \in Nat : k <= n => Good(k)}
<1>5. 0 \in Places
  BY <1>4 DEF NewestUpTo
<1>6. ASSUME NEW k \in Nat, k \in Places
      PROVE  k + 1 \in Places
  <2>. SUFFICES ASSUME k + 1 <= n
                PROVE  Good(k + 1)
    OBVIOUS
  <2>1. k + 1 \in 1..n /\ (k + 1) - 1 = k /\ k <= n
    OBVIOUS
  <2>2. Good(k)
    BY <1>6, <2>1
  <2>3. events[k + 1] \in Event
    BY <1>1, <2>1
  <2>4. CASE events[k + 1].type = "Trade"
    <3>1. g[k + 1] = Record(g[k], PrintOf(events[k + 1]))
      BY <1>4, <2>1, <2>4
    <3>2. /\ g[k + 1] \in Seq(TapePrint)
          /\ Len(g[k + 1]) <= TapeCap
          /\ TapeCap > 0 => PriceOn(g[k + 1]) = events[k + 1].price
      BY <2>2, <2>3, <2>4, <3>1, PrintTyped, RecordFacts
    <3>3. NewestUpTo(events, k + 1, PriceOn(tape), events[k + 1].price)
      <4>1. k + 1 \in 1..(k + 1) /\ \A j \in 1..(k + 1) : ~(j > k + 1)
        OBVIOUS
      <4>. QED  BY <2>4, <4>1 DEF NewestUpTo
    <3>. QED  BY <3>2, <3>3
  <2>5. CASE events[k + 1].type # "Trade"
    <3>1. g[k + 1] = g[k]
      BY <1>4, <2>1, <2>5
    <3>2. \A p : NewestUpTo(events, k, PriceOn(tape), p)
                    => NewestUpTo(events, k + 1, PriceOn(tape), p)
      <4>1. \A i : i \in 1..(k + 1) <=> i \in 1..k \/ i = k + 1
        OBVIOUS
      <4>. QED  BY <2>5, <4>1 DEF NewestUpTo
    <3>. QED  BY <2>2, <3>1, <3>2
  <2>. QED  BY <2>4, <2>5
<1>. HIDE DEF Good
<1>7. n \in Places
  <2>. HIDE DEF Places
  <2>. QED  BY <1>5, <1>6, NatInductive
<1>8. Good(n)
  BY <1>7
<1>. QED  BY <1>1, <1>3, <1>8 DEF Good, NewestOf

\* A command enters: what it says first, no trade is among.
LEMMA EntryHushed ==
    ASSUME Inv, CallFacts, out' \in Seq(Event), backlog' = backlog,
           NEW first, first.type # "Trade",
           NEW second, second.type # "Trade",
           out' = <<first>> \/ out' = <<first, second>>,
           phase = "idle"
    PROVE  Hushed(out') /\ News' = News \o out'
<1>1. Hushed(out')
  BY DEF Hushed
<1>2. out = <<>>
  BY DEF CallFacts
<1>3. \A b, a \in Seq(Event) : b \o a = (b \o <<>>) \o a
  OBVIOUS
<1>. QED  BY <1>1, <1>2, <1>3 DEF News, CallFacts

LEMMA EntriesHushed ==
    ASSUME Inv, CallFacts, out' \in Seq(Event), backlog' = backlog,
           \/ \E order \in NewOrders : SubmitNew(order)
           \/ \E id \in KnownIds : SubmitCancel(id)
           \/ \E id \in KnownIds, a \in Amendments : SubmitModify(id, a)
    PROVE  /\ Hushed(out')
           /\ News' = News \o out'
           /\ LastPrice' = LastPrice
<1>1. /\ \A s, id : /\ Accepted(s, id).type # "Trade"
                    /\ Canceled(s, id).type # "Trade"
                    /\ Modified(s, id).type # "Trade"
      /\ \A s, reason : Rejected(s, reason).type # "Trade"
      /\ \A s, id, price, qty : Resting(s, id, price, qty).type # "Trade"
  BY DEF Accepted, Canceled, Modified, Rejected, Resting
<1> DEFINE Enters ==
              /\ phase = "idle"
              /\ last_trade_price' = last_trade_price
              /\ phase' # "match" \/ live'.last_px = None
              /\ \E first, second :
                    /\ first.type # "Trade"
                    /\ second.type # "Trade"
                    /\ out' = <<first>> \/ out' = <<first, second>>
<1>2. Enters
  <2>1. ASSUME NEW order \in NewOrders, SubmitNew(order)
        PROVE  Enters
    BY <1>1, <2>1
       DEF SubmitNew, RejectCommand, ParkStop, RefuseOrder, AcceptOrder, Admit,
           Submit, LiveOf
  <2>2. ASSUME NEW id \in KnownIds, SubmitCancel(id)
        PROVE  Enters
    BY <1>1, <2>2
       DEF SubmitCancel, RejectCommand, CancelInBook, CancelStop,
           CancelUnknown, Admit, Submit
  <2>3. ASSUME NEW id \in KnownIds, NEW a \in Amendments, SubmitModify(id, a)
        PROVE  Enters
    BY <1>1, <2>3
       DEF SubmitModify, RejectCommand, ModifyUnknown, ModifyInPlace,
           ModifyReplace, ReplacementOf, Admit, Submit
  <2>. QED  BY <2>1, <2>2, <2>3
<1>. QED  BY <1>2, EntryHushed DEF LastPrice

\* More is said, but no trade, and the price stays.
LEMMA TapeWaits ==
    ASSUME Inv, CallFacts, TapeInv, tape' = tape, NEW more, Hushed(more),
           News' = News \o more, LastPrice' = LastPrice
    PROVE  TapeInv'
<1>1. TapeCap > 0 => NewestOf(News \o more, PriceOn(tape), LastPrice)
  BY NewsTyped, NewestKept DEF TapeInv
<1>. QED  BY <1>1 DEF TapeInv, NewestOf, NewestUpTo, PriceOn

LEMMA HushedAppend ==
    ASSUME NEW events, Hushed(events), NEW event \in Event,
           event.type # "Trade"
    PROVE  Hushed(Append(events, event))
<1>1. PICK n \in Nat : n = Len(events)
  BY DEF Hushed
<1>2. PICK more : more = Append(events, event)
  OBVIOUS
<1>3. /\ more \in Seq(Event)
      /\ Len(more) = n + 1
      /\ more[n + 1] = event
      /\ \A i \in 1..n : more[i] = events[i]
  BY <1>1, <1>2, AppendFacts DEF Hushed
<1>. QED  BY <1>1, <1>2, <1>3 DEF Hushed

LEMMA FinishedTape ==
    ASSUME Inv, CallFacts, TapeInv, UNCHANGED <<tape, backlog>>,
           phase = "match", NEW ids \in Seq(Nat), NEW event \in Event,
           event.type # "Trade", FinishWith(ids, event)
    PROVE  TapeInv'
<1>1. SelfCancels(ids) \in Seq(Event)
  BY LiveFacts, SelfCancelsTyped
<1>2. PICK cancels \in Seq(Event) : cancels = SelfCancels(ids)
  BY <1>1
<1>3. PICK more : more = Append(cancels, event)
  OBVIOUS
<1>4. Hushed(more)
  <2>1. Len(cancels) = Len(ids)
    BY <1>2 DEF SelfCancels
  <2>2. \A i \in 1..Len(ids) : cancels[i].type # "Trade"
    BY <1>2 DEF SelfCancels, Canceled
  <2>3. Hushed(cancels)
    BY <2>1, <2>2 DEF Hushed
  <2>. QED  BY <1>3, <2>3, HushedAppend
<1>5. News' = News \o more
  <2>1. \A a, b \in Seq(Event) : a \o Append(b, event) = Append(a \o b, event)
    OBVIOUS
  <2>. QED  BY <1>2, <1>3, <2>1, NewsFinished, NewsTyped
<1>6. LastPrice' = LastPrice
  BY DEF LastPrice, FinishWith
<1>. QED  BY <1>4, <1>5, <1>6, TapeWaits

LEMMA FinishesOnTape ==
    ASSUME Inv, CallFacts, TapeInv, UNCHANGED <<tape, backlog>>,
           phase = "match",
           \/ FinishStep
           \/ \E price \in DOMAIN levels[MakerSide] :
                 CancelTaker(price) \/ CancelBoth(price)
    PROVE  TapeInv'
<1>1. /\ seq \in Nat
      /\ live.order_id \in Nat
      /\ live.self_canceled \in Seq(Nat)
  BY LiveFacts
<1> DEFINE Finishes == \E ids \in Seq(Nat), event \in Event :
                          event.type # "Trade" /\ FinishWith(ids, event)
<1>2. Finishes
  <2>1. /\ Canceled(seq, live.order_id) \in Event
        /\ Canceled(seq, live.order_id).type # "Trade"
        /\ Filled(seq, live.order_id) \in Event
        /\ Filled(seq, live.order_id).type # "Trade"
    BY <1>1, EventsTyped DEF Canceled, Filled
  <2>2. ASSUME NEW price \in DOMAIN levels[MakerSide], CancelTaker(price)
        PROVE  Finishes
    BY <1>1, <2>1, <2>2 DEF CancelTaker
  <2>3. ASSUME NEW price \in DOMAIN levels[MakerSide], CancelBoth(price)
        PROVE  Finishes
    <3>1. Append(live.self_canceled, HeadOf(price)) \in Seq(Nat)
      BY <1>1, MakerFacts
    <3>. QED  BY <2>1, <2>3, <3>1 DEF CancelBoth
  <2>4. FinishFilled \/ CancelRemainder => Finishes
    BY <1>1, <2>1 DEF FinishFilled, CancelRemainder
  <2>5. ASSUME RestRemainder
        PROVE  Finishes
    <3>1. PICK visible \in Nat :
             FinishWith(live.self_canceled,
                        Resting(seq, live.order_id, live.limit_price, visible))
      BY <2>5, LiveFacts DEF RestRemainder
    <3>2. live.limit_price \in Nat
      BY <2>5, LiveFacts DEF RestRemainder, Rests
    <3>3. /\ Resting(seq, live.order_id, live.limit_price, visible) \in Event
          /\ Resting(seq, live.order_id, live.limit_price, visible).type
                # "Trade"
      BY <1>1, <3>2, EventsTyped DEF Resting
    <3>. QED  BY <1>1, <3>1, <3>3
  <2>. QED  BY <2>2, <2>3, <2>4, <2>5 DEF FinishStep
<1>. QED  BY <1>2, FinishedTape

LEMMA StopsOnTape ==
    ASSUME Inv, CallFacts, TapeInv, UNCHANGED <<tape, backlog>>,
           StopStep \/ StopsSettled
    PROVE  TapeInv'
<1>1. Hushed(<<>>) /\ News = News \o <<>>
  BY NewsTyped DEF Hushed
<1>2. CASE StopsSettled
  <2>1. LastPrice' = LastPrice /\ News' = News
    BY <1>2 DEF StopsSettled, LastPrice, News
  <2>. QED  BY <1>1, <2>1, TapeWaits
<1>3. ASSUME NEW i \in DOMAIN stops, ActivateStop(i)
      PROVE  TapeInv'
  <2>1. PICK event \in Event : /\ event.type # "Trade"
                               /\ out' = Append(out, event)
    <3>1. /\ Triggered(seq, stops[i].id) \in Event
          /\ Triggered(seq, stops[i].id).type # "Trade"
      BY <1>3, TakenStopFacts, EventsTyped DEF ActivateStop, Triggered
    <3>. QED  BY <1>3, <3>1 DEF ActivateStop
  <2>2. Hushed(<<event>>)
    BY <2>1 DEF Hushed
  <2>3. News' = News \o <<event>>
    <3>1. \A a \in Seq(Event) : Append(a, event) = a \o <<event>>
      OBVIOUS
    <3>. QED  BY <2>1, <3>1, NewsAppended, NewsTyped
  <2>4. LastPrice' = LastPrice
    BY <1>3 DEF ActivateStop, TakeTriggered, LiveOf, LastPrice
  <2>. QED  BY <2>2, <2>3, <2>4, TapeWaits
<1>4. ASSUME NEW i \in DOMAIN stops, RefuseStop(i)
      PROVE  TapeInv'
  <2>1. PICK reason \in RejectReasons : reason = StopCheck(stops[i])
    BY <1>4, PrecheckTyped DEF RefuseStop, StopCheck
  <2>2. PICK first \in Event, second \in Event :
           /\ first.type # "Trade"
           /\ second.type # "Trade"
           /\ out' = out \o <<first, second>>
    <3>1. /\ Triggered(seq, stops[i].id) \in Event
          /\ Triggered(seq, stops[i].id).type # "Trade"
          /\ Rejected(seq, reason) \in Event
          /\ Rejected(seq, reason).type # "Trade"
      BY <1>4, TakenStopFacts, EventsTyped DEF RefuseStop, Triggered, Rejected
    <3>. QED  BY <1>4, <2>1, <3>1 DEF RefuseStop
  <2>3. Hushed(<<first, second>>)
    BY <2>2 DEF Hushed
  <2>4. News' = News \o <<first, second>>
    <3>1. \A a, b, c \in Seq(Event) : a \o (b \o c) = (a \o b) \o c
      OBVIOUS
    <3>. QED  BY <2>2, <2>3, <3>1, NewsTyped DEF News, Hushed
  <2>5. LastPrice' = LastPrice
    BY <1>4 DEF RefuseStop, TakeTriggered, LastPrice
  <2>. QED  BY <2>3, <2>4, <2>5, TapeWaits
<1>. QED  BY <1>2, <1>3, <1>4 DEF StopStep

LEMMA MatchesOnTape ==
    ASSUME Inv, CallFacts, TapeInv, UNCHANGED <<tape, backlog>>,
           phase = "match", NEW price \in DOMAIN levels[MakerSide],
           TradeWithHead(price) \/ CancelMaker(price)
    PROVE  TapeInv'
<1>1. CASE TradeWithHead(price)
  <2>1. PICK id, traded :
           id = HeadOf(price) /\ traded = Min({live.qty, resting[id].qty})
    OBVIOUS
  <2>2. PICK event \in Event : /\ out' = Append(out, event)
                               /\ event.type = "Trade"
                               /\ event.price = price
    <3> DEFINE trade == Trade(seq, live.order_id, id, price, traded,
                              live.side, TakerFee(price, traded),
                              MakerFee(price, traded))
    <3>1. traded \in Nat /\ price \in Nat /\ id \in Nat
      BY <2>1, LiveFacts, MakerFacts, MinOfTwo
    <3>2. trade \in Event
      BY <3>1, LiveFacts, FeesTyped, EventsTyped
    <3>3. trade.type = "Trade" /\ trade.price = price
      BY DEF Trade
    <3>4. out' = Append(out, trade)
      BY <1>1, <2>1 DEF TradeWithHead
    <3>. QED  BY <3>2, <3>3, <3>4
  <2>3. NewestOf(News', PriceOn(tape), price)
    BY <2>2, NewsAppended, NewsTyped, NewestTrade
  <2>4. LastPrice' = price
    <3>1. phase' = "match" /\ live'.last_px = price
      BY <1>1, LiveFacts DEF TradeWithHead, LiveOrder
    <3>. QED  BY <3>1, MakerFacts, NoneAssumption DEF LastPrice
  <2>. QED  BY <2>3, <2>4 DEF TapeInv, NewestOf, NewestUpTo, PriceOn
<1>2. CASE CancelMaker(price)
  <2>1. News' = News /\ LastPrice' = LastPrice
    BY <1>2, LiveFacts DEF CancelMaker, News, LastPrice, LiveOrder
  <2>2. Hushed(<<>>) /\ News = News \o <<>>
    BY NewsTyped DEF Hushed
  <2>. QED  BY <2>1, <2>2, TapeWaits
<1>. QED  BY <1>1, <1>2

LEMMA DeliveredTape ==
    ASSUME Inv, CallFacts, TapeInv, NextOfBatch \/ Publish
    PROVE  TapeInv'
<1>1. LastPrice' = LastPrice
  BY DEF LastPrice, NextOfBatch, Publish, Deliver
<1>2. CASE NextOfBatch
  <2>1. News' = News \o <<>> /\ tape' = tape
    BY <1>2, NewsTyped DEF NextOfBatch, Deliver, News
  <2>2. Hushed(<<>>)
    BY DEF Hushed
  <2>. QED  BY <1>1, <2>1, <2>2, TapeWaits
<1>3. CASE Publish
  <2>1. ApplyTape(News) /\ News' = <<>>
    BY <1>3 DEF Publish, Deliver, News
  <2>2. /\ tape' \in Seq(TapePrint)
        /\ Len(tape') <= TapeCap
        /\ TapeCap > 0 => NewestOf(News, PriceOn(tape), PriceOn(tape'))
    BY <2>1, NewsTyped, TapedFacts DEF TapeInv
  <2>3. TapeCap > 0 => PriceOn(tape') = LastPrice
    BY <2>2, NewsTyped, NewestIsOne DEF TapeInv, NewestOf
  <2>4. \A p : NewestOf(<<>>, p, p)
    BY DEF NewestOf, NewestUpTo
  <2>5. TapeCap > 0 => NewestOf(News', PriceOn(tape'), LastPrice')
    BY <1>1, <2>1, <2>3, <2>4
  <2>. QED  BY <2>2, <2>5 DEF TapeInv, NewestOf, NewestUpTo, PriceOn
<1>. QED  BY <1>2, <1>3

LEMMA FeedKeepsTape ==
    ASSUME Inv, Inv', CallFacts, TapeInv, [FeedNext]_<<vars, feedVars>>
    PROVE  TapeInv'
<1>1. CASE phase # "done" /\ Next /\ UNCHANGED feedVars
  <2>1. UNCHANGED <<tape, backlog>> /\ out' \in Seq(Event)
    BY <1>1 DEF feedVars, Inv, CallTypeOK
  <2>2. CASE \/ \E order \in NewOrders : SubmitNew(order)
             \/ \E id \in KnownIds : SubmitCancel(id)
             \/ \E id \in KnownIds, a \in Amendments : SubmitModify(id, a)
    BY <2>1, <2>2, EntriesHushed, TapeWaits
  <2>3. CASE phase = "match" /\ (MatchStep \/ FinishStep)
    BY <2>1, <2>3, MatchesOnTape, FinishesOnTape DEF MatchStep
  <2>4. CASE StopStep \/ StopsSettled
    BY <2>1, <2>4, StopsOnTape
  <2>5. ~Deliver
    BY <1>1 DEF Deliver
  <2>. QED  BY <1>1, <2>2, <2>3, <2>4, <2>5 DEF Next, Run
<1>2. CASE UNCHANGED <<vars, tape, backlog>>
  <2>1. UNCHANGED <<tape, backlog, out, phase, live, last_trade_price>>
    BY <1>2 DEF vars, engineVars
  <2>2. Hushed(<<>>)
    BY DEF Hushed
  <2>3. News' = News \o <<>>
    BY <2>1, NewsTyped DEF News
  <2>4. LastPrice' = LastPrice
    BY <2>1 DEF LastPrice
  <2>. QED  BY <2>1, <2>2, <2>3, <2>4, TapeWaits
<1>3. Join => UNCHANGED <<vars, tape, backlog>>
  BY DEF Join
<1>4. Receive => UNCHANGED <<vars, tape, backlog>>
  BY DEF Receive
<1>5. UNCHANGED <<vars, feedVars>> => UNCHANGED <<vars, tape, backlog>>
  BY DEF feedVars
<1>. QED  BY <1>1, <1>2, <1>3, <1>4, <1>5, DeliveredTape DEF FeedNext

LEMMA TapeInvSuffices ==
    ASSUME CallFacts, TapeInv
    PROVE  TapeEndsAtLastTrade
<1>1. ASSUME BetweenCalls, TapeCap > 0
      PROVE  /\ (tape = <<>>) = (last_trade_price = None)
             /\ tape # <<>> => Last(tape).price = last_trade_price
  <2>1. News = <<>> /\ LastPrice = last_trade_price
    BY <1>1 DEF BetweenCalls, CallFacts, News, LastPrice
  <2>2. last_trade_price = PriceOn(tape)
    BY <1>1, <2>1 DEF TapeInv, NewestOf, NewestUpTo
  <2>3. tape # <<>> => tape[Len(tape)] \in TapePrint
    BY DEF TapeInv
  <2>4. tape # <<>> => tape[Len(tape)].price # None
    BY <2>3, NoneAssumption DEF TapePrint
  <2>. QED  BY <2>2, <2>4 DEF PriceOn, Last
<1>. QED  BY <1>1 DEF TapeInv, TapeEndsAtLastTrade

LEMMA TapeInit ==
    ASSUME FeedInit
    PROVE  TapeInv
<1>1. /\ tape = <<>>
      /\ News = <<>>
      /\ LastPrice = None
  BY DEF FeedInit, Init, News, LastPrice
<1>2. TapeCap \in Nat
  BY FeedAssumption
<1>. QED  BY <1>1, <1>2 DEF TapeInv, NewestOf, NewestUpTo, PriceOn

\* The newest print of the tape is the trade the stops are triggered by, for
\* every capacity of the tape, and the tape keeps its bound.
THEOREM TapeIsCurrent == FeedSpec => []TapeEndsAtLastTrade
<1>1. FeedInit => TapeInv
  BY TapeInit
<1>2. FeedInv /\ FeedInv' /\ TapeInv /\ [FeedNext]_<<vars, feedVars>>
         => TapeInv'
  BY FeedKeepsTape DEF FeedInv, L2Inv
<1>3. FeedInv /\ TapeInv => TapeEndsAtLastTrade
  BY TapeInvSuffices DEF FeedInv, L2Inv
<1>. QED  BY <1>1, <1>2, <1>3, FeedInvariance, PTL DEF FeedSpec
=============================================================================
