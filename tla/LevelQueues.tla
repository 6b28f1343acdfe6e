---------------------------- MODULE LevelQueues ----------------------------
(***************************************************************************)
(* What the price levels promise about time priority: every level is a     *)
(* queue that orders enter at the tail, leave from anywhere, and in which  *)
(* a refilled iceberg goes from the head to the tail.                      *)
(***************************************************************************)
EXTENDS Naturals, SequencesExt

CONSTANT Prices

VARIABLES queues, entered

Init == queues = [price \in Prices |-> <<>>] /\ entered = 0

Enter(price) ==
    /\ entered' = entered + 1
    /\ queues' = [queues EXCEPT ![price] = Append(@, entered')]

Leave(price, place) ==
    /\ queues' = [queues EXCEPT ![price] = RemoveAt(@, place)]
    /\ UNCHANGED entered

Refill(price) ==
    /\ queues[price] # <<>>
    /\ queues' = [queues EXCEPT ![price] = Append(Tail(@), Head(@))]
    /\ UNCHANGED entered

Next ==
    \E price \in Prices :
        \/ Enter(price)
        \/ \E place \in DOMAIN queues[price] : Leave(price, place)
        \/ Refill(price)

Spec == Init /\ [][Next]_<<queues, entered>>
==============================================================================
