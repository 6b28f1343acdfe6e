------------------------------ MODULE MCJournal ------------------------------
(***************************************************************************)
(* Batches with every type of order and numbers at the edges of a group of *)
(* seven bits and of the word.                                             *)
(***************************************************************************)
EXTENDS JournalFile

A == 1
BigOwner == 128
Highest == 2 ^ (WordBits - 1) + (2 ^ (WordBits - 1) - 1)

JournalBatches ==
    {<<New(WithStp(WithOwner(Limit("Sell", 128, 1), BigOwner), "CancelBoth"))>>,
     <<New([Market("Sell", 300) EXCEPT !.price = 5]), Cancel(Highest)>>,
     <<New(WithTif(Stop("Buy", 127, 1), "Fok")),
       New(StopLimit("Buy", 5, 6, 7)),
       New(WithTif(Iceberg("Buy", 2, 4, 3), "PostOnly")),
       Modify(1, [price |-> 0, qty |-> 2])>>}
JournalAccounts == {A, BigOwner}
JournalBaseSeqs == {65537}
==============================================================================
