----------------------------- MODULE DurableLog -----------------------------
(***************************************************************************)
(* What a write-ahead log promises to those who write to it: a log that    *)
(* only grows while it is up, of which a crash may take the end that was   *)
(* not acknowledged and nothing else.                                      *)
(***************************************************************************)
EXTENDS SequencesExt

VARIABLES
    log,        \* what a restart would recover
    promised    \* what somebody was told is in it

Init == log = <<>> /\ promised = <<>>

Extend == IsStrictPrefix(log, log') /\ UNCHANGED promised

Promise == promised' = log /\ UNCHANGED log

\* A crash: the log loses an end that nobody was told of.
Forget ==
    /\ IsPrefix(log', log)
    /\ IsPrefix(promised, log')
    /\ UNCHANGED promised

Next == Extend \/ Promise \/ Forget

Spec == Init /\ [][Next]_<<log, promised>>
==============================================================================
