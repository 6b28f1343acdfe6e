---------------------------- MODULE IcebergPeak ----------------------------
(***************************************************************************)
(* A client's own record of the peaks it placed its icebergs with, beside  *)
(* the engine, to hold the book against.                                   *)
(***************************************************************************)
EXTENDS MCEngine

VARIABLE peaks    \* the display of every accepted iceberg, by order id

PeakInit == Init /\ peaks = <<>>

\* The command that Deliver ends was accepted as an iceberg with a hidden
\* part.
NewIceberg ==
    /\ command.op = "New"
    /\ command.order.type = "Iceberg"
    /\ command.order.display < command.order.qty
    /\ Head(out).type = "Accepted"

PeakNext ==
    \/ phase # "done" /\ Next /\ UNCHANGED peaks
    \/ /\ Deliver
       /\ peaks' = IF NewIceberg
                   THEN Put(peaks, Head(out).order_id, command.order.display)
                   ELSE peaks

PeakSpec == PeakInit /\ [][PeakNext]_<<vars, peaks>>

\* An order that was placed as an iceberg shows at most the peak it was
\* placed with, also after it was amended.
PeakKept ==
    \A id \in DOMAIN peaks \cap DOMAIN resting :
        resting[id].qty <= peaks[id]
==============================================================================
