-------------------------------- MODULE Fees --------------------------------
(***************************************************************************)
(* What a trade costs its two sides (fees.rs).  A rate is in parts of      *)
(* PpmScale of the notional and may be negative, a rebate.  The saturation *)
(* of the 128-bit products is not seen: such a fee is clamped anyway.      *)
(***************************************************************************)
EXTENDS Integers

CONSTANTS
    MakerPpm,
    TakerPpm,
    PpmScale,   \* 1 000 000 in the code
    FeeMax      \* i64::MAX in the code

ASSUME FeeAssumption ==
    /\ MakerPpm \in Int
    /\ TakerPpm \in Int
    /\ PpmScale \in Nat \ {0}
    /\ FeeMax \in Nat

Clamp(fee) ==
    IF fee > FeeMax THEN FeeMax
    ELSE IF fee < -FeeMax - 1 THEN -FeeMax - 1
    ELSE fee

\* Mutant of Charge: rounds up, which for a fee is away from zero.
Charge_Up(rate_ppm, price, qty) ==
    Clamp(-((-(price * qty * rate_ppm)) \div PpmScale))

\* Mutant of Charge: rounds down, which for a rebate is away from zero.
Charge_Down(rate_ppm, price, qty) ==
    Clamp((price * qty * rate_ppm) \div PpmScale)

\* Integer division of the code truncates toward zero.
Charge(rate_ppm, price, qty) ==
    LET scaled == price * qty * rate_ppm
    IN  Clamp(IF scaled >= 0 THEN scaled \div PpmScale
              ELSE -((-scaled) \div PpmScale))

TakerFee(price, qty) == Charge(TakerPpm, price, qty)
MakerFee(price, qty) == Charge(MakerPpm, price, qty)
==============================================================================
