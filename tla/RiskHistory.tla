----------------------------- MODULE RiskHistory -----------------------------
(***************************************************************************)
(* The position limit in the presence of stops.  A dormant stop is not in  *)
(* the open volume and is not checked again when it is activated, so that  *)
(* an account may get past its limit; a history of what was activated says *)
(* by how much.                                                            *)
(***************************************************************************)
EXTENDS EngineProperties

VARIABLE activated  \* account -> side -> volume of its activated stops

riskVars == <<vars, activated>>

RiskInit ==
    /\ Init
    /\ activated = [owner \in Accounts |-> [side \in Sides |-> 0]]

Activates == phase = "stops" /\ phase' = "match" /\ live'.owner # Anonymous

RiskNext ==
    /\ Next
    /\ activated' = IF Activates
                    THEN [activated EXCEPT
                            ![live'.owner][live'.side] = @ + live'.qty]
                    ELSE activated

RiskSpec == RiskInit /\ [][RiskNext]_riskVars

\* What the order being matched may still add to an account's position.
LiveExposure(owner, side) ==
    IF phase = "match" /\ live.owner = owner /\ live.side = side
    THEN live.qty ELSE 0

\* The position limit: if everything an account has in the book and in the
\* running call were filled on one side, its position would exceed the limit
\* by no more than the volume of its stops that were activated, and without
\* stops not at all, whatever fills, amendments and self-trade cancels there
\* were since each check.
WithinPositionLimit ==
    PositionLimit > 0 =>
        \A owner \in Accounts, side \in Sides :
            (IF side = "Buy" THEN accounts[owner].net
                             ELSE -accounts[owner].net)
                + accounts[owner].open[side] + LiveExposure(owner, side)
              <= PositionLimit + activated[owner][side]
==============================================================================
