---------------------------- MODULE MCPerception ----------------------------
EXTENDS Perception

CONSTANTS r1, r2, r3, b1, b2

\* Two runs with the same preferences and one that overrides them.
MCRouteOf == [r \in {r1, r2, r3} |-> IF r = r3 THEN <<b2, b1>> ELSE <<b1, b2>>]

===============================================================================
