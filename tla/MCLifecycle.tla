---------------------------- MODULE MCLifecycle ----------------------------
EXTENDS Lifecycle

CONSTANTS ask1, open1, c1, c2

MCOn == [c \in {c1, c2} |-> open1]

===============================================================================
