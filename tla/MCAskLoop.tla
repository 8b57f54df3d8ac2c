------------------------------ MODULE MCAskLoop ------------------------------
EXTENDS AskLoop

CONSTANTS look, crop, tile

MCCalls == {look, crop, tile}

\* A perception tool, a transform of one image and one of two.
MCAssetsOf == [a \in MCCalls |-> CASE a = look -> 0 [] a = crop -> 1 [] a = tile -> 2]

===============================================================================
