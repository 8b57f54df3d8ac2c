---------------------------- MODULE MCSingleFlight ----------------------------
(* SingleFlight with three callers that ask for one key and two concurrent  *)
(* calls of aclose().  Keys share no state except the closed flag, so one   *)
(* key shows every interleaving of the callers of a key.                    *)
EXTENDS SingleFlight

CONSTANTS c1, c2, c3, x1, x2, k1

MCKeyOf == [c \in Callers |-> k1]

===============================================================================
