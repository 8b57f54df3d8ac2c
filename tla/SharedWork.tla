------------------------------ MODULE SharedWork ------------------------------
(***************************************************************************)
(* What the single-flight coordinator promises its callers, with none of   *)
(* its bookkeeping: per key there is at most one unit of shared work, it   *)
(* exists exactly while somebody is attached to it, a newcomer attaches to *)
(* the work that is there, and it ends for lack of interest only when the  *)
(* last attached caller has left.  SingleFlight implements this            *)
(* specification with counted references and detached release tasks.       *)
(***************************************************************************)
CONSTANTS Callers, Keys

VARIABLES
  attached,   \* attached[k]: the callers that currently hold the work of key k
  work,       \* work[k]: no work, work under way, or work whose outcome is known
  shut        \* the coordinator has been closed

vars == <<attached, work, shut>>

WorkStates == {"none", "underway", "known"}

TypeOK ==
  /\ attached \in [Keys -> SUBSET Callers]
  /\ work \in [Keys -> WorkStates]
  /\ shut \in BOOLEAN

Init ==
  /\ attached = [k \in Keys |-> {}]
  /\ work = [k \in Keys |-> "none"]
  /\ shut = FALSE

Attach(c, k) ==
  /\ ~shut
  /\ \A q \in Keys : c \notin attached[q]
  /\ attached' = [attached EXCEPT ![k] = @ \cup {c}]
  /\ work' = [work EXCEPT ![k] = IF @ = "none" THEN "underway" ELSE @]
  /\ UNCHANGED shut

Settle(k) ==
  /\ work[k] = "underway"
  /\ work' = [work EXCEPT ![k] = "known"]
  /\ UNCHANGED <<attached, shut>>

Detach(c, k) ==
  /\ c \in attached[k]
  /\ attached' = [attached EXCEPT ![k] = @ \ {c}]
  /\ work' = [work EXCEPT ![k] = IF attached[k] = {c} THEN "none" ELSE @]
  /\ UNCHANGED shut

Shut ==
  /\ ~shut
  /\ shut' = TRUE
  /\ attached' = [k \in Keys |-> {}]
  /\ work' = [k \in Keys |-> "none"]

Next ==
  \/ \E c \in Callers, k \in Keys : Attach(c, k) \/ Detach(c, k)
  \/ \E k \in Keys : Settle(k)
  \/ Shut

Spec == Init /\ [][Next]_vars

===============================================================================
