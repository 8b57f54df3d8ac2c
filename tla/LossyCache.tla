----------------------------- MODULE LossyCache -----------------------------
(***************************************************************************)
(* What the session may rely on when it uses a perception cache            *)
(* (protocols.Cache; session.py _safe_cache_get, _safe_cache_set): an entry *)
(* may disappear at any time, but a reader is told either nothing or what  *)
(* was stored under the key it asked for and is still held.                *)
(***************************************************************************)
CONSTANTS Keys, Values, Readers,
          Asked,    \* the keys each reader's question may mean
          Missing   \* no value

VARIABLES
  held,  \* the values that are stored under each key; several, if copies differ
  told   \* what each reader has been told; {} before that

vars == <<held, told>>

TypeOK ==
  /\ held \in [Keys -> SUBSET Values]
  /\ told \in [Readers -> SUBSET (Values \cup {Missing})]

Init ==
  /\ held \in [Keys -> SUBSET Values]
  /\ told = [r \in Readers |-> {}]

\* The values of these keys are as they were, or gone.
Kept(keys) == \A k \in keys : held'[k] \subseteq held[k]

Put(k, v) ==
  /\ held'[k] \ held[k] \subseteq {v}
  /\ Kept(Keys \ {k})
  /\ UNCHANGED told

Lose ==
  /\ Kept(Keys)
  /\ UNCHANGED told

Tell(r) ==
  /\ told[r] = {}
  /\ \/ told' = [told EXCEPT ![r] = {Missing}]
     \/ \E k \in Asked[r] : \E v \in held[k] : told' = [told EXCEPT ![r] = {v}]
  /\ Kept(Keys)

Next ==
  \/ Lose
  \/ \E r \in Readers : Tell(r)
  \/ \E k \in Keys, v \in Values : Put(k, v)

Spec == Init /\ [][Next]_vars
=============================================================================
